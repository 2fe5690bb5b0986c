--------------------------- MODULE MCBlockManager ---------------------------
(***************************************************************************)
(* A DAG of two authorities over four rounds.  Authority "a" equivocates in *)
(* round 2 (a2, e2), "b" produces nothing in rounds 2 and 3. With GcDepth=1*)
(* the GC round reaches 3, so whole suspended chains are collected.         *)
(***************************************************************************)
EXTENDS BlockManager

mcBlocks == {"g", "a1", "b1", "a2", "e2", "a3", "b4"}

mcRound == [b \in mcBlocks |->
    CASE b = "g" -> 0
      [] b \in {"a1", "b1"} -> 1
      [] b \in {"a2", "e2"} -> 2
      [] b = "a3" -> 3
      [] b = "b4" -> 4]

mcAncestors == [b \in mcBlocks |->
    CASE b = "g" -> {}
      [] b \in {"a1", "b1"} -> {"g"}
      [] b = "a2" -> {"a1", "b1"}
      [] b = "e2" -> {"a1"}
      [] b = "a3" -> {"a2"}
      [] b = "b4" -> {"b1", "e2", "a3"}]

Past(b, low) ==
    LET step[n \in 0..4] ==
          IF n = 0 THEN {b} ELSE step[n - 1] \cup UNION {mcAncestors[x] : x \in step[n - 1]}
    IN {x \in step[4] : mcRound[x] > low}

mcCertifiedCommits ==
    {<<Past(b, low), b>> : b \in mcBlocks \ {"g"}, low \in 0..2}
=============================================================================
