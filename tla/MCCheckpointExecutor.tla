----------------------- MODULE MCCheckpointExecutor -----------------------
(***************************************************************************)
(* Instances of CheckpointExecutor.  The second commit leaves roots in the *)
(* checkpoint queue, so the quarantine holds it back until the third.      *)
(***************************************************************************)
EXTENDS CheckpointExecutor

MCDrained == {1, 3} \cap 1..Last

=============================================================================
