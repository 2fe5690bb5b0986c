--------------------------- MODULE MCCommitSyncer ---------------------------
(***************************************************************************)
(* Batches of two commits, two batches ahead, two parallel fetches, six    *)
(* commits and one crash: partial results, results out of order, local     *)
(* commits that overtake fetches and the consumer's back pressure all      *)
(* happen.                                                                 *)
(***************************************************************************)
EXTENDS CommitSyncer
=============================================================================
