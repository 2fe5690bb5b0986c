--------------------------- MODULE MCCommitOutput ---------------------------
(***************************************************************************)
(* Four commits, two outcomes, two crashes and at most two commits held    *)
(* back: a crash finds commits in every queue, and a replay meets          *)
(* finalized and unfinalized commits.                                      *)
(***************************************************************************)
EXTENDS CommitOutput

CONSTANTS accept, reject
mcOutcomes == {accept, reject}
=============================================================================
