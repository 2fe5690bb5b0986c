--------------------------- MODULE EpochExecution ---------------------------
(***************************************************************************)
(* What the checkpoint executor promises the rest of the node: certified   *)
(* checkpoints take effect one after the other, a checkpoint is executed   *)
(* only when its effects are stored, and nothing of this is ever undone,   *)
(* however often the node restarts.                                        *)
(***************************************************************************)
EXTENDS Naturals

CONSTANT Last       \* the last checkpoint of the epoch

VARIABLES
    certified,      \* the highest certified checkpoint
    stored,         \* checkpoints whose effects are stored
    executed        \* the highest executed checkpoint

vars == <<certified, stored, executed>>

Init == certified = 0 /\ stored = {} /\ executed = 0

\* The next checkpoint is certified.
Certify ==
    /\ certified < Last
    /\ certified' = certified + 1
    /\ UNCHANGED <<stored, executed>>

\* The effects of the next certified checkpoint are stored.
Store ==
    /\ \E s \in (1..certified) \ stored :
          /\ 1..(s - 1) \subseteq stored
          /\ stored' = stored \cup {s}
    /\ UNCHANGED <<certified, executed>>

\* The next checkpoint whose effects are stored is executed.
Execute ==
    /\ executed + 1 \in stored
    /\ executed' = executed + 1
    /\ UNCHANGED <<certified, stored>>

Next == Certify \/ Store \/ Execute

Spec == Init /\ [][Next]_vars
=============================================================================
