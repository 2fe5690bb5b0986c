----------------------------- MODULE CommitLog -----------------------------
(***************************************************************************)
(* What consensus promises to the consumer of its commits: one log, which  *)
(* only grows, of the commits with their outcomes.  The consumer reads the *)
(* log in order, and after a restart it reads on from any place up to the  *)
(* last entry it has processed.                                            *)
(***************************************************************************)
EXTENDS Naturals

CONSTANTS
    Outcomes,   \* results of finalization
    MaxCommit   \* bound: entries

VARIABLES
    log,        \* log[i]: the outcome of commit i
    next,       \* the entry that the consumer reads next
    processed,  \* the last entry that it has processed
    received    \* every entry it ever read

vars == <<log, next, processed, received>>

Init ==
    /\ log = << >>
    /\ next = 1
    /\ processed = 0
    /\ received = {}

\* More commits get their outcomes.
Decide ==
    /\ \E n \in 1 .. MaxCommit :
        /\ DOMAIN log \subseteq 1 .. n - 1
        /\ log' \in [1 .. n -> Outcomes]
    /\ \A i \in DOMAIN log : log'[i] = log[i]
    /\ UNCHANGED <<next, processed, received>>

\* The consumer reads an entry and makes its effects durable.
Deliver ==
    /\ next \in DOMAIN log
    /\ received' = received \cup {[index |-> next, outcome |-> log[next]]}
    /\ processed' = IF next > processed THEN next ELSE processed
    /\ next' = next + 1
    /\ UNCHANGED log

\* The consumer starts again after an entry that it has processed.
Rewind ==
    /\ \E replay_after \in 0 .. processed : next' = replay_after + 1
    /\ UNCHANGED <<log, processed, received>>

Next == Decide \/ Deliver \/ Rewind

Spec == Init /\ [][Next]_vars
=============================================================================
