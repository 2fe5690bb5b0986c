------------------------------ MODULE Committee ------------------------------
(***************************************************************************)
(* The stakes of the consensus committee (config/src/committee.rs) and the *)
(* scan that components make over them: sort the authorities by a value,   *)
(* add up their stakes in that order and stop at a threshold.              *)
(*                                                                         *)
(* Authorities are their positions 1..N in the committee.  The stakes are  *)
(* an argument, so that an instance can range over distributions of stake. *)
(***************************************************************************)
EXTENDS StakeThresholds, Sequences, FiniteSets, FiniteSetsExt, TLC

CONSTANT N  \* size of the committee

ASSUME CommitteeAssumption == N \in Nat \ {0}

Authorities == 1..N

StakeOf(stake, S) == MapThenSumSet(LAMBDA a : stake[a], S)
TotalStake(stake) == StakeOf(stake, Authorities)

reached_quorum(stake, S) == StakeOf(stake, S) >= QuorumThreshold(TotalStake(stake))

-----------------------------------------------------------------------------
(* Scans.  An order is a sequence of authorities.                          *)

\* The authorities that have a value, in the order of the committee.
Listed(values) == SelectSeq([i \in Authorities |-> i], LAMBDA a : a \in DOMAIN values)

\* Vec::sort of (value, stake) pairs.
Ascending(values, stake) ==
    SortSeq(Listed(values), LAMBDA a, b :
        \/ values[a] < values[b]
        \/ values[a] = values[b] /\ stake[a] < stake[b])

\* The value at which the running sum of stakes first reaches `enough`, 0 if never.
ScanTo(order, values, stake, enough) ==
    LET Running(i) == StakeOf(stake, {order[j] : j \in 1..i})
        reached    == {i \in DOMAIN order : Running(i) >= enough}
    IN  IF reached = {} THEN 0 ELSE values[order[Min(reached)]]

=============================================================================
