--------------------------- MODULE StakeThresholds ---------------------------
(***************************************************************************)
(* The thresholds that the two constructors of Committee (config/src/      *)
(* committee.rs) compute from its total stake.                             *)
(***************************************************************************)
EXTENDS Integers

\* Committee::new: thresholds for a total stake of 3f + 1.
FaultTolerance(total) == (total - 1) \div 3

QuorumThreshold(total) == total - FaultTolerance(total)
ValidityThreshold(total) == FaultTolerance(total) + 1

\* Committee::new_v3: the nominal budgets of malicious and of crash faults, scaled to
\* the stake of the committee, and its thresholds.
BaseStake(malicious, crash) == 5 * malicious + 3 * crash

Scaled(nominal, total, base) ==
    IF base > 0 THEN (nominal * (total - 1)) \div base ELSE 0

MaliciousV3(total, malicious, crash) == Scaled(malicious, total, BaseStake(malicious, crash))
CrashV3(total, malicious, crash) == Scaled(crash, total, BaseStake(malicious, crash))

CertificationThresholdV3(f, c) == 2 * f + c + 1
QuorumThresholdV3(total, f, c) == total - f - c

==============================================================================
