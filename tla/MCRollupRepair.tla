---------------------------- MODULE MCRollupRepair ----------------------------
(* Instances of RollupRepair for TLC. *)
EXTENDS RollupRepair, TLC

CONSTANTS f1, f2, f3, h1, h2, d1, m1, w1, w2, p1, p2, pr

\* f1 and f2 fall into one hour, f3 into the next hour of the same day.
MCHourOf == [f \in Facts |-> IF f = f3 THEN h2 ELSE h1]
MCDayOf == [f \in Facts |-> d1]
MCMonthOf == [f \in Facts |-> m1]

MCSymmetry == Permutations(Writers) \cup Permutations(Workers)
===============================================================================
