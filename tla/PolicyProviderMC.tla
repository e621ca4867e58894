--------------------------- MODULE PolicyProviderMC ---------------------------
(* Small instances of PolicyProvider for TLC.                              *)
EXTENDS PolicyProvider, TLC

CONSTANTS c1, c2, p1, i1, i2, i3, r1, r2

small == [principal |-> p1, amount |-> 1]
large == [principal |-> p1, amount |-> 2]

MCActions == {small, large}
MCDayKey == [t \in Times |-> IF t = 0 THEN 0 ELSE 1]
MCOpenTimes == Times \ {2}

MCSymmetry == Permutations(Ids) \cup Permutations(Calls) \cup Permutations(ExecRefs)
===============================================================================
