--------------------------- MODULE ExecutionGateMC --------------------------
(* Small instances of ExecutionGate: two calls at once, for requests that  *)
(* share an item and for requests of different items.                      *)
EXTENDS ExecutionGate, TLC

CONSTANTS c1, c2, i1, i2, v1, v2, d1, d2, d3

(* The A2A gate gets requests for two items, so that evidence may be of    *)
(* another payment; the other gates' keys are contended within one item.   *)
TwoTasks ==
    [k \in Kinds |-> IF k = "a2a" THEN Requests ELSE {q \in Requests : Item(q) = i1}]

Symmetry == Permutations(Callers) \cup Permutations(Variants) \cup Permutations(Decisions)
=============================================================================
