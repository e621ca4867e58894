--------------------------- MODULE KeyRotationMC ----------------------------
(* The small instance of KeyRotation: two replicas restarted one by one,   *)
(* and keys enough for two rotations.                                      *)
EXTENDS KeyRotation, TLC

CONSTANTS k1, k2, k3, r1, r2

MCKeys == {k1, k2, k3}
MCReplicas == {r1, r2}

Symmetry == Permutations(MCReplicas) \cup Permutations({k2, k3})
=============================================================================
