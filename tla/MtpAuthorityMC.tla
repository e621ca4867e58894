--------------------------- MODULE MtpAuthorityMC ---------------------------
(* The small instance of MtpAuthority: two calls at once, two decisions    *)
(* that may compete for one reference, two references.                     *)
EXTENDS MtpAuthority, TLC

CONSTANTS c1, c2, d1, d2, r1, r2

MCCallers == {c1, c2}
MCDecisions == {d1, d2}
MCExecRefs == {r1, r2}

Symmetry == Permutations(MCCallers) \cup Permutations(MCDecisions) \cup Permutations(MCExecRefs)
=============================================================================
