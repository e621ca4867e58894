---------------------------- MODULE KyaLifecycleMC --------------------------
(* The small instance of KyaLifecycle: three requests, two at once, two    *)
(* agents, four proofs of which three are the first agent's, one each to   *)
(* evaluate, approve and consume.  The instants are the first and the last *)
(* of the proofs' window, one after it, the one their nonces expire at and *)
(* the one after that.                                                     *)
(***************************************************************************)
EXTENDS KyaLifecycle, TLC

CONSTANTS c1, c2, a1, a2, p1, p2, p3, p4, d1, d2, r1, r2

MCCallers == {c1, c2}
MCAgents == {a1, a2}
MCProofs == {p1, p2, p3, p4}
MCOwner == (p1 :> a1) @@ (p2 :> a1) @@ (p3 :> a1) @@ (p4 :> a2)
MCDecisions == {d1, d2}
MCExecRefs == {r1, r2}

Symmetry == Permutations(MCCallers) \cup Permutations(MCDecisions) \cup Permutations(MCExecRefs)
            \cup Permutations({p1, p2, p3})
=============================================================================
