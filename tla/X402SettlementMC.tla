--------------------------- MODULE X402SettlementMC ---------------------------
(* Small instances of X402Settlement for TLC.                              *)
EXTENDS X402Settlement, TLC

CONSTANTS c1, c2, d1, d2, r1, r2, t1, t2

journalled == [journal |-> TRUE, classifies |-> TRUE, idempotent |-> FALSE]
plain == [journal |-> FALSE, classifies |-> FALSE, idempotent |-> TRUE]

MCBoth == {journalled, plain}

MCCovers == [d \in {d1, d2} |-> IF d = d1 THEN t1 ELSE t2]

(* Two calls may share the decision, the reference, or both; an altered    *)
(* decision, another payment and a payload made for one are presented too. *)
Present(d, r, t) == [decision |-> d, ref |-> r, genuine |-> TRUE, requirements |-> t, payload |-> t]
MCRequests ==
    {Present(d1, r1, t1), Present(d1, r2, t1), Present(d2, r1, t2),
     [Present(d1, r1, t1) EXCEPT !.genuine = FALSE],
     Present(d1, r1, t2),
     [Present(d2, r1, t2) EXCEPT !.payload = t1]}
===============================================================================
