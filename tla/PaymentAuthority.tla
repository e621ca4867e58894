--------------------------- MODULE PaymentAuthority ---------------------------
(***************************************************************************)
(* What a decision provider promises its callers, without calls in         *)
(* flight, clocks, claims or failures: decisions are issued once and never *)
(* change, an approval request is resolved by one further decision, an     *)
(* authorisation is used by one execution, and every use fits the daily    *)
(* limit.  PolicyProvider implements it (Authority there).                 *)
(***************************************************************************)
EXTENDS Integers

CONSTANTS Ids, ExecRefs, Principals, Days, DailyLimit, None

VARIABLES
    status,     \* of each decision
    usedBy,     \* the execution reference of a used authorisation
    spent       \* per principal and day

vars == <<status, usedBy, spent>>

Init ==
    /\ status = [i \in Ids |-> "unissued"]
    /\ usedBy = [i \in Ids |-> None]
    /\ spent = [p \in Principals |-> [d \in Days |-> 0]]

(* README "Human approval": ALLOW, REQUIRE_APPROVAL or BLOCK, for good. *)
Issue(i, s) ==
    /\ status[i] = "unissued"
    /\ s \in {"authorised", "pending", "blocked"}
    /\ status' = [status EXCEPT ![i] = s]
    /\ UNCHANGED <<usedBy, spent>>

(* A new decision supersedes an open request; it is never another request. *)
Resolve(k, i, s) ==
    /\ status[k] = "pending" /\ status[i] = "unissued"
    /\ s \in {"authorised", "blocked"}
    /\ status' = [status EXCEPT ![k] = "resolved", ![i] = s]
    /\ UNCHANGED <<usedBy, spent>>

(* An authorisation is consumed together with its amount. *)
Use(i, r, p, d, amount) ==
    /\ status[i] = "authorised"
    /\ spent[p][d] + amount <= DailyLimit
    /\ status' = [status EXCEPT ![i] = "used"]
    /\ usedBy' = [usedBy EXCEPT ![i] = r]
    /\ spent' = [spent EXCEPT ![p][d] = @ + amount]

Next ==
    \E i \in Ids :
        \/ \E s \in {"authorised", "pending", "blocked"} : Issue(i, s)
        \/ \E k \in Ids, s \in {"authorised", "blocked"} : Resolve(k, i, s)
        \/ \E r \in ExecRefs, p \in Principals, d \in Days, amount \in 0 .. DailyLimit :
               Use(i, r, p, d, amount)

Spec == Init /\ [][Next]_vars
===============================================================================
