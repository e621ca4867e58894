--------------------------- MODULE SingleExecution ---------------------------
(***************************************************************************)
(* What guard, gates and composite promise of side effects, without calls  *)
(* in flight, claims, journals, failures or retries: an authority is used  *)
(* up for one key before anything is done under that key, one side effect  *)
(* happens per key, and what callers are told of it is true for good.      *)
(* X402Settlement (a payment per execution reference), ExecutionGate (a    *)
(* delegate call or broadcast per key of its store) and MtpAuthority (a    *)
(* local consumption per reference MTP consumed for) implement it.         *)
(***************************************************************************)
EXTENDS Integers

CONSTANTS Authorities, Keys, None

VARIABLES
    grant,      \* the key each authority was used up for
    effects,    \* effects[a][k]: side effects under key k by authority a
    reported,   \* keys of which a caller was told that the effect happened
    ruledOut    \* keys of which a caller was told that it never will

vars == <<grant, effects, reported, ruledOut>>

Init ==
    /\ grant = [a \in Authorities |-> None]
    /\ effects = [a \in Authorities |-> [k \in Keys |-> 0]]
    /\ reported = {} /\ ruledOut = {}

Untouched(k) == \A a \in Authorities : effects[a][k] = 0

(* README.md:24: a consumption is single use.                              *)
Consume(a, k) ==
    /\ grant[a] = None
    /\ grant' = [grant EXCEPT ![a] = k]
    /\ UNCHANGED <<effects, reported, ruledOut>>

Execute(a, k) ==
    /\ grant[a] = k /\ Untouched(k) /\ k \notin ruledOut
    /\ effects' = [effects EXCEPT ![a][k] = 1]
    /\ UNCHANGED <<grant, reported, ruledOut>>

Report(k) ==
    /\ ~Untouched(k)
    /\ reported' = reported \cup {k}
    /\ UNCHANGED <<grant, effects, ruledOut>>

RuleOut(k) ==
    /\ Untouched(k)
    /\ ruledOut' = ruledOut \cup {k}
    /\ UNCHANGED <<grant, effects, reported>>

Next ==
    \E k \in Keys :
        \/ \E a \in Authorities : Consume(a, k) \/ Execute(a, k)
        \/ Report(k) \/ RuleOut(k)

Spec == Init /\ [][Next]_vars
==============================================================================
