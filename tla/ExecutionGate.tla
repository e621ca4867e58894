---------------------------- MODULE ExecutionGate ---------------------------
(***************************************************************************)
(* The three runtime gates that let one external side effect happen for    *)
(* one authorised action:                                                  *)
(*   "a2a"  InntrisA2ASettlementGate.process: a delegate runs a paid task; *)
(*   "ap2"  InntrisAP2RuntimeGate.process: a delegate makes an AP2 payment;*)
(*   "evm"  InntrisEvmWalletGate: a wallet signs, a transaction is         *)
(*          broadcast.                                                     *)
(* They share one protocol - obtain a fresh decision, check, consume it,   *)
(* claim the execution, run it, complete it - and differ in its order and  *)
(* in what the execution store is keyed by and bound to.  `kind` is chosen *)
(* once and says which gate this is.                                       *)
(*                                                                         *)
(* Calls run concurrently; an action is the code from one await to the     *)
(* next; every await may throw and a process may stop (Fail).  Nothing     *)
(* retries by itself: a retry is a new call.                               *)
(*                                                                         *)
(* External: the decision provider (a fresh decision per evaluation, one   *)
(* reference per decision, a daily limit every first consumption counts    *)
(* towards), the settlement provider of the A2A gate (one payment, with    *)
(* one settlement_ref, per idempotency key; evidence may be late, unknown  *)
(* or of another payment), the AP2 SDK, the delegate, the wallet and the   *)
(* chain.                                                                  *)
(*                                                                         *)
(* Abstractions: a request is an item (the paid task, its context,         *)
(* submission, requirements and resource; the Payment Mandate; the         *)
(* unsigned transaction) and a variant, which is all else the action       *)
(* covers (checkout and intent mandates, purpose, agent).                  *)
(* Hashes of different data differ.  Every action costs one unit.          *)
(***************************************************************************)
EXTENDS Integers, FiniteSets

CONSTANTS
    Kinds,        \* the gates of this instance
    Callers,      \* calls in flight
    Items, Variants,
    Workload,     \* bound: the requests presented to each gate
    Decisions,    \* decisions the provider may issue
    DailyLimit,   \* actions the policy allows a day
    MaxFailures,  \* bound on throws and stops
    None

ASSUME KindsAssumption == Kinds \subseteq {"a2a", "ap2", "evm"}

ASSUME BoundsAssumption == DailyLimit \in Nat /\ MaxFailures \in Nat

Requests == Items \X Variants
Item(q) == q[1]

ASSUME WorkloadAssumption == Workload \in [Kinds -> SUBSET Requests]

VARIABLES
    kind,       \* the gate
    action,     \* the request each issued decision is bound to
    expired,    \* decisions whose expires_at has passed
    consumed,   \* the execution reference each decision was consumed with
    lapsed,     \* AP2: requests whose mandates have expired
    payment,    \* A2A: the payment of each item
    store,      \* the execution store
    call,       \* the calls in flight
    failures,
    ran,        \* history: side effects
    told        \* history: answers of calls

vars == <<kind, action, expired, consumed, lapsed, payment, store, call, failures, ran, told>>

-----------------------------------------------------------------------------
(* Keys, references and bindings                                           *)

(* The execution reference: the A2A and AP2 gates hash the request and the *)
(* action, the wallet gate the decision identifier too.  The A2A gate's    *)
(* settlement_ref is that of the item's payment, of which there is one.    *)
Reference(q, d) == IF kind = "evm" THEN <<q, d>> ELSE <<q, None>>

(* The store's key: the A2A gate's is the execution reference, the AP2     *)
(* gate's the Payment Mandate, the wallet gate's the unsigned transaction. *)
Key(q) == IF kind = "a2a" THEN q ELSE <<Item(q), None>>

References == Requests \X (Decisions \cup {None})
Keys == Requests \cup (Items \X {None})

Execution == [state : {"in_progress", "completed"}, ref : References,
              decision : Decisions \cup {None}]

ASSUME NoneAssumption == None \notin Requests \cup References \cup Execution

Pcs == {"idle", "verify", "evaluate", "settle", "recheck", "consume", "claim",
        "delegate", "sign", "broadcast", "receipt", "complete"}

(* `signed` is the request the signed transaction is of: None is another   *)
(* transaction than the one presented, or none yet.                        *)
Call == [pc : Pcs, request : Requests \cup {None}, decision : Decisions \cup {None},
         signed : Requests \cup {None}, after : BOOLEAN]

Idle == [pc |-> "idle", request |-> None, decision |-> None, signed |-> None, after |-> FALSE]

Run == [key : Keys, request : Requests \cup {None}, decision : Decisions, number : Nat]

Answers == [outcome : {"completed", "replayed", "refused", "conflict", "unresolved"},
            request : Requests, decision : Decisions \cup {None}, after : BOOLEAN]

TypeOK ==
    /\ kind \in Kinds
    /\ action \in [Decisions -> Requests \cup {None}]
    /\ expired \subseteq Decisions
    /\ consumed \in [Decisions -> References \cup {None}]
    /\ lapsed \subseteq Requests
    /\ payment \in [Items -> {"none", "submitted", "settled", "failed"}]
    /\ store \in [Keys -> Execution \cup {None}]
    /\ call \in [Callers -> Call]
    /\ failures \in 0..MaxFailures
    /\ ran \subseteq Run
    /\ told \subseteq Answers

Init ==
    /\ kind \in Kinds
    /\ action = [d \in Decisions |-> None]
    /\ expired = {} /\ lapsed = {}
    /\ consumed = [d \in Decisions |-> None]
    /\ payment = [i \in Items |-> "none"]
    /\ store = [k \in Keys |-> None]
    /\ call = [c \in Callers |-> Idle]
    /\ failures = 0
    /\ ran = {} /\ told = {}

At(c, pc) == call[c].pc = pc
Goto(c, pc) == call' = [call EXCEPT ![c].pc = pc]
Return(c) == call' = [call EXCEPT ![c] = Idle]
Answer(c, outcome, d) ==
    /\ Return(c)
    /\ told' = told \cup {[outcome |-> outcome, request |-> call[c].request,
                           decision |-> d, after |-> call[c].after]}

external == <<expired, lapsed, payment>>
history == <<ran, told>>

-----------------------------------------------------------------------------
(* Up to the decision                                                      *)

(* The request's execution is completed when the call begins.              *)
Finished(q) ==
    LET e == store[Key(q)] IN e # None /\ e.state = "completed" /\ e.ref[1] = q

(* prepareInput, AP2GateInputSchema or #prepare accepts the request.       *)
Begin(c, q) ==
    /\ At(c, "idle") /\ q \in Workload[kind]
    /\ call' = [call EXCEPT ![c] =
           [Idle EXCEPT !.pc = IF kind = "ap2" THEN "verify" ELSE "evaluate",
                        !.request = q, !.after = Finished(q)]]
    /\ UNCHANGED <<kind, action, consumed, store, failures, external, history>>

(* signAndBroadcast called with a decision obtained before, for whatever   *)
(* transaction.                                                            *)
SignAndBroadcast(c, q, d) ==
    /\ kind = "evm" /\ At(c, "idle") /\ q \in Workload[kind] /\ action[d] # None
    /\ call' = [call EXCEPT ![c] =
           [Idle EXCEPT !.pc = "recheck", !.request = q, !.decision = d, !.after = Finished(q)]]
    /\ UNCHANGED <<kind, action, consumed, store, failures, external, history>>

(* AP2: trust keys, the official SDK's verification of both mandate        *)
(* chains, its currency and the exact binding to the expected payment.     *)
VerifyMandates(c) ==
    /\ At(c, "verify")
    /\ IF call[c].request \notin lapsed THEN Goto(c, "evaluate") ELSE Return(c)
    /\ UNCHANGED <<kind, action, consumed, store, failures, external, history>>

Spent == Cardinality({d \in Decisions : consumed[d] # None})

(* authorise: the provider issues a fresh ALLOW for exactly this action.   *)
Authorise(c, d) ==
    /\ action[d] = None
    /\ action' = [action EXCEPT ![d] = call[c].request]
    /\ call' = [call EXCEPT ![c].decision = d,
           ![c].pc = IF kind = "a2a" THEN "settle" ELSE "recheck"]

(* guard.authorise or provider.evaluate: a fresh decision, verified; only  *)
(* ALLOW goes on.                                                          *)
Evaluate(c) ==
    /\ At(c, "evaluate")
    /\ \/ /\ Spent < DailyLimit
          /\ \E d \in Decisions : Authorise(c, d)
          /\ UNCHANGED told
       \/ /\ Spent >= DailyLimit
          /\ Answer(c, "refused", None)
          /\ UNCHANGED action
    /\ UNCHANGED <<kind, consumed, store, failures, external, ran>>

(* Mutant: evidence of any payment is taken for this one's. *)
AnyEvidence(e, q) == TRUE

(* verifySettlementBinding: evidence for item e names this task, context,  *)
(* submission, requirements and resource.  It says nothing of the variant. *)
(* A wrong settlement_ref or an observation older than the submission is   *)
(* of no more use than an unknown state.                                   *)
EvidenceBinds(e, q) == e = Item(q)

(* Mutant: a submitted payment is proof enough. *)
SubmittedIsEnough(s) == s \in {"submitted", "settled"}

(* requireFinalSettlement: UNKNOWN, FAILED and a submission are no proof.  *)
IsFinal(s) == s = "settled"

(* A2A: settle or confirm.  The idempotency key is a hash of the item: the *)
(* provider starts the item's payment once and reports what it has seen,   *)
(* which may be of another item.                                           *)
Settle(c) ==
    LET q == call[c].request
        i == Item(q)
        Progress == IF payment[i] = "none" THEN {"submitted", "settled"} ELSE {payment[i]}
    IN  /\ At(c, "settle")
        /\ \E p \in Progress : payment' = [payment EXCEPT ![i] = p]
        /\ \E e \in Items : \E s \in {payment'[e], "unknown"} :
              IF EvidenceBinds(e, q) /\ IsFinal(s) THEN Goto(c, "recheck") ELSE Return(c)
        /\ UNCHANGED <<kind, action, expired, consumed, lapsed, store, failures, history>>

(* External: a submitted payment becomes final, or fails.                  *)
PaymentSettles(i) ==
    /\ payment[i] = "submitted"
    /\ \E p \in {"settled", "failed"} : payment' = [payment EXCEPT ![i] = p]
    /\ UNCHANGED <<kind, action, expired, consumed, lapsed, store, call, failures, history>>

(* The last check before consumption: the A2A gate verifies the decision   *)
(* again after the settlement, the wallet gate at signing time, against    *)
(* the transaction presented then; the AP2 gate checks its mandates again. *)
StillValid(q, d) ==
    IF kind = "ap2" THEN q \notin lapsed ELSE d \notin expired /\ action[d] = q

Recheck(c) ==
    /\ At(c, "recheck")
    /\ IF StillValid(call[c].request, call[c].decision) THEN Goto(c, "consume") ELSE Return(c)
    /\ UNCHANGED <<kind, action, consumed, store, failures, external, history>>

-----------------------------------------------------------------------------
(* Consumption and the claim                                               *)

(* Mutant: the gate goes on whatever the consumption returned. *)
IgnoresResult(d, r) == TRUE

(* The consumption succeeded: now, or before and the decision has not      *)
(* expired since.                                                          *)
ConsumptionSucceeds(d, r) == consumed'[d] = r /\ d \notin expired

(* provider.consume: a first use counts towards the daily limit, a repeat  *)
(* of the reference succeeds, an expired or refused decision fails.        *)
Consume(c) ==
    LET d == call[c].decision
        r == Reference(call[c].request, d)
    IN  /\ At(c, "consume")
        /\ IF consumed[d] = None /\ d \notin expired /\ Spent < DailyLimit
           THEN consumed' = [consumed EXCEPT ![d] = r]
           ELSE UNCHANGED consumed
        /\ IF ConsumptionSucceeds(d, r)
           THEN Goto(c, "claim") /\ UNCHANGED told
           ELSE Answer(c, "refused", None)
        /\ UNCHANGED <<kind, action, store, failures, external, ran>>

(* Mutant: an execution of the key is taken for this one's. *)
AnyBinding(e, q, d) == TRUE

(* The stored binding hash and execution reference are this call's.        *)
SameBinding(e, q, d) == e.ref = Reference(q, d)

(* Mutant: an unresolved claim may be taken again. *)
FreeUnlessCompleted(e) == e # None => e.state = "in_progress"

Free(e) == e = None

AfterClaim == IF kind = "evm" THEN "sign" ELSE "delegate"

(* executionStore.claim and what the gate does with its answer.            *)
Claim(c) ==
    LET q == call[c].request
        d == call[c].decision
        e == store[Key(q)]
    IN  /\ At(c, "claim")
        /\ \/ /\ Free(e)
              /\ store' = [store EXCEPT ![Key(q)] =
                     [state |-> "in_progress", ref |-> Reference(q, d), decision |-> None]]
              /\ Goto(c, AfterClaim) /\ UNCHANGED told
           \/ /\ ~Free(e)
              /\ \/ ~SameBinding(e, q, d) /\ Answer(c, "conflict", None)
                 \/ /\ SameBinding(e, q, d) /\ e.state = "in_progress"
                    /\ Answer(c, "unresolved", None)
                 \/ /\ SameBinding(e, q, d) /\ e.state = "completed"
                    /\ Answer(c, "replayed", e.decision)
              /\ UNCHANGED store
        /\ UNCHANGED <<kind, action, consumed, failures, external, ran>>

-----------------------------------------------------------------------------
(* The side effect                                                         *)

Runs(c, q) ==
    ran' = ran \cup {[key |-> Key(call[c].request), request |-> q,
                      decision |-> call[c].decision, number |-> Cardinality(ran) + 1]}

(* executeDelegate                                                         *)
Delegate(c) ==
    /\ At(c, "delegate")
    /\ Runs(c, call[c].request) /\ Goto(c, "receipt")
    /\ UNCHANGED <<kind, action, consumed, store, failures, external, told>>

(* Mutant: the signed bytes are not parsed. *)
AnySignature(s, q) == TRUE

(* verifySignedEvmTransaction: every authorised field, and the sender.     *)
SignsExactly(s, q) == s = q

(* wallet.signTransaction may return another transaction, signed.          *)
Sign(c) ==
    /\ At(c, "sign")
    /\ \E s \in {call[c].request, None} :
          IF SignsExactly(s, call[c].request)
          THEN call' = [call EXCEPT ![c].pc = "broadcast", ![c].signed = s]
          ELSE Return(c)
    /\ UNCHANGED <<kind, action, consumed, store, failures, external, history>>

(* broadcastTransaction returns the hash of the signed bytes.              *)
Broadcast(c) ==
    /\ At(c, "broadcast")
    /\ Runs(c, call[c].signed) /\ Goto(c, "complete")
    /\ UNCHANGED <<kind, action, consumed, store, failures, external, told>>

(* createA2AActionReceipt or createAP2ActionReceipt signs the receipt.     *)
SignReceipt(c) ==
    /\ At(c, "receipt")
    /\ Goto(c, "complete")
    /\ UNCHANGED <<kind, action, consumed, store, failures, external, history>>

(* Mutant: a completed execution is stored as failed. *)
StoredAsFailed(q, d) == [state |-> "failed", ref |-> Reference(q, d), decision |-> d]

StoredExecution(q, d) == [state |-> "completed", ref |-> Reference(q, d), decision |-> d]

(* Only the unresolved claim of this binding and reference is completed.   *)
Completable(e, q, d) == e # None /\ e.state = "in_progress" /\ SameBinding(e, q, d)

(* executionStore.complete, which throws otherwise, and the answer.        *)
Complete(c) ==
    LET q == call[c].request
        d == call[c].decision
        e == store[Key(q)]
    IN  /\ At(c, "complete")
        /\ IF Completable(e, q, d)
           THEN /\ store' = [store EXCEPT ![Key(q)] = StoredExecution(q, d)]
                /\ Answer(c, "completed", d)
           ELSE Return(c) /\ UNCHANGED <<store, told>>
        /\ UNCHANGED <<kind, action, consumed, failures, external, ran>>

-----------------------------------------------------------------------------
(* A decision or the mandates of a request expire.                         *)
Expire ==
    /\ \/ \E d \in Decisions : action[d] # None /\ expired' = expired \cup {d} /\ UNCHANGED lapsed
       \/ \E q \in Workload[kind] : kind = "ap2" /\ lapsed' = lapsed \cup {q} /\ UNCHANGED expired
    /\ UNCHANGED <<kind, action, consumed, payment, store, call, failures, history>>

(* An await throws, a result is malformed, or the process stops: the gate  *)
(* rejects and leaves everything as it is.  An effect that took place and  *)
(* whose answer is lost is the effect's step followed by this one.         *)
Fail(c) ==
    /\ ~At(c, "idle") /\ failures < MaxFailures
    /\ failures' = failures + 1
    /\ Return(c)
    /\ UNCHANGED <<kind, action, consumed, store, external, history>>

Step(c) ==
    \/ VerifyMandates(c) \/ Evaluate(c) \/ Settle(c) \/ Recheck(c) \/ Consume(c)
    \/ Claim(c) \/ Delegate(c) \/ Sign(c) \/ Broadcast(c) \/ SignReceipt(c) \/ Complete(c)

Next ==
    \/ \E c \in Callers :
        \/ Step(c) \/ Fail(c)
        \/ \E q \in Requests : Begin(c, q)
        \/ \E q \in Requests, d \in Decisions : SignAndBroadcast(c, q, d)
    \/ \E i \in Items : PaymentSettles(i)
    \/ Expire

Spec == Init /\ [][Next]_vars

-----------------------------------------------------------------------------
Effects(d, k) == {x \in ran : x.decision = d /\ x.key = k}
Done(a) == a.outcome \in {"completed", "replayed"}

Grant == [d \in Decisions |-> IF consumed[d] = None THEN None ELSE Key(consumed[d][1])]
EffectCount == [d \in Decisions |-> [k \in Keys |-> Cardinality(Effects(d, k))]]
Reported == {k \in Keys : \E a \in told : Done(a) /\ k = Key(a.request)}

Single == INSTANCE SingleExecution WITH
    Authorities <- Decisions, grant <- Grant, effects <- EffectCount,
    reported <- Reported, ruledOut <- {}

(* Each of the three gates implements SingleExecution: one side effect per *)
(* key of its store, by a decision consumed for it, and answers that are   *)
(* given after it.  (THREAT_MODEL.md:62-63, 67, 70, 74)                    *)
ImplementsExecution == Single!Spec

(* One side effect per key - one delegate call per task, settlement and    *)
(* action, one payment per Payment Mandate, one broadcast per unsigned     *)
(* transaction - whatever calls race, fail, stop and retry, with however   *)
(* many decisions.  (THREAT_MODEL.md:62-63, 67, 70, 74; a2a README:27-28)  *)
RunsOnce == \A x, y \in ran : x.key = y.key => x = y

(* Every side effect was driven by a decision for exactly its request,     *)
(* consumed with its reference, and a decision drives one side effect only.*)
(* (gates: consumption before the claim, README of each package)           *)
RunsWithAuthority ==
    /\ \A x \in ran :
        /\ x.request # None /\ action[x.decision] = x.request
        /\ consumed[x.decision] = Reference(x.request, x.decision)
    /\ \A x, y \in ran : x.decision = y.decision => x = y

(* The delegate of the A2A gate never runs for a task and submission whose *)
(* own payment is not final: not on a submission, an unknown state, or     *)
(* evidence of another task's payment.  Actions that differ in purpose or  *)
(* agent only share the payment of their task and submission.              *)
(* (THREAT_MODEL.md:59-61, a2a README:22-23)                               *)
PaidBeforeRun ==
    kind = "a2a" => \A x \in ran : payment[Item(x.request)] = "settled"

(* A caller that is told its request is done - now, or by replay - is told *)
(* of a side effect that happened for that very request, under the         *)
(* decision in the answer.  (claim.status "completed", README of ap2:59)   *)
AnswersMatchRuns ==
    \A a \in told : a.outcome \in {"completed", "replayed"} =>
        \E x \in ran : x.request = a.request /\ x.decision = a.decision

(* "An exact completed retry returns the stored receipt and result."       *)
(* (packages/ap2-runtime-gate/README.md:59; a2a README:28-29)              *)
CompletedRetryReplays ==
    \A a \in told : a.after => a.outcome = "replayed"
=============================================================================
