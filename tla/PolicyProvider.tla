--------------------------- MODULE PolicyProvider ---------------------------
(***************************************************************************)
(* LocalPolicyDecisionProvider over its decision, approval, consumption    *)
(* and daily-spend state.                                                  *)
(*                                                                         *)
(* Several provider calls are in flight at once (two requests of one       *)
(* process, or two replicas on one PostgreSQL database).  An action is the *)
(* code between two awaits: it starts with the store operation the call    *)
(* waited for and runs to the next one.  Signing reads and writes nothing  *)
(* shared, so it is one step with the save that follows it.                *)
(*                                                                         *)
(* The store is PostgresPolicyStateStore (AtomicStore = TRUE) or the       *)
(* legacy pair NonceStore + SpendState (AtomicStore = FALSE).  A call may  *)
(* fail at any await: signer or database down, an acknowledgement lost     *)
(* after the commit, the process stopped.                                  *)
(*                                                                         *)
(* Abstractions: amounts are integers; the rules of evaluatePolicy that    *)
(* look only at the action (deny lists, rail, network, asset, merchant,    *)
(* per-transaction limit) are membership in Permitted; an action stands    *)
(* for its hash; a nonce stands with its decision, both being drawn        *)
(* together; a replacement action equals the issued one, the metadata in   *)
(* which they may differ (extensions) being left out.                      *)
(***************************************************************************)
EXTENDS Integers, FiniteSets

CONSTANTS
    Calls,          \* slots for calls in flight
    Ids,            \* decision ids (bound: one per decision ever issued)
    ExecRefs,       \* execution references
    Principals,
    Actions,        \* [principal, amount]
    Permitted,      \* actions no static rule of the policy blocks
    OpenTimes,      \* instants inside the policy's time window
    DailyLimit,     \* policy.limits.daily
    HumanAbove,     \* policy.approval.require_human_above
    DecisionTtl,    \* policy.defaults.decision_ttl_seconds
    RequestTtl,     \* policy.approval.request_ttl_seconds
    PolicyExpiry,   \* policy.expires_at
    MaxTime,        \* bound on the clock
    Days, DayKey,   \* spendDayKey: instant -> day in the policy's timezone
    AtomicStore,    \* options.stateStore is given
    None

Times == 0 .. MaxTime

ASSUME ActionsAssumption ==
    /\ Actions \subseteq [principal : Principals, amount : Nat]
    /\ Permitted \subseteq Actions
    /\ None \notin Actions \cup Ids \cup ExecRefs

ASSUME PolicyAssumption ==
    /\ DailyLimit \in Nat /\ HumanAbove \in Nat
    /\ DecisionTtl \in Nat /\ RequestTtl \in Nat /\ PolicyExpiry \in Nat

ASSUME ClockAssumption ==
    /\ MaxTime \in Nat
    /\ OpenTimes \subseteq Times
    /\ DayKey \in [Times -> Days]

ASSUME StoreAssumption == AtomicStore \in BOOLEAN

VARIABLES
    clock,      \* Clock.now()
    decisions,  \* inntris.decisions
    claims,     \* inntris.approval_claims
    consumed,   \* inntris.consumptions
    spend,      \* inntris.daily_spend
    call,       \* the calls in flight
    permits     \* history: the <<decision, execution reference>> pairs whose
                \* caller was told "consumed" or "idempotent"

vars == <<clock, decisions, claims, consumed, spend, call, permits>>

-----------------------------------------------------------------------------
(* State                                                                   *)

Verdicts == {"ALLOW", "REQUIRE_APPROVAL", "BLOCK"}

(* `granted` is the reason code HUMAN_APPROVAL_GRANTED. *)
Decision == [verdict : Verdicts, action : Actions, issuedAt : Times,
             supersedes : Ids \cup {None}, granted : BOOLEAN]

Consumption == [ref : ExecRefs, day : Days, at : Times]

ASSUME NoneAssumption == None \notin Decision /\ None \notin Consumption

(* `at` is the call's last clock reading. *)
Call == [pc : {"idle", "claim", "read", "save", "commit", "record"},
         action : Actions \cup {None}, target : Ids \cup {None},
         ref : ExecRefs \cup {None}, granted : BOOLEAN, at : Times,
         verdict : Verdicts \cup {"none"}]

Idle == [pc |-> "idle", action |-> None, target |-> None, ref |-> None,
         granted |-> FALSE, at |-> 0, verdict |-> "none"]

TypeOK ==
    /\ clock \in Times
    /\ decisions \in [Ids -> Decision \cup {None}]
    /\ claims \in SUBSET Ids
    /\ consumed \in [Ids -> Consumption \cup {None}]
    /\ spend \in [Principals -> [Days -> Nat]]
    /\ call \in [Calls -> Call]
    /\ permits \subseteq Ids \X ExecRefs

Init ==
    /\ clock = 0
    /\ decisions = [i \in Ids |-> None]
    /\ claims = {}
    /\ consumed = [i \in Ids |-> None]
    /\ spend = [p \in Principals |-> [d \in Days |-> 0]]
    /\ call = [c \in Calls |-> Idle]
    /\ permits = {}

(* A call that answers or throws leaves its slot. *)
Return(c) == call' = [call EXCEPT ![c] = Idle]

Permit(c) == permits' = permits \cup {<<call[c].target, call[c].ref>>}

-----------------------------------------------------------------------------
(* evaluatePolicy                                                          *)

(* The rules checked before the daily spend is awaited. *)
StaticBlock(a, now) == now >= PolicyExpiry \/ a \notin Permitted

(* The rules checked with the daily spend that was read. *)
Evaluation(a, now, spent) ==
    IF spent + a.amount > DailyLimit \/ now \notin OpenTimes THEN "BLOCK"
    ELSE IF a.amount > HumanAbove THEN "REQUIRE_APPROVAL"
    ELSE "ALLOW"

(* Mutant: the human's answer is not looked at. *)
IgnoreRefusal(granted, verdict) == IF verdict # "BLOCK" THEN "ALLOW" ELSE "BLOCK"

(* The verdict of the decision that resolves an approval request. *)
Resolution(granted, verdict) ==
    IF granted /\ verdict # "BLOCK" THEN "ALLOW" ELSE "BLOCK"

(* evaluatePolicy up to its await; `k` is the call it runs in. *)
BeginEvaluation(k, a) ==
    IF StaticBlock(a, clock)
    THEN [k EXCEPT !.pc = "save", !.action = a, !.at = clock, !.verdict = "BLOCK"]
    ELSE [k EXCEPT !.pc = "read", !.action = a, !.at = clock]

-----------------------------------------------------------------------------
(* evaluate and issueBlock                                                 *)

EvaluateStart(c, a) ==
    /\ call[c].pc = "idle"
    /\ call' = [call EXCEPT ![c] = BeginEvaluation(Idle, a)]
    /\ UNCHANGED <<clock, decisions, claims, consumed, spend, permits>>

(* An upstream authority failure: only a BLOCK can be asked for. *)
IssueBlock(c, a) ==
    /\ call[c].pc = "idle"
    /\ call' = [call EXCEPT ![c] = [Idle EXCEPT !.pc = "save", !.action = a,
                                              !.at = clock, !.verdict = "BLOCK"]]
    /\ UNCHANGED <<clock, decisions, claims, consumed, spend, permits>>

(* getDailySpend answers; the verdict is fixed and issued_at is read. *)
ReadSpend(c) ==
    LET k == call[c]
        v == Evaluation(k.action, k.at, spend[k.action.principal][DayKey[k.at]])
    IN  /\ k.pc = "read"
        /\ call' = [call EXCEPT ![c] =
               [k EXCEPT !.pc = "save", !.at = clock,
                         !.verdict = IF k.target # None THEN Resolution(k.granted, v) ELSE v]]
        /\ UNCHANGED <<clock, decisions, claims, consumed, spend, permits>>

(* The signed decision is stored under its fresh id and returned. *)
Save(c, i) ==
    LET k == call[c]
    IN  /\ k.pc = "save"
        /\ decisions[i] = None
        /\ decisions' = [decisions EXCEPT ![i] =
               [verdict |-> k.verdict, action |-> k.action, issuedAt |-> k.at,
                supersedes |-> k.target,
                granted |-> k.granted /\ k.verdict = "ALLOW"]]
        /\ Return(c)
        /\ UNCHANGED <<clock, claims, consumed, spend, permits>>

-----------------------------------------------------------------------------
(* resolveApproval and resolveApprovalWithAction                           *)

ApprovalClosed(d) == clock >= decisions[d].issuedAt + RequestTtl

(* get(decision_id) answers; `a` is the replacement action, or the issued  *)
(* action when there is none.  A rejection is an answer and changes nothing. *)
ApproveStart(c, d, a, granted) ==
    /\ call[c].pc = "idle"
    /\ decisions[d] # None
    /\ decisions[d].verdict = "REQUIRE_APPROVAL"
    /\ decisions[d].action = a
    /\ ~ApprovalClosed(d)
    /\ call' = [call EXCEPT ![c] = [Idle EXCEPT !.pc = "claim", !.action = a,
                                              !.target = d, !.granted = granted]]
    /\ UNCHANGED <<clock, decisions, claims, consumed, spend, permits>>

(* Mutant: the claim is a read followed by a write, so it never conflicts. *)
ClaimIsBlind(d) == FALSE

AlreadyClaimed(d) == d \in claims

(* claimApproval answers; a claimant goes on to evaluate the policy again. *)
ClaimApproval(c) ==
    LET k == call[c]
    IN  /\ k.pc = "claim"
        /\ IF AlreadyClaimed(k.target)
           THEN Return(c) /\ UNCHANGED claims
           ELSE /\ claims' = claims \cup {k.target}
                /\ call' = [call EXCEPT ![c] = BeginEvaluation(k, k.action)]
        /\ UNCHANGED <<clock, decisions, consumed, spend, permits>>

-----------------------------------------------------------------------------
(* consume                                                                 *)

DecisionExpired(d) == clock >= decisions[d].issuedAt + DecisionTtl

Consumable(d) == decisions[d] # None /\ decisions[d].verdict = "ALLOW"

(* get(decision_id) answers; the checks read the clock once.  A rejection  *)
(* is an answer and changes nothing.                                       *)
ConsumeStart(c, d, a, r) ==
    /\ call[c].pc = "idle"
    /\ Consumable(d)
    /\ decisions[d].action = a
    /\ ~DecisionExpired(d)
    /\ call' = [call EXCEPT ![c] = [Idle EXCEPT !.pc = "commit", !.action = a, !.target = d,
                                              !.ref = r, !.at = clock]]
    /\ UNCHANGED <<clock, decisions, claims, consumed, spend, permits>>

(* Mutant: a consumption is stamped with the decision's expiry. *)
StampExpiry(k) == [ref |-> k.ref, day |-> DayKey[k.at],
                   at |-> decisions[k.target].issuedAt + DecisionTtl]

NewConsumption(k) == [ref |-> k.ref, day |-> DayKey[k.at], at |-> k.at]

AddSpend(k) ==
    [spend EXCEPT ![k.action.principal][DayKey[k.at]] = @ + k.action.amount]

(* Mutant: every successful consumption records the spend, a retry too. *)
SpendOnSuccess(k, result) ==
    IF result \in {"consumed", "idempotent"} THEN AddSpend(k) ELSE spend

(* Only a first consumption adds to the daily total. *)
SpendAfter(k, result) == IF result = "consumed" THEN AddSpend(k) ELSE spend

(* Mutant: the limit is only checked when the decision is evaluated. *)
NoRecheck(k) == TRUE

(* The WHERE clauses of the daily_spend upsert. *)
WithinDailyLimit(k) ==
    spend[k.action.principal][DayKey[k.at]] + k.action.amount <= DailyLimit

Unconsumed(d) == consumed[d] = None

(* consumeAndRecordSpend commits, or rolls back at the daily limit. *)
ConsumeAndRecordSpend(c) ==
    LET k == call[c]
    IN  /\ AtomicStore /\ k.pc = "commit"
        /\ Unconsumed(k.target)
        /\ IF WithinDailyLimit(k)
           THEN /\ consumed' = [consumed EXCEPT ![k.target] = NewConsumption(k)]
                /\ spend' = SpendAfter(k, "consumed")
                /\ Permit(c)
           ELSE UNCHANGED <<consumed, spend, permits>>
        /\ Return(c)
        /\ UNCHANGED <<clock, decisions, claims>>

(* Mutant: the consumption is found by decision and action alone. *)
AnyExecution(k) == TRUE

SameExecution(k) == consumed[k.target].ref = k.ref

(* The decision has a consumption: idempotent for its own execution        *)
(* reference, a conflict for any other.                                    *)
FindConsumption(c) ==
    LET k == call[c]
        result == IF SameExecution(k) THEN "idempotent" ELSE "conflict"
    IN  /\ k.pc = "commit"
        /\ ~Unconsumed(k.target)
        /\ spend' = SpendAfter(k, result)
        /\ IF result = "idempotent" THEN Permit(c) ELSE UNCHANGED permits
        /\ Return(c)
        /\ UNCHANGED <<clock, decisions, claims, consumed>>

(* nonceStore.consume of the legacy pair; the spend is recorded after it. *)
ConsumeNonce(c) ==
    LET k == call[c]
    IN  /\ ~AtomicStore /\ k.pc = "commit"
        /\ Unconsumed(k.target)
        /\ consumed' = [consumed EXCEPT ![k.target] = NewConsumption(k)]
        /\ call' = [call EXCEPT ![c].pc = "record"]
        /\ UNCHANGED <<clock, decisions, claims, spend, permits>>

(* spendState.recordSpend *)
RecordSpend(c) ==
    LET k == call[c]
    IN  /\ k.pc = "record"
        /\ spend' = SpendAfter(k, "consumed")
        /\ Permit(c) /\ Return(c)
        /\ UNCHANGED <<clock, decisions, claims, consumed>>

-----------------------------------------------------------------------------
(* Environment                                                             *)

(* A store or the signer fails, an acknowledgement is lost or the process  *)
(* stops: the call throws and what it committed stays.                     *)
Fail(c) ==
    /\ call[c].pc # "idle"
    /\ Return(c)
    /\ UNCHANGED <<clock, decisions, claims, consumed, spend, permits>>

Tick ==
    /\ clock < MaxTime
    /\ clock' = clock + 1
    /\ UNCHANGED <<decisions, claims, consumed, spend, call, permits>>

Step(c) ==
    \/ \E a \in Actions : EvaluateStart(c, a) \/ IssueBlock(c, a)
    \/ \E d \in Ids, a \in Actions, g \in BOOLEAN : ApproveStart(c, d, a, g)
    \/ \E d \in Ids, a \in Actions, r \in ExecRefs : ConsumeStart(c, d, a, r)
    \/ ReadSpend(c)
    \/ \E i \in Ids : Save(c, i)
    \/ ClaimApproval(c)
    \/ ConsumeAndRecordSpend(c) \/ FindConsumption(c)
    \/ ConsumeNonce(c) \/ RecordSpend(c)
    \/ Fail(c)

Next == Tick \/ \E c \in Calls : Step(c)

Spec == Init /\ [][Next]_vars

-----------------------------------------------------------------------------
(* Properties                                                              *)

Issued(i) == decisions[i] # None

(* An approval request (local-provider.ts:126 resolveApproval) is resolved *)
(* by at most one decision, however many resolvers race and fail.          *)
OneSupersederPerApproval ==
    \A i, j \in Ids :
        Issued(i) /\ Issued(j) /\ decisions[i].supersedes # None
            /\ decisions[i].supersedes = decisions[j].supersedes => i = j

(* A consumed decision is a stored ALLOW read before its expiry, and above *)
(* the human threshold it answers an approval request for the same action  *)
(* that a human granted and that was issued before it.                     *)
ConsumptionIsAuthorised ==
    \A i \in Ids : consumed[i] # None =>
        /\ Issued(i) /\ decisions[i].verdict = "ALLOW"
        /\ consumed[i].at < decisions[i].issuedAt + DecisionTtl
        /\ decisions[i].action.amount > HumanAbove =>
              /\ decisions[i].granted /\ decisions[i].supersedes # None
              /\ LET request == decisions[decisions[i].supersedes]
                 IN  /\ request # None /\ request.verdict = "REQUIRE_APPROVAL"
                     /\ request.action = decisions[i].action
                     /\ request.issuedAt <= decisions[i].issuedAt

(* Concurrently evaluated decisions cannot overrun the daily limit         *)
(* (store.ts:197, README "Durable PostgreSQL state").                      *)
DailyLimitHeld == \A p \in Principals, d \in Days : spend[p][d] <= DailyLimit

(* An amount as a set of that many units of what x stands for, so that a   *)
(* sum of amounts is the number of elements of a union.                    *)
Units(x, amount) == {x} \X (1..amount)

ConsumedUnits(p, d) ==
    UNION {Units(i, decisions[i].action.amount) : i \in
        {j \in Ids : /\ consumed[j] # None /\ consumed[j].day = d
                     /\ decisions[j].action.principal = p}}

(* The daily total is what the consumptions of that day amount to: nothing *)
(* is counted twice by a retry and nothing is kept of a rolled back one.   *)
SpendAccounted ==
    \A p \in Principals, d \in Days : spend[p][d] = Cardinality(ConsumedUnits(p, d))

(* The units of consumptions whose recordSpend is still to come.           *)
PendingUnits(p, d) ==
    UNION {Units(c, call[c].action.amount) : c \in
        {e \in Calls : /\ call[e].pc = "record" /\ call[e].action.principal = p
                       /\ DayKey[call[e].at] = d}}

(* The legacy pair may lose a spend between its two stores but never       *)
(* records one that no consumption stands for.                             *)
SpendNeverOverstated ==
    \A p \in Principals, d \in Days :
        spend[p][d] + Cardinality(PendingUnits(p, d)) <= Cardinality(ConsumedUnits(p, d))

(* The decision's place in the life of an authorisation. *)
StatusOf(i) ==
    IF decisions[i] = None THEN "unissued"
    ELSE IF decisions[i].verdict = "BLOCK" THEN "blocked"
    ELSE IF decisions[i].verdict = "ALLOW"
         THEN IF consumed[i] = None THEN "authorised" ELSE "used"
    ELSE IF \E j \in Ids : Issued(j) /\ decisions[j].supersedes = i THEN "resolved"
    ELSE "pending"

Authority == INSTANCE PaymentAuthority WITH
    status <- [i \in Ids |-> StatusOf(i)],
    usedBy <- [i \in Ids |-> IF consumed[i] = None THEN None ELSE consumed[i].ref],
    spent <- spend

(* The provider over the atomic store implements PaymentAuthority: issued  *)
(* decisions, resolutions and consumptions are final under every race,     *)
(* retry and failure, and each happens in one step with its spend.         *)
ImplementsAuthority == Authority!Spec

(* A decision permits at most one execution reference, and so does an      *)
(* approval request with whatever decision superseded it (README: "A       *)
(* successful decision consumption is single use").                        *)
SingleUse ==
    \A x, y \in permits :
        \/ x = y
        \/ /\ x[1] # y[1]
           /\ decisions[x[1]].supersedes # None =>
                 decisions[x[1]].supersedes # decisions[y[1]].supersedes

(* README "Human approval": a request is single use because it was         *)
(* resolved.  A claimed request has a signed decision, or a resolver that  *)
(* is still on its way to one.                                             *)
ClaimedIsResolved ==
    \A d \in claims :
        \/ \E i \in Ids : Issued(i) /\ decisions[i].supersedes = d
        \/ \E c \in Calls : call[c].target = d /\ call[c].pc \in {"read", "save"}

(* README:24 and ARCHITECTURE.md:188: a retry with the execution reference *)
(* the decision was consumed with is answered with that consumption.       *)
RetryIsAccepted ==
    \A i \in Ids, c \in Calls :
        consumed[i] # None /\ call[c].pc = "idle" =>
            ENABLED ConsumeStart(c, i, decisions[i].action, consumed[i].ref)
=============================================================================
