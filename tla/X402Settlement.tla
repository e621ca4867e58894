--------------------------- MODULE X402Settlement ---------------------------
(***************************************************************************)
(* InntrisX402Guard.settleIfAuthorised with the execution journal, the     *)
(* decision provider's consumption, the payment rail and the operator who  *)
(* reconciles.                                                             *)
(*                                                                         *)
(* Several settlement calls run at once, with any of the signed ALLOW      *)
(* decisions and any execution reference.  An action is the code from one  *)
(* await to the next and starts with the operation awaited.  Every await   *)
(* may throw, before or after the operation took effect, and a process may *)
(* stop between any two steps (Fail).  The rail answers late, loses        *)
(* answers, and may pay long after the guard gave up waiting.              *)
(*                                                                         *)
(* `integration` is the deployment, chosen once.  With Journal a           *)
(* reconciliationStore is injected; without it the guard relies on the     *)
(* rail's idempotency by execution reference, as its README requires.      *)
(*                                                                         *)
(* Abstractions: rail and operation kind are fixed, so the operation id    *)
(* is the execution reference; bindingHash stands with the decision it     *)
(* covers; expiry is a set that grows; decisions are ALLOW (rejectVerdict  *)
(* stops any other where an altered one stops).  The provider is remote: a *)
(* request that arrives late is a call that consumes and then fails.       *)
(***************************************************************************)
EXTENDS Integers, FiniteSets

CONSTANTS
    Callers,        \* settleIfAuthorised calls in flight
    Decisions,      \* signed ALLOW decisions
    ExecRefs,       \* execution references
    Terms,          \* payment requirements
    Covers,         \* Covers[d]: the requirements the action of d is bound to
    Requests,       \* what callers present to settleIfAuthorised
    Integrations,   \* the deployments of this instance
    MaxSettles,     \* bound on settle() calls per decision and reference
    None

ASSUME OptionsAssumption ==
    /\ Integrations \subseteq [journal : BOOLEAN, classifies : BOOLEAN, idempotent : BOOLEAN]
    /\ \A i \in Integrations : i.journal \/ i.idempotent
    /\ Covers \in [Decisions -> Terms]
    /\ Requests \subseteq [decision : Decisions, ref : ExecRefs, genuine : BOOLEAN,
                           requirements : Terms, payload : Terms]
    /\ MaxSettles \in Nat \ {0}

ASSUME NoneAssumption == None \notin Decisions \cup ExecRefs \cup Terms

Statuses == {"prepared", "in_progress", "succeeded", "failed_final", "outcome_unknown"}
Unresolved == {"in_progress", "outcome_unknown"}
Terminal == {"succeeded", "failed_final"}

(* inntris.execution_operations; `outcome` says whether outcomeReference   *)
(* is the guard's (the execution reference) or the operator's.             *)
Operation == [decision : Decisions, status : Statuses, attempts : Nat,
              outcome : {"none", "guard", "operator"}]

ASSUME NoOperationAssumption == None \notin Operation

VARIABLES
    integration, \* the deployment
    expired,    \* decisions whose expires_at has passed
    consumed,   \* the provider's consumption of each decision
    journal,    \* the operation of each execution reference
    caller,     \* the calls in flight
    pending,    \* settlement requests the rail has not decided
    paid,       \* payments the rail made
    settled,    \* history: settle() calls
    told        \* history: outcomes callers were told

vars == <<integration, expired, consumed, journal, caller, pending, paid, settled, told>>

Journal == integration.journal           \* options.reconciliationStore is given
Classifies == integration.classifies     \* classifySettlementError recognises refusals
RailIdempotent == integration.idempotent \* the rail pays at most once per reference

Caller == [pc : {"idle", "prepare", "consume", "start", "inspect", "settle", "await",
                 "markSucceeded", "markFailed", "markUnknown"},
           decision : Decisions \cup {None}, ref : ExecRefs \cup {None}, terms : Terms \cup {None}]

Idle == [pc |-> "idle", decision |-> None, ref |-> None, terms |-> None]

Counters == [Decisions -> [ExecRefs -> Nat]]

TypeOK ==
    /\ integration \in Integrations
    /\ expired \subseteq Decisions
    /\ consumed \in [Decisions -> ExecRefs \cup {None}]
    /\ journal \in [ExecRefs -> Operation \cup {None}]
    /\ caller \in [Callers -> Caller]
    /\ pending \in Counters /\ paid \in Counters /\ settled \in Counters
    /\ told \subseteq Decisions \X ExecRefs \X {"completed", "failed"}

NoneYet == [d \in Decisions |-> [r \in ExecRefs |-> 0]]

Init ==
    /\ integration \in Integrations
    /\ expired = {}
    /\ consumed = [d \in Decisions |-> None]
    /\ journal = [r \in ExecRefs |-> None]
    /\ caller = [c \in Callers |-> Idle]
    /\ pending = NoneYet /\ paid = NoneYet /\ settled = NoneYet
    /\ told = {}

Goto(c, pc) == caller' = [caller EXCEPT ![c].pc = pc]
Return(c) == caller' = [caller EXCEPT ![c] = Idle]
Tell(c, outcome) == told' = told \cup {<<caller[c].decision, caller[c].ref, outcome>>}

-----------------------------------------------------------------------------
(* settleIfAuthorised up to consumption                                    *)

(* actionFromX402 throws on a payload made for other requirements.         *)
BuildsAction(q) == q.payload = q.requirements

(* verifyDecision: the signed document is unaltered, it restates the action *)
(* being paid for, and it has not expired.  That it is not of the future   *)
(* (at >= issued_at) is left out: whoever presents it was given it before. *)
BindsAction(q) == q.requirements = Covers[q.decision]
VerifyDecision(q) == q.genuine /\ BindsAction(q) /\ q.decision \notin expired

(* verifyBeforeSettlement passes; otherwise the call ends with no effect.  *)
VerifyBeforeSettlement(q) == BuildsAction(q) /\ VerifyDecision(q)

Begin(c, q) ==
    /\ caller[c].pc = "idle"
    /\ VerifyBeforeSettlement(q)
    /\ caller' = [caller EXCEPT ![c] =
           [pc |-> IF Journal THEN "prepare" ELSE "consume",
            decision |-> q.decision, ref |-> q.ref, terms |-> q.requirements]]
    /\ UNCHANGED <<integration, expired, consumed, journal, pending, paid, settled, told>>

(* Mutant: an existing operation is returned whatever it is bound to. *)
AnyIdentity(op, d) == TRUE

SameIdentity(op, d) == op.decision = d

(* What the guard asks the store to prepare: the binding is the decision's *)
(* and the reference's.                                                    *)
NewOperation(d) == [decision |-> d, status |-> "prepared", attempts |-> 0, outcome |-> "none"]

(* prepare: insert, or find the operation of the same binding; one bound   *)
(* to another decision throws and blocks the settlement.                   *)
Prepare(c) ==
    LET d == caller[c].decision
        r == caller[c].ref
    IN  /\ caller[c].pc = "prepare"
        /\ \/ /\ journal[r] = None
              /\ journal' = [journal EXCEPT ![r] = NewOperation(d)]
              /\ Goto(c, "consume")
           \/ /\ journal[r] # None
              /\ IF SameIdentity(journal[r], d) THEN Goto(c, "consume") ELSE Return(c)
              /\ UNCHANGED journal
        /\ UNCHANGED <<integration, expired, consumed, pending, paid, settled, told>>

AfterConsumption == IF Journal THEN "start" ELSE "settle"

(* Mutant: any earlier consumption of the decision counts as a retry. *)
AnyConsumption(d, r) == TRUE

(* A consumption with the same execution reference is idempotent. *)
Rejoins(d, r) == consumed[d] = r

(* provider.consume (PolicyProvider): first use, idempotent retry, replay  *)
(* conflict or rejection; a first use may also be over the daily limit.    *)
Consume(c) ==
    LET d == caller[c].decision
        r == caller[c].ref
    IN  /\ caller[c].pc = "consume"
        /\ \/ /\ d \notin expired /\ consumed[d] = None
              /\ consumed' = [consumed EXCEPT ![d] = r]
              /\ Goto(c, AfterConsumption)
           \/ /\ d \notin expired /\ consumed[d] # None /\ Rejoins(d, r)
              /\ Goto(c, AfterConsumption)
              /\ UNCHANGED consumed
           \/ /\ d \in expired \/ consumed[d] = None \/ ~Rejoins(d, r)
              /\ Return(c)
              /\ UNCHANGED consumed
        /\ UNCHANGED <<integration, expired, journal, pending, paid, settled, told>>

(* The remote service consumes, and its answer is lost, late or for another*)
(* request: the guard fails closed with the decision used up.              *)
ConsumeUnanswered(c) ==
    LET d == caller[c].decision
    IN  /\ caller[c].pc = "consume"
        /\ d \notin expired /\ consumed[d] = None
        /\ consumed' = [consumed EXCEPT ![d] = caller[c].ref]
        /\ Return(c)
        /\ UNCHANGED <<integration, expired, journal, pending, paid, settled, told>>

-----------------------------------------------------------------------------
(* Claiming the operation and settling                                     *)

(* Mutant: an operation whose outcome is unknown can be claimed again. *)
RetryUnknown(op) == op.status \in {"prepared", "outcome_unknown"}

Claimable(op) == op.status = "prepared"

(* start: UPDATE ... WHERE binding_hash = $2 AND status = 'prepared'; when *)
(* no row matches, the operation is read in a second statement.            *)
Start(c) ==
    LET op == journal[caller[c].ref]
    IN  /\ caller[c].pc = "start"
        /\ IF op # None /\ SameIdentity(op, caller[c].decision) /\ Claimable(op)
           THEN /\ journal' = [journal EXCEPT ![caller[c].ref] =
                       [op EXCEPT !.status = "in_progress", !.attempts = @ + 1]]
                /\ Goto(c, "settle")
           ELSE Goto(c, "inspect") /\ UNCHANGED journal
        /\ UNCHANGED <<integration, expired, consumed, pending, paid, settled, told>>

(* get: whatever is found blocks the settlement; a terminal state of the   *)
(* caller's own binding is reported.                                       *)
Inspect(c) ==
    LET op == journal[caller[c].ref]
    IN  /\ caller[c].pc = "inspect"
        /\ IF op # None /\ SameIdentity(op, caller[c].decision) /\ op.status \in Terminal
           THEN Tell(c, IF op.status = "succeeded" THEN "completed" ELSE "failed")
           ELSE UNCHANGED told
        /\ Return(c)
        /\ UNCHANGED <<integration, expired, consumed, journal, pending, paid, settled>>

Count(f, d, r) == [f EXCEPT ![d][r] = @ + 1]

(* settle(): the request is on its way to the rail. *)
Settle(c) ==
    LET d == caller[c].decision
        r == caller[c].ref
    IN  /\ caller[c].pc = "settle"
        /\ settled[d][r] < MaxSettles
        /\ settled' = Count(settled, d, r)
        /\ pending' = Count(pending, d, r)
        /\ Goto(c, "await")
        /\ UNCHANGED <<integration, expired, consumed, journal, paid, told>>

-----------------------------------------------------------------------------
(* The payment rail                                                        *)

PaidRef(r) == \E d \in Decisions : paid[d][r] > 0

(* The request is executed; an idempotent rail pays a reference once. *)
RailPays(d, r) ==
    /\ pending[d][r] > 0
    /\ pending' = [pending EXCEPT ![d][r] = @ - 1]
    /\ paid' = IF RailIdempotent /\ PaidRef(r) THEN paid ELSE Count(paid, d, r)
    /\ UNCHANGED <<integration, expired, consumed, journal, caller, settled, told>>

RailRefuses(d, r) ==
    /\ pending[d][r] > 0
    /\ ~(RailIdempotent /\ PaidRef(r))
    /\ pending' = [pending EXCEPT ![d][r] = @ - 1]
    /\ UNCHANGED <<integration, expired, consumed, journal, caller, paid, settled, told>>

(* The rail has decided every request for the reference and paid none. *)
Refused(r) == \A d \in Decisions : pending[d][r] = 0 /\ paid[d][r] = 0

-----------------------------------------------------------------------------
(* settle() returns or throws, and the journal is told                     *)

SettleReturns(c) ==
    /\ caller[c].pc = "await"
    /\ PaidRef(caller[c].ref)
    /\ IF Journal THEN Goto(c, "markSucceeded") /\ UNCHANGED told
       ELSE Return(c) /\ Tell(c, "completed")
    /\ UNCHANGED <<integration, expired, consumed, journal, pending, paid, settled>>

(* Mutant: every error the rail throws is classified as a final refusal. *)
TrustEveryError(refusal) == "markFailed"

(* classifySettlementError: only a proven refusal is final, and only when  *)
(* the integration classifies at all.                                      *)
Classification(refusal) ==
    IF refusal /\ Classifies THEN "markFailed" ELSE "markUnknown"

(* The rail's refusal reaches the guard, or the request times out. *)
SettleThrows(c) ==
    /\ caller[c].pc = "await"
    /\ \E refusal \in BOOLEAN :
          /\ refusal => Refused(caller[c].ref)
          /\ IF Journal THEN Goto(c, Classification(refusal)) ELSE Return(c)
    /\ UNCHANGED <<integration, expired, consumed, journal, pending, paid, settled, told>>

(* Mutant: the outcome is stored in the status column. *)
SwappedStatus(r, status, outcome) ==
    journal' = [journal EXCEPT ![r].status = outcome, ![r].outcome = status]

SetStatus(r, status, outcome) ==
    journal' = [journal EXCEPT ![r].status = status, ![r].outcome = outcome]

(* Mutant: a terminal state is overwritten by a late executor. *)
NotPrepared(op) == op.status # "prepared"

(* Only an in-progress operation is marked by its executor. *)
Markable(op) == op.status = "in_progress"

(* markSucceeded: idempotent for the guard's own outcome; anything else    *)
(* throws and the caller is told that reconciliation is required.          *)
MarkSucceeded(c) ==
    LET op == journal[caller[c].ref]
    IN  /\ caller[c].pc = "markSucceeded"
        /\ \/ /\ Markable(op)
              /\ SetStatus(caller[c].ref, "succeeded", "guard")
              /\ Tell(c, "completed")
           \/ /\ ~Markable(op)
              /\ IF op.status = "succeeded" /\ op.outcome = "guard"
                 THEN Tell(c, "completed") ELSE UNCHANGED told
              /\ UNCHANGED journal
        /\ Return(c)
        /\ UNCHANGED <<integration, expired, consumed, pending, paid, settled>>

(* markFailedFinal: idempotent for the same error code, which an operator  *)
(* may or may not have recorded.                                           *)
MarkFailedFinal(c) ==
    LET op == journal[caller[c].ref]
    IN  /\ caller[c].pc = "markFailed"
        /\ \/ /\ Markable(op)
              /\ SetStatus(caller[c].ref, "failed_final", "none")
              /\ Tell(c, "failed")
           \/ op.status = "failed_final" /\ Tell(c, "failed") /\ UNCHANGED journal
           \/ ~Markable(op) /\ UNCHANGED <<journal, told>>
        /\ Return(c)
        /\ UNCHANGED <<integration, expired, consumed, pending, paid, settled>>

MarkOutcomeUnknown(c) ==
    LET op == journal[caller[c].ref]
    IN  /\ caller[c].pc = "markUnknown"
        /\ IF Markable(op) THEN SetStatus(caller[c].ref, "outcome_unknown", op.outcome)
           ELSE UNCHANGED journal
        /\ Return(c)
        /\ UNCHANGED <<integration, expired, consumed, pending, paid, settled, told>>

-----------------------------------------------------------------------------
(* Operator and environment                                                *)

(* The rail-specific grace period is over: no executor that claimed the    *)
(* operation has yet to call settle(), so the rail's evidence is final.    *)
GraceElapsed(r) == \A c \in Callers : caller[c].ref = r => caller[c].pc # "settle"

(* Mutant: an operation left in progress cannot be resolved. *)
OnlyUnknown(op) == op.status = "outcome_unknown"

Resolvable(op) == op.status \in Unresolved

(* resolve with authoritative evidence (docs/RECONCILIATION.md).  The      *)
(* operator may record the execution reference or the rail's own.          *)
Resolve(r, status, outcome) ==
    /\ journal[r] # None /\ Resolvable(journal[r])
    /\ \/ status = "succeeded" /\ PaidRef(r)
       \/ status = "failed_final" /\ Refused(r) /\ GraceElapsed(r)
    /\ SetStatus(r, status, outcome)
    /\ UNCHANGED <<integration, expired, consumed, caller, pending, paid, settled, told>>

(* An await throws, or the process stops. *)
Fail(c) ==
    /\ caller[c].pc # "idle"
    /\ Return(c)
    /\ UNCHANGED <<integration, expired, consumed, journal, pending, paid, settled, told>>

Expire(d) ==
    /\ d \notin expired
    /\ expired' = expired \cup {d}
    /\ UNCHANGED <<integration, consumed, journal, caller, pending, paid, settled, told>>

(* The steps of a call that has begun. *)
Progress(c) ==
    \/ Prepare(c) \/ Consume(c) \/ ConsumeUnanswered(c) \/ Start(c) \/ Inspect(c) \/ Settle(c)
    \/ SettleReturns(c) \/ SettleThrows(c)
    \/ MarkSucceeded(c) \/ MarkFailedFinal(c) \/ MarkOutcomeUnknown(c)
    \/ Fail(c)

Rail(d, r) == RailPays(d, r) \/ RailRefuses(d, r)

Operator(r) ==
    \E status \in Terminal, outcome \in {"guard", "operator"} : Resolve(r, status, outcome)

Next ==
    \/ \E c \in Callers :
          Progress(c) \/ \E q \in Requests : Begin(c, q)
    \/ \E d \in Decisions, r \in ExecRefs : Rail(d, r)
    \/ \E r \in ExecRefs : Operator(r)
    \/ \E d \in Decisions : Expire(d)

Spec == Init /\ [][Next]_vars

(* A started call goes on or fails, the rail decides every request and the *)
(* operator works through the unresolved queue.                            *)
Fairness ==
    /\ \A c \in Callers : WF_vars(Progress(c))
    /\ \A d \in Decisions, r \in ExecRefs : WF_vars(Rail(d, r))
    /\ \A r \in ExecRefs : WF_vars(Operator(r))

FairSpec == Spec /\ Fairness

-----------------------------------------------------------------------------
(* Properties                                                              *)

Answered(outcome) == {r \in ExecRefs : \E d \in Decisions : <<d, r, outcome>> \in told}

Single == INSTANCE SingleExecution WITH
    Authorities <- Decisions, Keys <- ExecRefs,
    grant <- consumed, effects <- paid,
    reported <- Answered("completed"), ruledOut <- Answered("failed")

(* In either deployment the guard with its journal and rail implements     *)
(* SingleExecution: one payment per execution reference, by the decision   *)
(* consumed for it, and no caller is told of success before it or of       *)
(* failure before or after it.  (README.md:22-26, docs/RECONCILIATION.md)  *)
ImplementsExecution == Single!Spec

(* With the journal settle() is called at most once per decision and per   *)
(* execution reference, whatever is retried, raced or restarted            *)
(* (docs/RECONCILIATION.md:42 "Call the settlement executor once").        *)
SettledOnce ==
    Journal => \A d, e \in Decisions, r, s \in ExecRefs :
        settled[d][r] > 0 /\ settled[e][s] > 0 /\ (d = e \/ r = s) =>
            d = e /\ r = s /\ settled[d][r] = 1

(* A decision or an execution reference is paid once; without the journal  *)
(* the rail's idempotency is what ensures it.                              *)
PaidOnce ==
    \A d, e \in Decisions, r, s \in ExecRefs :
        paid[d][r] > 0 /\ paid[e][s] > 0 /\ (d = e \/ r = s) =>
            d = e /\ r = s /\ paid[d][r] = 1

(* Nothing is settled that was not first consumed with the same execution  *)
(* reference and, with the journal, claimed under it, nor on other terms   *)
(* than the decision covers: no path through the error handling of         *)
(* guard.ts:150 reaches settle() another way.                              *)
SettleNeedsConsumption ==
    /\ \A c \in Callers : caller[c].pc \in {"settle", "await"} =>
          caller[c].terms = Covers[caller[c].decision] /\ consumed[caller[c].decision] = caller[c].ref
    /\ \A d \in Decisions, r \in ExecRefs : settled[d][r] > 0 =>
        /\ consumed[d] = r
        /\ Journal => /\ journal[r] # None /\ journal[r].decision = d
                      /\ journal[r].status # "prepared"

(* A terminal operation states what the rail did, for good: failed_final   *)
(* is never followed by a late payment, and a payment is never left out of *)
(* the unresolved queue unless it is recorded as succeeded.                *)
JournalAgreesWithRail ==
    Journal => \A r \in ExecRefs :
        /\ (\E d \in Decisions : pending[d][r] > 0 \/ paid[d][r] > 0) =>
              journal[r] # None /\ journal[r].status \notin {"prepared", "failed_final"}
        /\ journal[r] # None =>
              /\ journal[r].status = "succeeded" => paid[journal[r].decision][r] > 0
              /\ journal[r].status = "failed_final" => Refused(r)

(* A caller told that its settlement completed has been paid for, and one  *)
(* told that it failed finally never is.                                   *)
AnswersAreTrue ==
    Journal => \A d \in Decisions, r \in ExecRefs :
        /\ <<d, r, "completed">> \in told => paid[d][r] > 0
        /\ <<d, r, "failed">> \in told =>
              /\ pending[d][r] = 0 /\ paid[d][r] = 0
              /\ journal[r].status = "failed_final"

(* An operation keeps its binding, is never claimed twice and never leaves *)
(* a terminal state, whichever of executor and operator comes last.        *)
OperationsOnlyAdvance ==
    [][\A r \in ExecRefs : journal[r] # None =>
        /\ journal'[r] # None /\ journal'[r].decision = journal[r].decision
        /\ journal[r].status \in Terminal => journal'[r] = journal[r]
        /\ journal[r].status \in Unresolved => journal'[r].status \notin {"prepared"}
        /\ journal[r].status = "outcome_unknown" => journal'[r].status # "in_progress"]_vars

(* Every operation in the unresolved queue reaches a terminal state once   *)
(* rail and operator do their part; no interleaving of executors leaves    *)
(* one that evidence cannot resolve.                                       *)
UnresolvedIsResolved ==
    \A r \in ExecRefs :
        (journal[r] # None /\ journal[r].status \in Unresolved)
            ~> (journal[r] # None /\ journal[r].status \in Terminal)
=============================================================================
