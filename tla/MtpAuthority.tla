---------------------------- MODULE MtpAuthority ----------------------------
(***************************************************************************)
(* MtpCompositeDecisionProvider: an execution needs both the local signed  *)
(* decision and the MTP authority.  Evaluation (or an approval) obtains an *)
(* MTP token for every ALLOW and records it; consumption claims one        *)
(* execution reference, consumes the MTP token, checkpoints the receipt,   *)
(* consumes the local decision and marks the execution complete.           *)
(*                                                                         *)
(* Calls run concurrently.  An action is the code from one await to the    *)
(* next.  Any await may throw (Fail): the operation may have taken effect  *)
(* or not, the caller learns nothing, and a request it has sent to MTP may *)
(* still be served later.                                                  *)
(*                                                                         *)
(* The record is PostgresMtpAuthorityStateStore's row: claimExecution is   *)
(* an UPDATE and, when it changed no row, a SELECT of its own.             *)
(*                                                                         *)
(* External: the MTP service (a token is consumed for at most one          *)
(* reference and a repeat of that reference returns the receipt) and the   *)
(* local provider, reduced to what PaymentAuthority promises.              *)
(*                                                                         *)
(* Abstractions: the composite has one MTP agent, so the claim index is on *)
(* the reference alone; a decision is authorised once, so its token and    *)
(* audit identifier are the decision; an action hash that is not the       *)
(* decision's ends the call at its first read with no effect.              *)
(***************************************************************************)
EXTENDS Integers, FiniteSets

CONSTANTS
    Callers,      \* calls in flight
    Decisions,    \* signed ALLOW decisions
    ExecRefs,     \* execution references
    MaxFailures,  \* bound on throws, lost answers, 5xx answers and stops
    None

ASSUME BoundAssumption == MaxFailures \in Nat

ASSUME NoneAssumption == None \notin ExecRefs

Authorities == {"mtp", "local"}

(* inntris.mtp_authorisations: `audit` is the status stored with the       *)
(* consumption audit id, None before the checkpoint.                       *)
Record == [ref : ExecRefs \cup {None}, audit : {"consumed", "idempotent", None},
           complete : BOOLEAN]

ASSUME NoRecordAssumption == None \notin Record \cup {"consumed", "idempotent"}

VARIABLES
    issued,     \* ALLOW decisions the local provider has issued
    lapsed,     \* tokens ("mtp") and decisions ("local") whose time is over
    record,     \* the row of each decision
    mtp,        \* the reference MTP consumed each token for
    local,      \* the reference the local provider consumed each decision for
    call,       \* the calls in flight
    late,       \* consumption requests whose sender stopped waiting
    failures,
    told        \* history: successes, and refusals of the local provider

vars == <<issued, lapsed, record, mtp, local, call, late, failures, told>>

Call == [pc : {"idle", "authorize", "save", "get", "claim", "claimRead", "reread",
               "mtp", "mark", "local", "complete"},
         decision : Decisions \cup {None}, ref : ExecRefs \cup {None},
         status : {"consumed", "idempotent", None}, resumed : BOOLEAN]

Idle == [pc |-> "idle", decision |-> None, ref |-> None, status |-> None, resumed |-> FALSE]

TypeOK ==
    /\ issued \subseteq Decisions
    /\ lapsed \subseteq Authorities \X Decisions
    /\ record \in [Decisions -> Record \cup {None}]
    /\ mtp \in [Decisions -> ExecRefs \cup {None}]
    /\ local \in [Decisions -> ExecRefs \cup {None}]
    /\ call \in [Callers -> Call]
    /\ late \subseteq Decisions \X ExecRefs
    /\ failures \in 0..MaxFailures
    /\ told \subseteq Decisions \X ExecRefs \X {"success", "refused"}

Init ==
    /\ issued = {} /\ lapsed = {}
    /\ record = [d \in Decisions |-> None]
    /\ mtp = [d \in Decisions |-> None]
    /\ local = [d \in Decisions |-> None]
    /\ call = [c \in Callers |-> Idle]
    /\ late = {} /\ failures = 0 /\ told = {}

At(c, pc) == call[c].pc = pc
Goto(c, pc) == call' = [call EXCEPT ![c].pc = pc]
Return(c) == call' = [call EXCEPT ![c] = Idle]
Answer(c, answer) ==
    /\ Return(c)
    /\ told' = told \cup {<<call[c].decision, call[c].ref, answer>>}

-----------------------------------------------------------------------------
(* evaluate, resolveApproval and resolveApprovalWithAction                 *)

(* The local provider issues an ALLOW: automatically, or as the decision   *)
(* that supersedes an approved one.  Any other verdict is returned as it   *)
(* is.                                                                     *)
Issue(c, d) ==
    /\ At(c, "idle") /\ d \notin issued
    /\ issued' = issued \cup {d}
    /\ call' = [call EXCEPT ![c] = [Idle EXCEPT !.pc = "authorize", !.decision = d]]
    /\ UNCHANGED <<lapsed, record, mtp, local, late, failures, told>>

(* MTP answers /verify: an approval gives the token, a denial throws and   *)
(* leaves a decision that no consume call can use.                         *)
Authorize(c) ==
    /\ At(c, "authorize")
    /\ Goto(c, "save") \/ Return(c)
    /\ UNCHANGED <<issued, lapsed, record, mtp, local, late, failures, told>>

SaveAuthorization(c) ==
    /\ At(c, "save")
    /\ record' = [record EXCEPT ![call[c].decision] =
           IF @ = None THEN [ref |-> None, audit |-> None, complete |-> FALSE] ELSE @]
    /\ Return(c)
    /\ UNCHANGED <<issued, lapsed, mtp, local, late, failures, told>>

-----------------------------------------------------------------------------
(* consume                                                                 *)

Begin(c, d, r) ==
    /\ At(c, "idle") /\ d \in issued
    /\ call' = [call EXCEPT ![c] = [Idle EXCEPT !.pc = "get", !.decision = d, !.ref = r]]
    /\ UNCHANGED <<issued, lapsed, record, mtp, local, late, failures, told>>

(* The first read; `resumed` remembers that the receipt was already there. *)
GetAuthorization(c) ==
    LET d == call[c].decision
    IN  /\ At(c, "get")
        /\ \/ /\ record[d] = None
              /\ Return(c)
           \/ /\ record[d] # None
              /\ call' = [call EXCEPT ![c].pc = "claim", ![c].resumed = record[d].audit # None]
        /\ UNCHANGED <<issued, lapsed, record, mtp, local, late, failures, told>>

(* Mutant: the claim does not look at other decisions' references. *)
NoIndex(d, r) == FALSE

(* The unique index: another decision of the agent holds the reference.    *)
RefTaken(d, r) == \E e \in Decisions \ {d} : record[e] # None /\ record[e].ref = r

(* Mutant: the UPDATE takes over a claim. *)
Overwrites(d) == TRUE

Unclaimed(d) == record[d].ref = None

(* UPDATE ... SET execution_ref WHERE execution_ref IS NULL                *)
ClaimExecution(c) ==
    LET d == call[c].decision
        r == call[c].ref
    IN  /\ At(c, "claim")
        /\ \/ /\ Unclaimed(d) /\ ~RefTaken(d, r)
              /\ record' = [record EXCEPT ![d].ref = r]
              /\ Goto(c, "reread")
           \/ /\ Unclaimed(d) /\ RefTaken(d, r)
              /\ Return(c) /\ UNCHANGED record
           \/ /\ ~Unclaimed(d)
              /\ Goto(c, "claimRead") /\ UNCHANGED record
        /\ UNCHANGED <<issued, lapsed, mtp, local, late, failures, told>>

(* Mutant: an UPDATE that changed no row is a conflict. *)
NoClaim(d, r) == FALSE

SameClaim(d, r) == record[d].ref = r

(* SELECT execution_ref: the claim is this reference's, or a conflict.     *)
ClaimRead(c) ==
    /\ At(c, "claimRead")
    /\ IF SameClaim(call[c].decision, call[c].ref) THEN Goto(c, "reread") ELSE Return(c)
    /\ UNCHANGED <<issued, lapsed, record, mtp, local, late, failures, told>>

(* Mutant: MTP is asked again although its receipt is stored. *)
NeverSkips(d) == FALSE

Checkpointed(d) == record[d].audit # None

(* The second read: with a receipt the call resumes at the local           *)
(* consumption, without one it asks MTP.                                   *)
Reread(c) ==
    /\ At(c, "reread")
    /\ Goto(c, IF Checkpointed(call[c].decision) THEN "local" ELSE "mtp")
    /\ UNCHANGED <<issued, lapsed, record, mtp, local, late, failures, told>>

(* External: the service consumes a live token for its first reference and *)
(* accepts a repeat of that reference.                                     *)
MtpConsumes(d, r) == mtp[d] = None /\ <<"mtp", d>> \notin lapsed
MtpRepeats(d, r) == mtp[d] = r

(* MtpAuthorityClient.consume is answered with evidence that matches.      *)
MtpAccepts(c) ==
    LET d == call[c].decision
        r == call[c].ref
    IN  /\ At(c, "mtp")
        /\ \/ /\ MtpConsumes(d, r)
              /\ mtp' = [mtp EXCEPT ![d] = r]
              /\ call' = [call EXCEPT ![c].pc = "mark", ![c].status = "consumed"]
           \/ /\ MtpRepeats(d, r)
              /\ call' = [call EXCEPT ![c].pc = "mark", ![c].status = "idempotent"]
              /\ UNCHANGED mtp
        /\ UNCHANGED <<issued, lapsed, record, local, late, failures, told>>

(* Mutant: a refused token still leads to the local consumption. *)
IgnoresRefusal(c) == Goto(c, "local")

(* MtpConsumptionRejectedError: the call returns a rejection.              *)
RejectConsumption(c) == Return(c)

(* The service refuses the token, or answers anything but 200 with         *)
(* matching evidence - which says nothing of what it did or will do.       *)
MtpRejects(c) ==
    LET d == call[c].decision
        r == call[c].ref
    IN  /\ At(c, "mtp")
        /\ RejectConsumption(c)
        /\ \/ /\ ~MtpConsumes(d, r) /\ ~MtpRepeats(d, r)
              /\ UNCHANGED <<late, failures>>
           \/ /\ failures < MaxFailures
              /\ failures' = failures + 1
              /\ late' = late \cup {<<d, r>>}
        /\ UNCHANGED <<issued, lapsed, record, mtp, local, told>>

(* A request whose sender is gone is served.                               *)
MtpServesLate(d, r) ==
    /\ <<d, r>> \in late
    /\ MtpConsumes(d, r)
    /\ mtp' = [mtp EXCEPT ![d] = r]
    /\ UNCHANGED <<issued, lapsed, record, local, call, late, failures, told>>

(* markMtpConsumed: the first receipt is stored; one with another status   *)
(* than the stored one throws.                                             *)
MarkMtpConsumed(c) ==
    LET d == call[c].decision
    IN  /\ At(c, "mark")
        /\ \/ /\ record[d].ref = call[c].ref
              /\ record[d].audit \in {None, call[c].status}
              /\ record' = [record EXCEPT ![d].audit = call[c].status]
              /\ Goto(c, "local")
           \/ /\ \/ record[d].ref # call[c].ref
                 \/ record[d].audit \notin {None, call[c].status}
              /\ Return(c) /\ UNCHANGED record
        /\ UNCHANGED <<issued, lapsed, mtp, local, late, failures, told>>

(* External: what provider.consume promises (PaymentAuthority): first use  *)
(* of a decision, idempotent retry or conflict while it is live, and a     *)
(* rejection once it has expired, of a retry too (local-provider.ts:240);  *)
(* the daily limit may reject a first use.                                 *)
LocalConsume(c) ==
    LET d == call[c].decision
        r == call[c].ref
        live == <<"local", d>> \notin lapsed
    IN  /\ At(c, "local")
        /\ \/ /\ live /\ local[d] = None
              /\ local' = [local EXCEPT ![d] = r]
              /\ Goto(c, "complete") /\ UNCHANGED told
           \/ /\ live /\ local[d] = r
              /\ Goto(c, "complete") /\ UNCHANGED <<local, told>>
           \/ /\ live /\ local[d] \notin {None, r}
              /\ Return(c) /\ UNCHANGED <<local, told>>
           \/ /\ live => local[d] = None
              /\ Answer(c, "refused") /\ UNCHANGED local
        /\ UNCHANGED <<issued, lapsed, record, mtp, late, failures>>

(* Mutant: the completion overwrites the consumption status. *)
StatusCompleted(d) == [record EXCEPT ![d].complete = TRUE, ![d].audit = "completed"]

Completed(d) == [record EXCEPT ![d].complete = TRUE]

(* UPDATE ... WHERE the row holds this reference and its receipt.  That it *)
(* changes no row, which throws, cannot happen here: a call would be stuck *)
(* and RetryCompletes would fail.                                          *)
MarkComplete(c) ==
    /\ At(c, "complete")
    /\ record[call[c].decision].ref = call[c].ref /\ record[call[c].decision].audit # None
    /\ record' = Completed(call[c].decision)
    /\ Answer(c, "success")
    /\ UNCHANGED <<issued, lapsed, mtp, local, late, failures>>

-----------------------------------------------------------------------------
(* A token or a decision expires.                                          *)
Lapse(a, d) ==
    /\ d \in issued
    /\ lapsed' = lapsed \cup {<<a, d>>}
    /\ UNCHANGED <<issued, record, mtp, local, call, late, failures, told>>

(* An await throws, or the process stops.                                  *)
Fail(c) ==
    /\ ~At(c, "idle")
    /\ failures < MaxFailures
    /\ failures' = failures + 1
    /\ Return(c)
    /\ late' = IF At(c, "mtp") THEN late \cup {<<call[c].decision, call[c].ref>>} ELSE late
    /\ UNCHANGED <<issued, lapsed, record, mtp, local, told>>

Step(c) ==
    \/ Authorize(c) \/ SaveAuthorization(c)
    \/ GetAuthorization(c) \/ ClaimExecution(c) \/ ClaimRead(c) \/ Reread(c)
    \/ MtpAccepts(c) \/ MtpRejects(c) \/ MarkMtpConsumed(c)
    \/ LocalConsume(c) \/ MarkComplete(c)

Next ==
    \/ \E c \in Callers :
        \/ Step(c) \/ Fail(c)
        \/ \E d \in Decisions : Issue(c, d)
        \/ \E d \in Decisions, r \in ExecRefs : Begin(c, d, r)
    \/ \E d \in Decisions, r \in ExecRefs : MtpServesLate(d, r)
    \/ \E a \in Authorities, d \in Decisions : Lapse(a, d)

(* The executor's duty: while the reference that claimed a decision is not *)
(* complete, some caller asks again with it.                               *)
Retry(d) ==
    /\ record[d] # None /\ ~record[d].complete
    /\ \A c \in Callers : call[c].decision = d => call[c].ref # record[d].ref
    /\ \E c \in Callers : Begin(c, d, record[d].ref)

(* Node runs every continuation that is due; an awaited operation answers  *)
(* or throws.  Nothing is assumed of MTP's late answers, of expiry, or of  *)
(* callers that do not retry.                                              *)
Fairness ==
    /\ \A c \in Callers : WF_vars(Step(c))
    /\ \A d \in Decisions : SF_vars(Retry(d))

Spec == Init /\ [][Next]_vars
FairSpec == Spec /\ Fairness

-----------------------------------------------------------------------------
Successful == {r \in ExecRefs : \E d \in Decisions : <<d, r, "success">> \in told}

Executed == [d \in Decisions |-> [r \in ExecRefs |-> IF local[d] = r THEN 1 ELSE 0]]

Single == INSTANCE SingleExecution WITH
    Authorities <- Decisions, Keys <- ExecRefs, grant <- mtp,
    effects <- Executed, reported <- Successful, ruledOut <- {}

(* The composite implements SingleExecution: an MTP token is used up for   *)
(* one reference before the reference's one local consumption, and success *)
(* is told after both.  (provider.ts:42-46, README of the package 1-3)     *)
ImplementsExecution == Single!Spec

(* A local consumption, and with it daily spend, happens only for the      *)
(* reference MTP consumed, whose receipt is stored.  (provider.ts:42-46,   *)
(* SECURITY.md:61-62)                                                      *)
LocalNeedsMtp ==
    \A d \in Decisions : local[d] # None =>
        /\ mtp[d] = local[d]
        /\ record[d] # None /\ record[d].ref = local[d] /\ record[d].audit # None

(* The row never says more than MTP did: a stored receipt is for the       *)
(* claimed reference, and MTP consumes no token for a reference that is    *)
(* not the claimed one, late requests included.  (store.ts, README 1-3)    *)
RecordAgreesWithMtp ==
    \A d \in Decisions :
        /\ mtp[d] # None => record[d] # None /\ record[d].ref = mtp[d]
        /\ record[d] # None /\ record[d].audit # None => mtp[d] = record[d].ref

(* One execution reference drives one decision through both authorities,   *)
(* whatever calls run at once.  (SECURITY.md:63, migration 002 index)      *)
OneDecisionPerReference ==
    \A d, e \in Decisions : d # e =>
        /\ mtp[d] # None => mtp[d] # mtp[e]
        /\ local[d] # None => local[d] # local[e]

(* A caller told of success holds both authorities for its reference and   *)
(* the row is complete; no other reference of that decision was ever told  *)
(* so.  (provider.ts:148-156)                                              *)
SuccessIsTrue ==
    \A d \in Decisions, r \in ExecRefs : <<d, r, "success">> \in told =>
        mtp[d] = r /\ local[d] = r /\ record[d].ref = r /\ record[d].complete

(* A call that starts after the checkpoint resumes at the local            *)
(* consumption and never asks MTP again.  (MTP_COMPATIBILITY.md:36-37)     *)
ResumesLocally ==
    [][\A c \in Callers : call'[c].pc = "mtp" => ~call'[c].resumed]_vars

(* Once MTP has consumed the token, an executor that retries the same      *)
(* reference finishes, unless the decision expires or the local provider   *)
(* refuses it: no lost answer, crash or race leaves the execution stuck.   *)
(* (MTP_COMPATIBILITY.md:35-37, README of the package)                     *)
RetryCompletes ==
    \A d \in Decisions, r \in ExecRefs :
        mtp[d] = r ~> \/ <<d, r, "success">> \in told
                      \/ <<d, r, "refused">> \in told
                      \/ <<"local", d>> \in lapsed
=============================================================================
