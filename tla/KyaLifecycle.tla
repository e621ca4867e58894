---------------------------- MODULE KyaLifecycle ----------------------------
(***************************************************************************)
(* The decision service with KYA authority: the HTTP routes of the demo    *)
(* API, the KyaAuthorityGate behind the KYA routes, the store of proof     *)
(* nonces, and the records that tie a decision to the authority it was     *)
(* issued under.                                                           *)
(*                                                                         *)
(* Requests run concurrently; an action is the code from one await to the  *)
(* next, and a request begins with its first store operation.  Any await   *)
(* may throw, the process may stop, and an answer may be lost on its way   *)
(* to the client (Fail): a client acts only on decisions it was told of.   *)
(*                                                                         *)
(* External: verifyCardProof, which checks the proof's time window and,    *)
(* once keys are resolved, asks consumeNonceIfFresh; the revocation lists; *)
(* the decision provider, reduced to what PaymentAuthority promises.       *)
(*                                                                         *)
(* Abstractions: one protected resource and one action; a presentation is  *)
(* its proof, the agent it speaks for stands for the accountable identity  *)
(* (agent, responsible party, target, action, currency, policy); signed    *)
(* BLOCK decisions are answers without effect; all proofs expire together. *)
(***************************************************************************)
EXTENDS Integers, FiniteSets

CONSTANTS
    Callers,      \* requests in flight
    Proofs, Agents,
    Owner,        \* the agent that signed each proof
    Decisions,    \* decisions the provider may issue
    ExecRefs,     \* execution references
    Expires,      \* the instant every proof expires
    Skew,         \* external: how long after its expiry a proof is accepted
    Retention,    \* REPLAY_RETENTION_SKEW_SECONDS
    Instants,     \* bound on the clock: the instants it shows
    MaxRequests,  \* bound on requests
    MaxFailures,  \* bound on throws, stops and lost answers
    None

ASSUME OwnerAssumption == Owner \in [Proofs -> Agents]

ASSUME BoundsAssumption ==
    /\ {Expires, Skew, Retention, MaxRequests, MaxFailures} \subseteq Nat
    /\ 0 \in Instants /\ Instants \subseteq Nat

ASSUME NoneAssumption == None \notin Agents \cup ExecRefs \cup Decisions \cup Proofs

NoRow == -1

VARIABLES
    mode,          \* options.kya.mode: "required" or "optional"
    now,
    nonce,         \* kya_proof_nonces: expires_at of each proof, or NoRow
    accepted,      \* history: how often each proof was accepted
    revoked,       \* agents whose delegation is revoked
    decision,      \* the provider's decisions
    resolved,      \* approvals that were resolved
    consumed,      \* the provider's consumption of each decision
    authority,     \* kya_authority_decisions
    revalidation,  \* kya_authority_revalidations of kind consumption
    call,          \* requests in flight
    known,         \* decisions some client was told of
    requests,      \* requests received
    failures

vars == <<mode, now, nonce, accepted, revoked, decision, resolved, consumed,
          authority, revalidation, call, known, requests, failures>>
proofs == <<now, nonce, accepted>>
provider == <<decision, resolved, consumed>>
records == <<authority, revalidation>>
world == <<mode, revoked, failures, requests>>
service == <<mode, revoked, failures>>

(* `agent` is the verified KYA binding the action carries.                 *)
Decision == [agent : Agents \cup {None}, verdict : {"ALLOW", "REQUIRE_APPROVAL"},
             supersedes : Decisions \cup {None}]

ASSUME NoDecisionAssumption == None \notin Decision

Routes == {"evaluate", "approve", "consume", "plainApprove", "plainConsume"}

(* `at` is the consumedAt a request has sent to the nonce store.           *)
Call == [pc : {"idle", "proof", "keys", "nonce", "delegation", "append", "provider", "save", "reply"},
         route : Routes \cup {None}, decision : Decisions \cup {None},
         ref : ExecRefs \cup {None}, proof : Proofs \cup {None}, at : Instants]

Idle == [pc |-> "idle", route |-> None, decision |-> None, ref |-> None, proof |-> None,
         at |-> 0]

Revalidation == [decision : Decisions, ref : ExecRefs, agent : Agents,
                 status : {"verified", "rejected"}]

TypeOK ==
    /\ mode \in {"required", "optional"}
    /\ now \in Instants
    /\ nonce \in [Proofs -> Int]
    /\ accepted \in [Proofs -> Nat]
    /\ revoked \subseteq Agents
    /\ decision \in [Decisions -> Decision \cup {None}]
    /\ resolved \subseteq Decisions
    /\ consumed \in [Decisions -> ExecRefs \cup {None}]
    /\ authority \in [Decisions -> Agents \cup {None}]
    /\ revalidation \subseteq Revalidation
    /\ call \in [Callers -> Call]
    /\ known \subseteq Decisions
    /\ requests \in 0..MaxRequests /\ failures \in 0..MaxFailures

Init ==
    /\ mode \in {"required", "optional"}
    /\ now = 0
    /\ nonce = [p \in Proofs |-> NoRow]
    /\ accepted = [p \in Proofs |-> 0]
    /\ revoked = {}
    /\ decision = [d \in Decisions |-> None]
    /\ resolved = {}
    /\ consumed = [d \in Decisions |-> None]
    /\ authority = [d \in Decisions |-> None]
    /\ revalidation = {}
    /\ call = [c \in Callers |-> Idle]
    /\ known = {} /\ requests = 0 /\ failures = 0

At(c, pc) == call[c].pc = pc
Goto(c, pc) == call' = [call EXCEPT ![c].pc = pc]
Return(c) == call' = [call EXCEPT ![c] = Idle]
Start(c, pc, route, d, r, p) ==
    /\ At(c, "idle") /\ requests < MaxRequests
    /\ requests' = requests + 1
    /\ call' = [call EXCEPT ![c] = [Idle EXCEPT !.pc = pc, !.route = route,
                                 !.decision = d, !.ref = r, !.proof = p]]

-----------------------------------------------------------------------------
(* The routes                                                              *)

(* POST /v1/decisions/evaluate: in required mode the gate answers for the  *)
(* protected resource, with a signed BLOCK since there is no presentation. *)
PlainEvaluate(c) ==
    /\ mode # "required"
    /\ Start(c, "provider", "evaluate", None, None, None)
    /\ UNCHANGED <<proofs, provider, records, service, known>>

(* POST /v1/kya/x402/evaluate                                              *)
KyaEvaluate(c, p) ==
    /\ Start(c, "proof", "evaluate", None, None, p)
    /\ UNCHANGED <<proofs, provider, records, service, known>>

(* Mutant: the ordinary routes do not ask the gate. *)
NeverProtected(d) == FALSE

(* getDecisionAuthority finds a record. *)
Recorded(d) == authority[d] # None

(* protectsDecision: the decision has an authority record.                 *)
IsProtected(d) == Recorded(d)

(* POST /v1/decisions/approve and /v1/decisions/consume: a protected       *)
(* decision is answered KYA_AUTHORITY_REQUIRED.                            *)
PlainApprove(c, d) ==
    /\ d \in known /\ ~IsProtected(d)
    /\ Start(c, "provider", "plainApprove", d, None, None)
    /\ UNCHANGED <<proofs, provider, records, service, known>>

PlainConsume(c, d, r) ==
    /\ d \in known /\ ~IsProtected(d)
    /\ Start(c, "provider", "plainConsume", d, r, None)
    /\ UNCHANGED <<proofs, provider, records, service, known>>

-----------------------------------------------------------------------------
(* The gate: what is stored, and a fresh verification                      *)

(* Mutant: a rejected attempt counts as a verification. *)
AnyAttempt(v, d, r) == v.decision = d /\ v.ref = r

(* Mutant: a verification of another execution counts. *)
AnyExecution(v, d, r) == v.decision = d /\ v.status = "verified"

(* getSuccessfulExecutionRevalidation                                      *)
Verifies(v, d, r) == v.decision = d /\ v.ref = r /\ v.status = "verified"

(* POST /v1/kya/decisions/approve: without a record the gate rejects.      *)
KyaApprove(c, d, p) ==
    /\ d \in known /\ Recorded(d)
    /\ Start(c, "proof", "approve", d, None, p)
    /\ UNCHANGED <<proofs, provider, records, service, known>>

AlreadyVerified(d, r) == \E v \in revalidation : Verifies(v, d, r)

(* POST /v1/kya/decisions/consume: likewise, and a retry of a verified     *)
(* execution goes straight to the provider.                                *)
KyaConsume(c, d, r, p) ==
    /\ d \in known /\ Recorded(d)
    /\ Start(c, IF AlreadyVerified(d, r) THEN "provider" ELSE "proof", "consume", d, r, p)
    /\ UNCHANGED <<proofs, provider, records, service, known>>

(* appendRevalidation, kind consumption                                    *)
Append(c, status) ==
    revalidation' = revalidation \cup
        {[decision |-> call[c].decision, ref |-> call[c].ref,
          agent |-> Owner[call[c].proof], status |-> status]}

(* A verification that fails ends an evaluation with a signed BLOCK, an    *)
(* approval or a consumption with a rejection that is recorded first.      *)
Rejected(c) ==
    /\ Return(c)
    /\ IF call[c].route = "consume" THEN Append(c, "rejected") ELSE UNCHANGED revalidation

(* External: verifyCardProof finds the proof inside its time window.       *)
CheckProof(c) ==
    /\ At(c, "proof")
    /\ IF now <= Expires + Skew
       THEN Goto(c, "keys") /\ UNCHANGED revalidation
       ELSE Rejected(c)
    /\ UNCHANGED <<proofs, provider, authority, world, known>>

(* The keys are resolved, which may take any time; consumeNonceIfFresh     *)
(* reads the clock again and sends the nonce.                              *)
SendNonce(c) ==
    /\ At(c, "keys")
    /\ call' = [call EXCEPT ![c].pc = "nonce", ![c].at = now]
    /\ UNCHANGED <<proofs, provider, records, world, known>>

(* expiresAt: proof.expires + REPLAY_RETENTION_SKEW_SECONDS                *)
NonceExpiry(p) == Expires + Retention

(* Mutant: the table has no CHECK (expires_at > consumed_at). *)
InsertsUnchecked(p, at) == nonce[p] < at

(* INSERT ... ON CONFLICT DO UPDATE ... WHERE expires_at < consumed_at, in *)
(* a table whose CHECK refuses a row that has expired already.             *)
Inserts(p, at) == nonce[p] < at /\ at < NonceExpiry(p)

ConsumeNonce(c) ==
    LET p == call[c].proof
    IN  /\ At(c, "nonce")
        /\ \/ /\ Inserts(p, call[c].at)
              /\ nonce' = [nonce EXCEPT ![p] = NonceExpiry(p)]
              /\ accepted' = [accepted EXCEPT ![p] = @ + 1]
              /\ call' = [call EXCEPT ![c].pc = "delegation", ![c].at = 0]
              /\ UNCHANGED revalidation
           \/ /\ ~Inserts(p, call[c].at)
              /\ Rejected(c)
              /\ UNCHANGED <<nonce, accepted>>
        /\ UNCHANGED <<now, provider, authority, world, known>>

(* DELETE ... WHERE expires_at < $1.  No caller in src/: whoever purges    *)
(* does not overtake a nonce on its way to the database, so the cutoff is  *)
(* not later than the clock any of them was sent with.                     *)
PurgeExpired(cutoff) ==
    /\ cutoff <= now
    /\ \A c \in Callers : At(c, "nonce") => cutoff <= call[c].at
    /\ nonce' = [p \in Proofs |-> IF nonce[p] < cutoff THEN NoRow ELSE nonce[p]]
    /\ UNCHANGED <<now, accepted, provider, records, world, known, call>>

(* Mutant: any verified authority will do. *)
AnyAuthority(original, fresh) == TRUE

SameAuthorityIdentity(original, fresh) == original = fresh

(* Delegation signatures, fresh revocation status of every credential, the *)
(* financial join; for a stored decision also the same identity.           *)
VerifyDelegation(c) ==
    LET fresh == Owner[call[c].proof]
        d == call[c].decision
    IN  /\ At(c, "delegation")
        /\ IF fresh \in revoked \/ (d # None /\ ~SameAuthorityIdentity(authority[d], fresh))
           THEN Rejected(c)
           ELSE /\ Goto(c, IF call[c].route = "consume" THEN "append" ELSE "provider")
                /\ UNCHANGED revalidation
        /\ UNCHANGED <<proofs, provider, authority, world, known>>

AppendVerified(c) ==
    /\ At(c, "append")
    /\ Append(c, "verified") /\ Goto(c, "provider")
    /\ UNCHANGED <<proofs, provider, authority, world, known>>

-----------------------------------------------------------------------------
(* The provider, and the record of what it issued                          *)

(* evaluate: a KYA evaluation carries the verified binding.                *)
ProviderEvaluate(c) ==
    LET p == call[c].proof
        agent == IF p = None THEN None ELSE Owner[p]
    IN  /\ At(c, "provider") /\ call[c].route = "evaluate"
        /\ \E d \in Decisions, v \in {"ALLOW", "REQUIRE_APPROVAL"} :
              /\ decision[d] = None
              /\ decision' = [decision EXCEPT ![d] =
                     [agent |-> agent, verdict |-> v, supersedes |-> None]]
              /\ call' = [call EXCEPT ![c].decision = d,
                                      ![c].pc = IF p = None THEN "reply" ELSE "save"]
        /\ UNCHANGED <<proofs, resolved, consumed, records, world, known>>

(* resolveApproval and resolveApprovalWithAction: an approval is resolved  *)
(* once and yields an ALLOW that supersedes it (or a refusal); the gate    *)
(* passes the freshly verified binding, the plain route keeps the action.  *)
ProviderApprove(c) ==
    LET d == call[c].decision
        agent == IF call[c].route = "approve" THEN Owner[call[c].proof] ELSE decision[d].agent
    IN  /\ At(c, "provider") /\ call[c].route \in {"approve", "plainApprove"}
        /\ \/ /\ decision[d].verdict = "REQUIRE_APPROVAL" /\ d \notin resolved
              /\ resolved' = resolved \cup {d}
              /\ \E e \in Decisions :
                    /\ decision[e] = None
                    /\ decision' = [decision EXCEPT ![e] =
                           [agent |-> agent, verdict |-> "ALLOW", supersedes |-> d]]
                    /\ call' = [call EXCEPT ![c].decision = e,
                           ![c].pc = IF call[c].route = "approve" THEN "save" ELSE "reply"]
           \/ Return(c) /\ UNCHANGED <<decision, resolved>>
        /\ UNCHANGED <<proofs, consumed, records, world, known>>

(* consume: first use, idempotent retry, or a refusal.                     *)
ProviderConsume(c) ==
    LET d == call[c].decision
    IN  /\ At(c, "provider") /\ call[c].route \in {"consume", "plainConsume"}
        /\ \/ /\ decision[d].verdict = "ALLOW" /\ consumed[d] = None
              /\ consumed' = [consumed EXCEPT ![d] = call[c].ref]
           \/ UNCHANGED consumed
        /\ Return(c)
        /\ UNCHANGED <<proofs, decision, resolved, records, world, known>>

(* Mutant: the record of a decision names no verified agent. *)
Unverified(d) == "unverified"

AuthorityOf(d) == decision[d].agent

(* saveDecisionAuthority; a failure answers 503 without the decision.      *)
SaveDecisionAuthority(c) ==
    /\ At(c, "save")
    /\ authority' = [authority EXCEPT ![call[c].decision] = AuthorityOf(call[c].decision)]
    /\ Goto(c, "reply")
    /\ UNCHANGED <<proofs, provider, revalidation, world, known>>

(* The client - ProductionDecisionProvider or the caller of a route - gets *)
(* the signed decision.                                                    *)
Reply(c) ==
    /\ At(c, "reply")
    /\ known' = known \cup {call[c].decision}
    /\ Return(c)
    /\ UNCHANGED <<proofs, provider, records, world>>

-----------------------------------------------------------------------------
(* Time passes, however long a request has waited.                         *)
Tick ==
    /\ \E t \in Instants : now < t /\ now' = t
    /\ UNCHANGED <<nonce, accepted, provider, records, world, known, call>>

Revoke(a) ==
    /\ revoked' = revoked \cup {a}
    /\ UNCHANGED <<proofs, provider, records, mode, failures, requests, known, call>>

(* Mutant: a failed save is swallowed and the decision returned. *)
AnswersAnyway(c) == IF At(c, "save") THEN Goto(c, "reply") ELSE Return(c)

FailedCall(c) == Return(c)

Fail(c) ==
    /\ ~At(c, "idle") /\ failures < MaxFailures
    /\ failures' = failures + 1
    /\ FailedCall(c)
    /\ UNCHANGED <<proofs, provider, records, mode, revoked, requests, known>>

Step(c) ==
    \/ CheckProof(c) \/ SendNonce(c) \/ ConsumeNonce(c) \/ VerifyDelegation(c) \/ AppendVerified(c)
    \/ ProviderEvaluate(c) \/ ProviderApprove(c) \/ ProviderConsume(c)
    \/ SaveDecisionAuthority(c) \/ Reply(c)

Route(c) ==
    \/ PlainEvaluate(c)
    \/ \E p \in Proofs : KyaEvaluate(c, p)
    \/ \E d \in Decisions : PlainApprove(c, d)
    \/ \E d \in Decisions, r \in ExecRefs : PlainConsume(c, d, r)
    \/ \E d \in Decisions, p \in Proofs : KyaApprove(c, d, p)
    \/ \E d \in Decisions, r \in ExecRefs, p \in Proofs : KyaConsume(c, d, r, p)

Next ==
    \/ \E c \in Callers : Route(c) \/ Step(c) \/ Fail(c)
    \/ \E a \in Agents : Revoke(a)
    \/ \E cutoff \in Instants : PurgeExpired(cutoff)
    \/ Tick

Spec == Init /\ [][Next]_vars

-----------------------------------------------------------------------------
(* A decision bound to KYA authority is consumed for an execution only if  *)
(* that very execution was verified freshly, under the authority the       *)
(* decision was issued for: no route, retry, lost record or earlier        *)
(* rejection passes it.  In required mode no unbound decision is consumed. *)
(* (KYA_OS_INTEGRATION.md:45-54)                                           *)
ConsumedUnderAuthority ==
    \A d \in Decisions : consumed[d] # None =>
        IF decision[d].agent = None THEN mode = "optional"
        ELSE \E v \in revalidation :
                /\ v.decision = d /\ v.ref = consumed[d] /\ v.status = "verified"
                /\ v.agent = decision[d].agent

(* Every KYA bound decision a client can name has its authority record, so *)
(* that the ordinary routes recognise it.  (gate.ts:156-172, 248-261)      *)
KnownDecisionsAreProtected ==
    \A d \in known : authority[d] = decision[d].agent

(* A decision that supersedes an approved one keeps its authority: no      *)
(* approval moves a payment from one accountable party to another.         *)
(* (gate.ts:202-210)                                                       *)
ApprovalKeepsAuthority ==
    \A d \in Decisions : decision[d] # None /\ decision[d].supersedes # None =>
        decision[d].agent = decision[decision[d].supersedes].agent

(* A request proof is accepted once in its life, although its nonce is     *)
(* forgotten some time after it expires and a request may take any time    *)
(* from the window check to the nonce store.  (request-proof.ts:71-77,     *)
(* kya-store.ts:43-70, migrations/004_kya_authority.sql:9)                 *)
ProofAcceptedOnce == \A p \in Proofs : accepted[p] <= 1
=============================================================================
