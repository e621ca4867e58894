# A TLA+ model of the Inntris policy adapter

This project models the part of the repository that decides whether a payment
may happen and keeps it from happening twice: the policy decision provider with
its durable state, the MTP and KYA authorities composed with it, the verification
of a KYA presentation, the rotation of the signing key, and the guards and gates
that let one side effect happen for one decision (x402 settlement, A2A and AP2
delegates, wallet signing). Source paths below are relative to `src/packages/`
unless they start with `docs/` or `apps/`.

## The system

An agent asks for a signed decision about one exact payment (`ALLOW`,
`REQUIRE_APPROVAL` or `BLOCK`). A human may resolve a `REQUIRE_APPROVAL`, which
issues a new decision that supersedes it. An `ALLOW` is consumed once, bound to
an execution reference, and the settlement happens after that. Everything is
`async`: each call is a chain of store operations with awaits in between, several
replicas run on one PostgreSQL database, and any await may throw before or after
its effect.

| Component | State | Operations | What makes it correct |
| --- | --- | --- | --- |
| `policy-engine` | issued decisions, approval claims, consumptions, daily spend (through a store) | `evaluate`, `issueBlock`, `resolveApproval(WithAction)`, `consume` | one superseding decision per request; single use; nothing above the threshold without a human's grant; daily limit |
| `postgres-store` (policy) | `inntris.decisions`, `approval_claims`, `consumptions`, `daily_spend` | `save`, `get`, `claimApproval`, `getDailySpend`, `recordSpend`, `consumeAndRecordSpend` | consumption and spend commit together; decisions are immutable |
| `postgres-store` (journal), `execution-reconciliation` | `inntris.execution_operations` | `prepare`, `start`, `markSucceeded`, `markFailedFinal`, `markOutcomeUnknown`, `resolve` | one claim per operation; terminal states are final and true |
| `x402-adapter` | none of its own; the guard drives provider, journal and `settle()` | `authorise`, `verifyBeforeSettlement`, `consumeBeforeExecution`, `settleIfAuthorised`; remote provider; sandbox | no settlement without consumption; no automatic second settlement; callers are told the truth |
| `decision-core` | legacy `InMemoryNonceStore` | canonical JSON, hashing, signing, schemas | injective hashing; signatures |
| `decision-verifier` | none | `verifyDecision`, `verifySignedDecision` | key validity windows, expiry, binding |
| `mtp-authority`, `postgres-store` (mtp) | `mtp_authorisations` | `evaluate`, `resolveApproval`, `consume` | the external authority and the local one are consumed for the same execution, retries converge |
| `kya-os-authority`, `postgres-store` (kya) | decision authority records, revalidations, proof nonces, a cache of DID documents | `evaluate`, `resolveApproval`, `consume`; `verify` of a presentation | no `ALLOW` is used without live authority; proofs are not replayed; a payment lies within every delegation it rests on |
| `a2a-settlement-gate`, `ap2-runtime-gate`, `wallet-signing-gate` | an execution store each | `process`, `signAndBroadcast` | the delegate (or broadcast) runs once; receipts match it |
| `managed-signing`, `apps/demo-api` start-up | key registry file, configured signer | `sign`, `assertRotationRegistry`, `assertSigningProviderRegistered` | whatever was issued verifies; a rotation leaves a key to issue with |
| `apps/demo-api` routes | none | ordinary and KYA decision routes | a decision with an authority record is refused by the ordinary routes |
| conformance packages, scripts, fixtures, evidence | none | test suites, generators | not modelled: no state or concurrency of their own |

Interaction: the guard and the gates call a `DecisionProvider` (local, MTP, KYA or
remote, which wrap one another); the local provider calls its stores and the
signer; the guard calls the journal and the rail. There are no callbacks except
`settle()` and the delegates. Messages travel to the rail, to the MTP service, to
the signing broker and between the remote provider and the service; each may be
answered late or not at all.

What is hard in this code:

- Every decision is made on state read before an await: the daily spend, the
  stored decision, the claim, the status of an operation.
- A call may fail after its store operation committed. What stays behind (a
  claimed approval, a consumption, an operation in progress) must be harmless and
  must not make the retry harmful.
- The rail may pay after the guard gave up waiting, and the operator may resolve
  an operation while its executor is still alive.
- The two legacy stores are not updated together.
- Two authorities are consumed one after the other for one execution, and an A2A
  payment is settled before either is.
- The rules of a KYA verification are applied to what several look-ups returned at
  several instants, out of a cache or not.
- Replicas restart one by one while keys are published, retired and revoked.

`PROJECT.json` lists these as hazards, each at its line and with the properties
that would break.

## Modules

| Module | Models |
| --- | --- |
| `PaymentAuthority` | What a provider promises: decisions are issued once, a request is resolved once, an authorisation is used once and within the limit. No calls in flight, clock, claims or failures. |
| `SingleExecution` | What guard, composite and gates promise: an authority is used up for one key before anything is done under it, one effect per key, true answers. No calls in flight, claims, journals or failures. `X402Settlement`, `ExecutionGate` and `MtpAuthority` implement it. |
| `PolicyProvider` | `policy-engine/src/local-provider.ts`, `evaluate.ts`, `decision-store.ts`, `postgres-store/src/store.ts`, `decision-core/src/provider.ts` (nonce store) and the contents of a decision (`decision.ts`). |
| `PolicyProviderMC` | Small instances for TLC. |
| `PolicyProviderProofs` | Theorems about `PolicyProvider` and their proofs, its refinement included. |
| `DailySpendProofs` | The theorems about its daily spend. |
| `X402Settlement` | `x402-adapter/src/guard.ts` (`settleIfAuthorised`), `execution-reconciliation/src/store.ts`, `postgres-store/src/reconciliation-store.ts`, the rail, and the operator of `docs/RECONCILIATION.md`. |
| `X402SettlementMC` | Small instances for TLC. |
| `X402SettlementProofs` | Theorems about `X402Settlement` and their proofs. |
| `MtpAuthority` | `mtp-authority/src/provider.ts`, `client.ts`, `postgres-store/src/mtp-store.ts`; the MTP service as its client sees it. |
| `MtpAuthorityProofs` | Theorems about `MtpAuthority` and their proofs. |
| `ExecutionGate` | `a2a-settlement-gate`, `ap2-runtime-gate` and `wallet-signing-gate`: `gate.ts`, `store.ts`, receipts and the signature check. |
| `KyaLifecycle` | `kya-os-authority/src/gate.ts`, `request-proof.ts`, `postgres-store/src/kya-store.ts` and the routes of `apps/demo-api/src/app.ts`. |
| `KyaVerification` | `kya-os-authority/src/verifier.ts`, `legacy.ts`, `delegation.ts`, `delegation-signature.ts`, `did-resolver.ts`, `entity-card.ts`. |
| `KeyRotation` | `decision-verifier/src/verify.ts`, `managed-signing`, the start-up of `apps/demo-api` and the operator of `docs/KEY_ROTATION.md`. |
| `ExecutionGateProofs`, `KyaLifecycleProofs`, `KyaVerificationProofs`, `KeyRotationProofs` | Theorems about these modules and their proofs. |
| `MtpAuthorityMC`, `ExecutionGateMC`, `KyaLifecycleMC`, `KyaVerificationMC`, `KeyRotationMC` | Their small instances. |

### PolicyProvider

The database is `decisions`, `claims`, `consumed` and `spend`, one variable per
table. `call` holds the calls in flight. A call's `pc` names the store operation
it is waiting for:

| `pc` | awaited operation | action that completes it |
| --- | --- | --- |
| `claim` | `claimApproval` | `ClaimApproval` |
| `read` | `getDailySpend` in `evaluatePolicy` | `ReadSpend` |
| `save` | `createSignedDecision`, then `save` | `Save` |
| `commit` | `consumeAndRecordSpend` or `nonceStore.consume` | `ConsumeAndRecordSpend`, `FindConsumption`, `ConsumeNonce` |
| `record` | `recordSpend` (legacy pair only) | `RecordSpend` |

The first await of `resolveApproval` and `consume` is a read of an immutable row,
so it is folded into the start of the call (`ApproveStart`, `ConsumeStart`), and
calls that end there with a rejection change nothing and are no step. `Fail`
ends a call at any await: what it committed stays, and its answer is lost. A lost
acknowledgement is a completed action whose caller asks again. The clock ticks
between any two steps, so expiry may happen anywhere. `permits` is a history
variable: what callers were told.

A decision record keeps its verdict, action, issue time, the request it
supersedes and whether it carries `HUMAN_APPROVAL_GRANTED`. Rules that depend only
on the action are a set `Permitted`; the time window is a set of instants; the
spend day is a function of the instant. Hashes and signatures are taken to be
injective and unforgeable.

### X402Settlement

`caller` holds the settlement calls, again with the awaited operation as `pc`.
`journal` is the operation table; `pending` and `paid` are the rail's own state,
counted per decision and reference so that a second payment shows. `settled` and
`told` are history. A reference alone identifies an operation (the id is a hash of
rail, kind and reference), and the binding hash covers the decision, so two calls
with the same reference and different decisions meet in one row.

`start` is two statements in PostgreSQL: `Start` is the conditional update and
`Inspect` the later read. `SettleThrows` covers both a refusal that reaches the
guard and a timeout, and only a refusal may be classified as final (the contract
of `classifySettlementError` in `docs/RECONCILIATION.md`). `Resolve` may use only
evidence the rail really has, and `failed_final` only after the grace period that
the document asks for (`GraceElapsed`): an executor that has claimed the operation
and not yet called `settle()` could still pay. Without that assumption
`JournalAgreesWithRail` fails; the code cannot enforce it.

`integration` is chosen once: with or without a journal, an idempotent rail or not.
A call is presented with a decision, a reference, and the requirements and payload
of a payment (`Requests`). `VerifyBeforeSettlement` is `verifyDecision` on the
action that `actionFromX402` builds from them: an altered decision, one for other
terms, or a payload made for other requirements goes no further. `Covers` says
which terms a decision was issued for. Decisions issued in the future are left out:
clocks agree. `ConsumeUnanswered` is the remote provider's
`consume` whose answer is lost, late or of another request. The properties of the
provider used here (`consume` is single use and idempotent per reference) are those
of `PaymentAuthority`.

### MtpAuthority

`record` is the row of `inntris.mtp_authorisations`; `mtp` and `local` are what the
two services know. Every `pc` is an await of `MtpCompositeDecisionProvider` (`get`,
`claim`, `claimRead`, `reread`, `mtp`, `mark`, `local`, `complete`, and `authorize`
and `save` of an evaluation). A call that fails while its request to MTP is under
way leaves it in `late`, and `MtpServesLate` may serve it at any time after. The
service is external: it consumes a token for one reference and returns the receipt
of that reference to whoever repeats it; it may also refuse. The local provider
rejects whatever has expired, a repeat of a consumption included. That an update of
`markComplete` matches no row, which throws, cannot happen (`LocalNeedsMtp`) and is
no step.

### ExecutionGate

`kind` is one of the three gates and is chosen once. The gates follow one protocol:
obtain a decision, check, consume it, claim the execution, run it, sign a receipt,
complete it. They differ in what is done before consumption (mandates, settlement),
in the store's key (the request, the Payment Mandate, the unsigned transaction) and
in the execution reference. Those differences are operators of `kind` (`Reference`,
`Key`, `StillValid`, `AfterClaim`); an action is the code of all three between two
awaits. `ran` and `told` are history: the side effects and the answers.

A request is an item and a variant: of the A2A gate, the
item is what payment and evidence are bound to (task, context, submission,
requirements, resource), the variant what else the action covers (purpose, agent).
`payment` is kept per item, since the settlement's idempotency key
(`a2a-settlement-gate/src/gate.ts:207`) hashes nothing of the variant: two variants of
one item share one payment, and each still needs a decision and a consumption of its
own. That a payment has one `settlement_ref`, which enters the execution reference, is
assumed of the settlement provider. It may report evidence of any item.

### KyaLifecycle

A request is one of six routes. A KYA route checks its proof (`CheckProof`,
`SendNonce`, `ConsumeNonce`), the delegation (`VerifyDelegation`, which `KyaVerification` takes
apart) and then calls the provider; an evaluation or approval stores the authority
record before it answers. The ordinary routes refuse decisions that have a record.
`known` are the decisions some client was told of: a client can name no others.

From the time window to the nonce store a request makes DID look-ups that may take any
time: `CheckProof` checks the window, `SendNonce` reads the clock again and sends the
nonce, and the row is written later still (`ConsumeNonce`). The row may be replaced
`Retention` after the proof's expiry (`REPLAY_RETENTION_SKEW_SECONDS`, 6 s,
`request-proof.ts:15`), before or after the tolerance of the external proof check is
over. What makes a replay fail even then is the table's `CHECK (expires_at >
consumed_at)` (`004_kya_authority.sql:9`), which refuses a nonce that arrives past its
own retention (`Inserts`). So neither tolerance, retention nor latency is bounded.
The in-memory nonce store has no such check; it is refused in production
(`docs/KYA_OS_INTEGRATION.md:40`) and not modelled. `PurgeExpired` has no caller in
`src/` outside the store. It may happen at any time, with a cutoff that is assumed not
to lie after the clock reading of a nonce that is on its way to the database: a purge
with a later cutoff would forget a nonce and let that request through.

### KyaVerification

One presentation is verified up to `MaxRuns` times, as at evaluation and again at
approval or consumption, by one resolver. `v` is the verification under way; its
phases are the look-ups. `docs` are the DID documents, `cache` the resolver's copy
(an entry and its expiry), `revoked` what the status lists say. Between two look-ups
a key may lose `assertionMethod` or vanish, a credential may be revoked, a stale
status list may say anything, and time passes. When the look-ups are done `Decide`
or `LegacyDecide` joins what they found with the payment, check by check as in
`requireFinancialJoin` and in `legacy.ts`. `case` ranges over well-formed and
ill-formed presentations, policies and actions. `lost` and `dropped` are history:
what was revoked when the verification began, and when a key was withdrawn.

External are the document servers, `@kya-os/mcp`'s chain evaluation (its attenuation rules as the
repository's delegation tests exercise them), its proof check and its status lists.
What is abstracted: hashes, reason codes, the nonce (in `KyaLifecycle`), the one
literal action `payments.transfer` that the schemas admit, and `authorityExpiresAt`,
which is only stored. A credential has at most
one `MaxAmount` caveat (`delegation.ts:45` takes the first of several).

A fetch has three instants: it is sent (`Ask`), the server answers with the document it
has by then (`Answer`), and the body arrives and is cached (`Arrives`), with a lifetime
from that last instant (`did-resolver.ts:138-147`). `fetch` holds one fetch per
verification at the resolver. `This` verification is the one that is followed; the
`Others` ask for any document, and what they get overwrites the cache, an answer older
than the entry included. So a withdrawn key may be trusted for the lifetime and, on
top, as long as the answer was under way. `slowest` is the longest any fetch has taken
so far, a history variable and no bound: `WithdrawnKeyExpires` says less than `CacheTtl
+ slowest` after the withdrawal. With the lifetime alone it is violated. Without a cache
(the default, `did-resolver.ts:121-124`) no verification that began after the withdrawal
trusts the key.

Two things the model shows that are worth knowing and are no disagreement with any
document. A modern leaf without `MaxAmount` has no currency, so it is never accepted
even where `require_max_amount` is false; a legacy credential without one is. And
the clock is read once at the start (`verifier.ts:204`), so authority that expires
during a slow verification is still accepted.

### KeyRotation

`registry` is the published key registry, `replica` the signing key and pinned public
key each process runs with, `call` the decision it is signing, `custody` the keys the
broker still signs with. `Issue` reads `issued_at`; `Sign` is the broker's answer
later, possibly by another key. The operator's actions have the guards of
`docs/KEY_ROTATION.md`: publish before the cutover, retire with `not_after` at the
cutover once a canary verifies, disable after that. Configuration is not guarded:
`Restart` tries any key with any pin, and what stops a wrong one is the check at
start-up.

## Runs

| Run | Question | Result |
| --- | --- | --- |
| `provider_atomic` | Do approvals, consumptions and spend stay consistent under races, failures and expiry on the PostgreSQL store, and does the provider implement `PaymentAuthority`? | holds |
| `provider_split` | Can the legacy pair count a payment twice? | no; it can lose one |
| `claimed_is_resolved` | Does an approval that answers "already resolved" have a signed decision? | violated |
| `retry_is_accepted` | Is a retry with the same execution reference always answered with its consumption? | violated |
| `x402_settle` | One payment per decision and reference, a truthful journal, truthful answers, final states final, every unresolved operation resolved, with forged and mismatched decisions presented, with and without the journal; does the whole implement `SingleExecution`? | holds |
| `mtp_safety` | Is the local decision consumed only after, and for the same reference as, its MTP authority; is the record true; does a retry resume where the first attempt stopped; does the composite implement `SingleExecution`? | holds |
| `mtp_live` | Does an executor that keeps retrying get there? | yes, unless the decision lapses or is refused |
| `gates` | In all three gates: one side effect per key, under its own decision, after the payment of its own task and submission, truthfully reported; do they implement `SingleExecution`? | holds |
| `gates_retry` | Does an exact retry of a completed execution return the stored result? | violated |
| `kya` | Does any route, retry or failure consume a decision bound to KYA authority without a verification of that execution? Is a proof accepted once? | no; yes |
| `rotation` | Does what was issued verify, through rotations, rollbacks and wrong configurations? | holds |
| `kya_verify` | Does accepted authority cover the payment in every link; are revoked authority and withdrawn keys rejected? | holds |

Bounds. The provider runs have two concurrent calls, three decision ids (a
request, the decision that supersedes it and a rival), two references, one
principal, amounts 1 and 2 with daily limit 2 and human threshold 1, so that one
payment needs approval, two small ones fill a day, and a small and a large one do
not fit together. Instants 0 to 2 lie on two days; decisions and requests live two
instants, the policy expires and its window closes at instant 2, so each of them
can change between a read and its use. Every violation of a pairwise race needs two
calls, and a third decision is enough for a second superseding decision or a
second consumption. The split run has two ids, since it asks about consumptions
only. The x402 run has two decisions and two references (one of each can be
swapped against the other), two callers, and six presentations: the right ones, a
decision under a second reference, an altered decision, a decision for other
terms and a payload for other requirements. A call that ended may begin again, so
two callers give any number of late retries. `MaxSettles` bounds `settle()` calls
per decision and reference by two; two is the first wrong number.

`mtp_safety` has two decisions that may compete for one reference and two references
that may compete for one decision, with one failure; `mtp_live` has one decision and
two failures, so a retry may fail as well. `gates` has two requests for one item
(equal keys, different bindings, in the AP2 and wallet gates; one payment, in the A2A
gate) and, in the A2A gate, two for another item, whose payment may be reported
instead; two decisions (a first
run and its retry or rival), a daily limit of two, so that a third evaluation is
refused, and two failures: a run and its retry may both stop. `gates_retry` has a third
decision, for a retry after the limit is used up. `kya` has
two agents, three proofs of one and one of the other (one each to evaluate, approve
and consume, and a stranger's), two decisions (a request and its superseding ALLOW),
two references, three requests and one failure; its five instants are the first and
the last of the proofs' window, one after it, the one the nonces expire at, and one
after that, when they may be forgotten. `rotation` has three keys (two rotations), two replicas, three
instants and two decisions, which is what a property about a pair needs. `kya_verify`
has 241 cases: a good one per profile, varied in groups of fields that are checked
against each other (lifetimes, money, parties, targets, stricter policies); two
verifications and a cache lifetime of two. In the cases about lifetimes three instants
pass and one other verification fetches, so an entry may be hit, expire, be fetched
again or be overwritten between two look-ups, and a fetch may take longer than the
entry it replaces has left; in the others, which vary what is joined, one instant
passes and no other verification fetches (`MaxTime`, `Busy`).

Symmetry is used in the safety runs whose values are interchangeable, never with
liveness.

Deadlock is checked in the provider runs, where an idle call can always start. The
others turn it off: when every decision has expired, every key is in use, or the
bounded requests are used up, nothing more need happen.

Fairness is assumed in `x402_settle` and `mtp_live`, for their liveness properties.
In x402 a call that has begun goes on, throws or dies (`Progress`, which includes
`Fail`: nothing forces an executor to record anything); the rail decides every
request it received; the operator works through the unresolved queue, as
`docs/RECONCILIATION.md` asks. In MTP a call that has begun goes on (Node runs every
continuation that is due, and the HTTP client has a timeout), and an executor that
holds the claim retries as long as it can (strong fairness of `Retry`, since a call
of another executor may keep disabling it); `docs/MTP_COMPATIBILITY.md:35-37` makes
that the executor's part. No fairness is assumed of the clock, of other new calls or
of late answers.

### What the violations say

- `gates_retry`: `process` evaluates and consumes a fresh decision
  (`ap2-runtime-gate/src/gate.ts:229`, `:267`) before it asks the execution store,
  where packages/ap2-runtime-gate/README.md:59 promises that an exact completed
  retry returns the stored receipt. The retry is subject to policy like a new
  payment: it uses up the daily limit and is refused once that is gone, although the
  payment was made. Nothing is paid twice (`ImplementsExecution`). The A2A gate has the same order.

- `retry_is_accepted`: `consume` tests `expires_at` (`policy-engine/src/local-provider.ts:240`)
  before it looks for an existing consumption. If the answer to a consumption is
  lost and the decision expires, the retry with the same reference is rejected with
  `DECISION_EXPIRED`, where ARCHITECTURE.md:188 and README.md:24 promise the
  original success. The spend stays booked.
- `claimed_is_resolved`: `#resolveApproval` claims the request
  (`policy-engine/src/local-provider.ts:176`) before it evaluates, signs and saves, and
  nothing gives the claim back. After a failure in between, repeats answer
  `APPROVAL_ALREADY_RESOLVED` although there is no resolving decision and there can
  be none. This fails safe, but README.md:163 says otherwise.

## Proofs

Every invariant, every action property and every refinement of the passing runs is
also proved, for every value of the constants the assumptions allow. Four proved
properties are in no run: `DailyLimitHeld`, `PaidOnce` and `RunsOnce`, which the
refinements checked by `provider_atomic`, `x402_settle` and `gates` imply, and `TypeOK`
of `KyaVerification`. Each proof module states one inductive invariant, `IInv` (in
`DailySpendProofs` `SpendInv`), shows that `Init` gives it and that every step keeps it
with one lemma per action, and derives the properties from it.

| Module | Theorem | Property |
| --- | --- | --- |
| `PolicyProviderProofs` | `TypeCorrect` | `TypeOK` |
| | `RequestResolvedOnce` | `OneSupersederPerApproval` |
| | `ConsumedOnlyIfAuthorised` | `ConsumptionIsAuthorised` |
| | `PermittedOnce` | `SingleUse` |
| | `LimitNeverOverrun` | `DailyLimitHeld`, if `AtomicStore` |
| | `ProviderImplementsAuthority` | `ImplementsAuthority`, if `AtomicStore` |
| `DailySpendProofs` | `SpendIsTheSum` | `SpendAccounted`, if `AtomicStore` |
| | `SpendNeverTooHigh` | `SpendNeverOverstated` |
| `X402SettlementProofs` | `TypeCorrect` | `TypeOK` |
| | `SettlesOnce` | `SettledOnce` |
| | `ConsumedBeforeSettlement` | `SettleNeedsConsumption` |
| | `JournalIsTrue` | `JournalAgreesWithRail` |
| | `AnswersHold` | `AnswersAreTrue` |
| | `PaysOnce` | `PaidOnce` |
| | `OperationsAdvance` | `OperationsOnlyAdvance` |
| | `SettlementImplementsExecution` | `ImplementsExecution` |
| `MtpAuthorityProofs` | `TypeCorrect` | `TypeOK` |
| | `LocalOnlyAfterMtp` | `LocalNeedsMtp` |
| | `RowAgrees` | `RecordAgreesWithMtp` |
| | `OneDecision` | `OneDecisionPerReference` |
| | `SuccessHolds` | `SuccessIsTrue` |
| | `NeverAsksTwice` | `ResumesLocally` |
| | `CompositeImplementsExecution` | `ImplementsExecution` |
| `ExecutionGateProofs` | `TypeCorrect` | `TypeOK` |
| | `OneEffectPerKey` | `RunsOnce` |
| | `EffectsAreAuthorised` | `RunsWithAuthority` |
| | `EffectsArePaid` | `PaidBeforeRun` |
| | `AnswersHold` | `AnswersMatchRuns` |
| | `GatesImplementExecution` | `ImplementsExecution` |
| `KyaLifecycleProofs` | `TypeCorrect` | `TypeOK` |
| | `AuthorityBeforeConsumption` | `ConsumedUnderAuthority` |
| | `RecordBeforeAnswer` | `KnownDecisionsAreProtected` |
| | `SameParty` | `ApprovalKeepsAuthority` |
| | `NoReplay` | `ProofAcceptedOnce` |
| `KyaVerificationProofs` | `TypeCorrect` | `TypeOK` |
| | `PaymentWithinEveryLink` | `AuthorityWithinDelegation` |
| | `RevokedIsRejected` | `RevokedBeforeIsRejected` |
| | `WithdrawnKeyForgotten` | `WithdrawnKeyExpires` |
| `KeyRotationProofs` | `TypeCorrect` | `TypeOK` |
| | `IssuedVerifies` | `IssuedDecisionsVerify` |
| | `NeverStranded` | `SomeKeyCanIssue` |
| | `OneKey` | `OneKeyPerInstant` |

Assumptions. Each module states its own next to its constants: bounds, times and
amounts are naturals, `None` is none of the values or records it stands in for, and
the tables given as constants (`Covers`, `Owner`, `DayKey`) are functions. Two say
more. `OptionsAssumption` (`X402Settlement`) says that a deployment without a journal
has an idempotent rail, which the guard's README requires. `CasesAssumption`
(`KyaVerification`) says what the presentation schemas enforce: a chain is not empty,
a legacy one is a single credential, a card presentation carries a proof. TLC
evaluates all of them in every run of their module.

### The provider

Why the properties are not inductive by themselves: that a request is superseded
once depends on what calls are *about* to save. `IInv` therefore says of every call
in flight what it has established. `SoleResolver` is the heart of it: a call that
is past the claim of a request holds that claim, nothing stored supersedes the
request, and no other call is past the claim of the same request. `DraftOK` says
that an `ALLOW` above the threshold that is about to be signed was granted for a
request; `ConsumerOK` that a call about to commit has seen a stored, unexpired
`ALLOW` for its action (decisions never change, so what it saw is still true).
`DecisionOK`, `ConsumptionOK` and `PermitsOK` say the same of what is stored and
of what was told. `CallStep` serves the actions that change only one call.

The refinement proof maps the tables to the status of every id. Only two steps are
visible to `PaymentAuthority`: `Save` (`SaveRefines`) and `ConsumeAndRecordSpend`
(`ConsumeRefines`); all others leave the tables that the mapping reads alone
(`StoreStutter`). `SaveRefines` needs from `DraftOK` that a superseding decision is
never another request, and `SoleResolver` to know that the request is still open.

The daily spend is a sum over any number of consumptions. Sums need induction, sizes
of finite sets do not: `ConsumedUnits(p, d)` holds one element per unit of money
consumed by principal `p` on day `d`, `PendingUnits(p, d)` one per unit that a call of
the legacy pair has consumed and not yet recorded. `SpendOK` says that the recorded
spend and the pending units together never exceed the consumed ones, with equality
over the atomic store. A consumption adds fresh units (`UnitsAdded`), `RecordSpend`
moves pending units to the record, a failure drops them, and every other step leaves
the three alone (`QuietStep`).

### The settlement

`SettledOnce` is not inductive: a second call could be waiting at `settle`.
`SoleOwner` says that at most one call is past the claim of a reference, and
`CallerOK` what a call has established by its await: past `prepare` the operation is
bound to its decision, past `start` it is no longer `prepared`, at `settle` it is
`in_progress` and nothing was settled for it, at `markSucceeded` the rail has paid, at
`markFailed` it has refused. That last fact must survive other steps, and does:
whoever could still send a request would own the same reference. `SettledOK` counts
(`pending + paid <= settled`), so one `settle()` bounds the payments by one.
`OperationOK` and `ToldOK` say that terminal states and answers are backed by what the
rail did; the operator's step is where `GraceElapsed` is needed.

### MTP

The property that fails to be inductive first is `RecordAgreesWithMtp`: whether MTP
consumes for the claimed reference depends on what the callers, and the requests
whose caller is gone, are *about* to ask. `CallOK` says what a call has established
by each await (past the claim it holds the claim, past MTP the token is consumed for
it, past the checkpoint the receipt is stored), and `LateOK` that a request nobody
waits for was sent by the holder of the claim. `RefsUnique` is the database's unique
index; with it the agreement of row and MTP gives `OneDecision`. All of it survives
other calls because a row, a claim, a receipt and a consumption are never taken back
(`Grows`): `OthersKeep` and `LateKeeps` are proved from that once, and each action
then only argues about its own call and its own row. `TableStep` serves the actions
that write a table, `CallStep` those that do not.

### The gates

The three gates share one argument. `SoleClaimer`: at most one call is past the claim
of a key. `ClaimOK` says that such a call's row is `in_progress` under its reference,
and a row is never deleted, so a key once claimed is not claimed again; `EffectOK`
that nothing ran under the key before the call's own side effect, and that its own
has run after. `DecisionOK` carries the authority from await to await: past the last
check the decision is bound to the request presented, past consumption it is consumed
for that request's reference, and past `settle` an A2A payment is final. Bindings,
consumptions and final payments are never taken back (`Grows`), which is what lets
these facts wait while other calls run.

### One execution

`SingleExecution` has four steps: an authority is used up for a key, an effect happens
under it, and callers are told that it happened or that it never will. Guard, gates
and composite map to it:

| | authority | key | effect | told |
| --- | --- | --- | --- | --- |
| `X402Settlement` | consumed decision | execution reference | payment | completed, failed |
| `ExecutionGate` | consumed decision | key of the execution store | delegate call or broadcast | completed, replayed |
| `MtpAuthority` | consumed MTP token | execution reference | local consumption | success |

Its `Execute` asks for the right grant, for no earlier effect under the key by any
authority, and for a key nobody was told is ruled out; that the steps of three quite
different protocols satisfy this is what the proofs show. In the settlement the first
payment is the rail's step, long after the guard's: `FirstPayment` gets it from
`SettledOK` (one `settle()` per reference, so one request) or, without a journal, from
the rail's idempotency, which is all there is. That no caller was told of final failure
needs `ToldOK` with the journal and `JournalFails` without it, an invariant of its own:
only the journal reports failures as final. In the gates `EffectOK` says that nothing
ran under the key yet, and `AnswersMatchRuns` that an answer follows its effect. In the
composite the claim's unique index (`RefsUnique`) excludes another decision's
consumption for the reference (`LocalRefines`).

### The KYA service

`KyaStageOK` and `PlainStageOK` say what a request has established on its way: a KYA
approval or consumption names a decision with its record, has verified that record's
own agent before it reaches the provider, and for a consumption has stored the
revalidation; an ordinary route reaches the provider with unbound decisions only; a
KYA decision is answered once its record is stored. The gap between the provider and
the record is harmless because a decision is `known` only afterwards (`KnownOK`).
`ProofAcceptedOnce` rests on `NonceOK`: the row of an accepted proof is kept until its
expiry is over, when the table refuses to store it again. `StampOK` says the same of a
nonce that is on its way: it finds the row, or was sent after the row's expiry. No
assumption on tolerance, retention or latency is used; of the purge the proof uses the
cutoff that `PurgeExpired` asks for.

### The verification

`SignaturesOK` says of the loop that every credential it has passed is `Trusted`:
signed by its issuer, with a key that was its issuer's when the verification began or
was withdrawn less than a cache lifetime and the slowest fetch before. `ResolverOK`
supplies that for a cached document. An answer that still names a withdrawn key was
asked for before the withdrawal, whichever verification asked (`FetchesOK`); so the
entry it becomes expires within the lifetime and the time it took after the withdrawal,
whatever it overwrites (`CacheOK`). A document this verification fetched itself was
asked for after it began, which is why without a cache it trusts no key that was
withdrawn before. `RevocationOK` says of the second loop that whatever was revoked when the
verification began lies ahead of the index, unless an answer was stale, and stale
answers fail the policies that ask for freshness. `PaymentWithinEveryLink` goes from the
leaf, the only credential the join reads, to every ancestor. What attenuation gives
between neighbours must hold along a chain of any length without an induction theorem;
the lemma `Backwards` gets it from finite cardinalities (if the positions reached from
the leaf by stepping back did not include some link, stepping back would map those after
it one to one into themselves and miss the last, which a finite set does not allow).

### The rotation

`WindowsOK`: windows of retired keys end where those of active ones begin, and do not
overlap. At most two keys are active (`AtMostTwo`). What was issued was begun after its
key's window began, with the key that is pinned (`CallsOK`, `DecisionsOK`), and a
`not_before` never moves. The cutover of a retired key lies in the past (`EntriesOK`):
the procedure retires a key only once a canary of its successor has verified, so the
successor's window, which begins where the old one ends, has begun. `SomeKeyBegun` and
`CustodyOK` give a key that can issue until one is revoked.

### Only model-checked

The liveness properties `UnresolvedIsResolved` and `RetryCompletes` (fairness is out of
the prover's reach), the three violation runs, and that each bounded instance meets the
interesting cases, which the mutants show.

## Plan

Done: the models of every component listed above, and the proofs of every safety
property they check.

What is left would strengthen the environment of the models rather than add
properties: the provider that guard, gates, composite and KYA service call is reduced
to the outcomes `PaymentAuthority` allows. Composing `X402Settlement` with the steps of
`PolicyProvider` itself, and proving that the composition projects to both, would
replace that reduction by a theorem.

## Not modelled

Hashing, canonical JSON and signatures (taken as injective and unforgeable), HTTP,
schema parsing, time zones beyond the day an instant falls on, decimal formatting,
metrics. A clock that runs backwards. Replicas on different policies.

The multi-rail and Pulse conformance packages evaluate recorded evidence: each is a
pure function of its input, with no state, no awaited step and no order to get
wrong, so a model of them would restate their conditions. The migrator runs SQL
files once under a lock. Scripts, fixtures, schemas and examples are data and their
generators. Of `apps/demo-api`, authentication, rate limits, metrics and the verify
and health routes are I/O around operations that are modelled.
