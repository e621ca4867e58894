---------------------------- MODULE KyaVerification ----------------------------
(* How one KYA presentation is verified (packages/kya-os-authority):        *)
(* DefaultKyaAuthorityVerifier.verify and the legacy adapter.  A            *)
(* verification is a series of awaited look-ups - DID documents through a   *)
(* cache, status lists one credential after the other - between which keys  *)
(* are dropped, credentials revoked and time passes; then the delegated     *)
(* authority is joined with the payment.  The same presentation is verified *)
(* again at approval and at consumption, by the same resolver (gate.ts),    *)
(* while other verifications fetch documents through it: a fetch is sent,   *)
(* answered by the document's server and arrives, at three instants.        *)
(*                                                                          *)
(* The case at hand (presentation, policy, action) is one of Cases.  A      *)
(* legacy presentation has a chain of one credential.  Reason codes, hashes *)
(* and encodings are left out, as is the nonce, which KyaLifecycle models.  *)
(* External, as src/ uses them: @kya-os/mcp's chain evaluation, proof check *)
(* and status lists; a fresh status answer is taken to be true.             *)
EXTENDS Integers, Sequences, FiniteSetsExt

CONSTANTS
    Dids,           \* issuers, agents and principals
    WebDids,        \* the did:web ones: their documents are fetched and change
    Cases,          \* what may be presented: [presentation, policy, action, expected]
    This, Others,   \* the verification that is followed, others at the same resolver
    CacheTtl,       \* lifetime of a cached DID document, 0 for no cache
    Skew,           \* tolerance of the request-proof check
    MaxTime,        \* bound: the instants that pass in each case
    Busy,           \* bound: the cases in which other verifications fetch
    MaxRuns,        \* bound: verifications of the case
    None

ASSUME VerificationAssumption ==
    /\ WebDids \subseteq Dids /\ This \notin Others
    /\ {CacheTtl, Skew, MaxRuns} \subseteq Nat
    /\ MaxTime \in [Cases -> Nat] /\ Busy \subseteq Cases

(* A chain is never empty, a legacy one is a single credential; a card      *)
(* presentation always carries a proof; amounts are numbers.                *)
ASSUME CasesAssumption ==
    \A x \in Cases :
        LET p == x.presentation
        IN  /\ Len(p.chain) \in Nat \ {0}
            /\ p.profile = "entity-card-v1" => p.proof # None
            /\ p.profile # "entity-card-v1" => Len(p.chain) = 1
            /\ p.proof # None => p.proof.did \in Dids
            /\ x.action.amount \in Nat
            /\ \A i \in 1..Len(p.chain) :
                  {p.chain[i].issuer, p.chain[i].signer} \subseteq Dids /\ p.chain[i].cap \in Nat \cup {None}

Purposes == {"authentication", "assertionMethod"}
Phases == {"idle", "proof", "method", "document", "revocation", "legacy", "legacy status", "decide",
           "accepted", "rejected"}
Entry == [doc : SUBSET Purposes, expires : Nat]
Fetch == [did : WebDids, asked : Nat, answered : BOOLEAN, doc : SUBSET Purposes]

ASSUME NoneAssumption == None \notin Nat \cup Entry \cup Fetch

VARIABLES
    case,           \* the presentation, the authority policy and the action
    now,
    docs,           \* docs[d]: the purposes d's DID document gives its key
    dropped,        \* dropped[d]: when d's key lost assertionMethod, or None
    cache,          \* cache[d]: [doc, expires] in the resolver, or None
    fetch,          \* the fetch each verification at the resolver awaits, or None
    slowest,        \* history: the longest a fetch has taken
    revoked,        \* positions in the chain whose credential is revoked
    v               \* the verification under way

resolver == <<cache, fetch, slowest>>
world == <<case, now, docs, dropped, revoked>>
vars == <<world, resolver, v>>

presentation == case.presentation
policy == case.policy
action == case.action
chain == presentation.chain
leaf == chain[Len(chain)]
modern == presentation.profile = "entity-card-v1"

(* What a binding table of the policy maps x to; None when it has no entry. *)
Mapped(table, x) == IF x \in DOMAIN table THEN table[x] ELSE None

Init ==
    /\ case \in Cases
    /\ now = 0
    /\ docs = [d \in Dids |-> Purposes]
    /\ dropped = [d \in Dids |-> None]
    /\ cache = [d \in Dids |-> None]
    /\ fetch = [f \in Others \cup {This} |-> None] /\ slowest = 0
    /\ revoked = {}
    /\ v = [phase |-> "idle", at |-> 0, i |-> 1, fresh |-> TRUE, lost |-> {}, runs |-> 0]

------------------------------------------------------------------------------
(* The resolver                                                             *)

\* Mutant: an entry counts at the very instant it expires.
UntilExpiry(d) == cache[d] # None /\ cache[d].expires >= now

Cached(d) == cache[d] # None /\ cache[d].expires > now

(* Without a usable entry the document of a did:web is requested.           *)
Ask(f, d) ==
    /\ fetch[f] = None /\ d \in WebDids /\ ~Cached(d)
    /\ fetch' = [fetch EXCEPT ![f] = [did |-> d, asked |-> now, answered |-> FALSE, doc |-> {}]]
    /\ UNCHANGED <<world, cache, slowest, v>>

(* External: its server answers with the document it has by then.           *)
Answer(f) ==
    /\ fetch[f] # None /\ ~fetch[f].answered
    /\ fetch' = [fetch EXCEPT ![f].answered = TRUE, ![f].doc = docs[fetch[f].did]]
    /\ UNCHANGED <<world, cache, slowest, v>>

(* What was resolved is kept, with a TTL, from the instant it arrived and   *)
(* over whatever entry is there.  It counts only for keys listed under its  *)
(* own DID.                                                                 *)
Remember(d, doc) ==
    IF CacheTtl = 0 THEN cache
    ELSE [cache EXCEPT ![d] = [doc |-> doc, expires |-> now + CacheTtl]]

(* The fetched document and its body have arrived.                          *)
Arrives(f, d, doc) ==
    /\ fetch[f] # None /\ fetch[f].answered /\ d = fetch[f].did /\ doc = fetch[f].doc
    /\ cache' = Remember(d, doc)
    /\ fetch' = [fetch EXCEPT ![f] = None]
    /\ slowest' = Max({slowest, now - fetch[f].asked})

(* resolveDidDocument(d) of this verification returns doc: from the cache,  *)
(* from the did:key itself, or from its server.                             *)
Resolves(d, doc) ==
    \/ /\ fetch[This] = None /\ Cached(d) /\ doc = cache[d].doc
       /\ UNCHANGED resolver
    \/ /\ fetch[This] = None /\ ~Cached(d) /\ d \notin WebDids /\ doc = docs[d]
       /\ cache' = Remember(d, doc) /\ UNCHANGED <<fetch, slowest>>
    \/ Arrives(This, d, doc)

(* Another verification asks for a document, gets it, or its fetch fails.   *)
OtherAsks(f) == case \in Busy /\ \E d \in WebDids : Ask(f, d)

OtherArrives(f) ==
    /\ \E d \in WebDids, doc \in SUBSET Purposes : Arrives(f, d, doc)
    /\ UNCHANGED <<world, v>>

OtherFails(f) ==
    /\ fetch[f] # None /\ fetch' = [fetch EXCEPT ![f] = None]
    /\ UNCHANGED <<world, cache, slowest, v>>

(* A verification goes to its next phase, or is rejected.                   *)
Continue(phase, good) == [v EXCEPT !.phase = IF good THEN phase ELSE "rejected"]

(* verify() starts: the clock is read once; the profile and the audience    *)
(* this deployment expects must be in policy, and the legacy adapter needs  *)
(* a live proof and no card principal.                                      *)
RequireProfile == presentation.profile \in policy.profiles /\ case.expected \in policy.audiences
LegacyCanStart == presentation.proof # None /\ policy.source = "responsible_party"

Start ==
    /\ v.phase \in {"idle", "accepted", "rejected"}
    /\ v.runs < MaxRuns
    /\ v' = [phase |-> IF RequireProfile /\ (modern \/ LegacyCanStart) THEN "proof" ELSE "rejected",
             at |-> now, i |-> 1, fresh |-> modern, lost |-> revoked, runs |-> v.runs + 1]
    /\ UNCHANGED <<world, resolver>>

(* The request proof, whose time window is checked before its key is looked *)
(* up in the document of its DID, where either purpose will do; then the    *)
(* request must be a payments.transfer.                                     *)
ProofHolds(doc) ==
    /\ doc # {}
    /\ presentation.proof.audience = case.expected
    /\ v.at <= presentation.proof.expires + Skew

VerifyProof ==
    /\ v.phase = "proof"
    /\ \E doc \in SUBSET Purposes :
          /\ Resolves(presentation.proof.did, doc)
          /\ v' = Continue(IF modern THEN "method" ELSE "legacy", ProofHolds(doc) /\ presentation.request.strict)
    /\ UNCHANGED world

(* verifyCredential resolves the proof's key, and then the issuer's         *)
(* document: two look-ups, which may see two documents.                     *)
ResolveMethod ==
    /\ v.phase = "method"
    /\ \E doc \in SUBSET Purposes :
          Resolves(chain[v.i].signer, doc) /\ v' = Continue("document", doc # {})
    /\ UNCHANGED world

(* assertAssertionMethod: the document lists the key for assertions.        *)
AssertionMethod(doc) == "assertionMethod" \in doc

IssuersKey(c, doc) == c.signer = c.issuer /\ AssertionMethod(doc)

NextLink == IF v.i = Len(chain) THEN 1 ELSE v.i + 1

VerifySignature ==
    LET c == chain[v.i]
    IN  /\ v.phase = "document"
        /\ \E doc \in SUBSET Purposes :
              /\ Resolves(c.issuer, doc)
              /\ v' = [Continue(IF v.i = Len(chain) THEN "revocation" ELSE "method", IssuersKey(c, doc))
                       EXCEPT !.i = NextLink]
        /\ UNCHANGED world

(* The legacy credential is verified with its issuer's assertion keys only. *)
LegacySignature ==
    /\ v.phase = "legacy"
    /\ \E doc \in SUBSET Purposes :
          Resolves(leaf.issuer, doc) /\ v' = Continue("legacy status", IssuersKey(leaf, doc))
    /\ UNCHANGED world

(* The DID whose document the present phase needs.                          *)
Lookups == {"proof", "method", "document", "legacy"}
Needed == CASE v.phase = "proof" -> presentation.proof.did
            [] v.phase = "method" -> chain[v.i].signer
            [] v.phase \in {"document", "legacy"} -> chain[v.i].issuer

AskNeeded == v.phase \in Lookups /\ Ask(This, Needed)

(* A fetch that fails or times out fails the verification: fail closed.     *)
ResolutionFails ==
    /\ fetch[This] # None /\ fetch' = [fetch EXCEPT ![This] = None]
    /\ v' = Continue("rejected", FALSE)
    /\ UNCHANGED <<world, cache, slowest>>

(* What the status lists may answer: fresh and true, or stale and anything. *)
StatusAnswers(i) ==
    {[revoked |-> i \in revoked, fresh |-> TRUE]} \cup [revoked : BOOLEAN, fresh : {FALSE}]

StatusPasses(answer) ==
    ~answer.revoked /\ (policy.fresh => answer.fresh)

(* The preflight asks for every credential that carries a status, root      *)
(* first; one without a status makes the chain not fresh.                   *)

\* Mutant: the loop ends with the first credential.
StopsAtFirst == "decide"

AfterStatus == IF v.i = Len(chain) THEN "decide" ELSE "revocation"

CheckRevocation ==
    /\ v.phase = "revocation"
    /\ \/ /\ ~chain[v.i].status
          /\ v' = [v EXCEPT !.phase = AfterStatus, !.i = v.i + 1, !.fresh = FALSE]
       \/ /\ chain[v.i].status
          /\ \E answer \in StatusAnswers(v.i) :
                v' = [Continue(AfterStatus, StatusPasses(answer))
                      EXCEPT !.i = v.i + 1, !.fresh = v.fresh /\ answer.fresh]
    /\ UNCHANGED <<world, resolver>>

(* A stale answer fails a legacy credential under either policy; it counts  *)
(* as fresh only if it has a status.                                        *)
LegacyRevocation ==
    /\ v.phase = "legacy status"
    /\ \/ ~leaf.status /\ v' = Continue("decide", TRUE)
       \/ /\ leaf.status
          /\ \E answer \in StatusAnswers(1) :
                v' = [Continue("decide", answer.fresh /\ ~answer.revoked) EXCEPT !.fresh = answer.fresh]
    /\ UNCHANGED <<world, resolver>>

------------------------------------------------------------------------------
(* The decision.  First what both profiles ask of identities and terms.     *)
Method(d) == IF d \in WebDids THEN "did:web" ELSE "did:key"
AcceptedDid(d) == Method(d) \in policy.methods
Assured == policy.assurance = "L3" => presentation.proof.assurance = "L3"
responsible == chain[1].issuer

(* evaluateDelegationChain: continuity, depth, validity at the instant the  *)
(* verification began, and each credential narrower than its parent.        *)
Narrows(parent, child) ==
    /\ child.issuer = parent.invoker
    /\ child.target = parent.target
    /\ child.transfer => parent.transfer
    /\ child.until <= parent.until
    /\ parent.cap # None =>
          child.cap # None /\ child.cap <= parent.cap /\ child.currency = parent.currency

ChainEvaluates ==
    /\ Len(chain) <= policy.depth
    /\ \A i \in 1..Len(chain) : chain[i].from <= v.at /\ v.at < chain[i].until
    /\ \A i \in 2..Len(chain) : Narrows(chain[i - 1], chain[i])

DelegationVerified ==
    /\ ChainEvaluates
    /\ policy.fresh => v.fresh
    /\ leaf.invoker = presentation.proof.did

(* The Entity Card is the agent's, names the responsible party and attests  *)
(* the principal.                                                           *)
CardVerifies(card) ==
    card.agent = presentation.proof.did /\ card.responsible = responsible /\ card.attested

(* The principal of the card, where policy asks for it.                     *)
CardPrincipal ==
    LET card == presentation.card
    IN  IF card # None /\ CardVerifies(card) THEN card.principal ELSE None

PrincipalJoined ==
    IF policy.source = "responsible_party" THEN action.principal = responsible
    ELSE CardPrincipal # None /\ AcceptedDid(CardPrincipal) /\ action.principal = CardPrincipal

(* The leaf's first MaxAmount caveat, of which a credential here has at     *)
(* most one; a leaf without one has no currency either.                     *)
maxAmount == leaf.cap
leafCurrency == IF leaf.cap = None THEN None ELSE leaf.currency

PayeeJoined ==
    action.payee = presentation.request.payee \/ <<action.payee, presentation.request.payee>> \in policy.payees

ResourceJoined ==
    /\ Mapped(policy.resources, action.resource) = presentation.request.resource
    /\ presentation.request.resource = leaf.target

\* Mutant: the currency table is not asked for the asset being paid.
LeafCurrencyOnly == presentation.request.currency = leafCurrency

CurrencyJoined ==
    /\ Mapped(policy.currencies, action.asset) = presentation.request.currency
    /\ presentation.request.currency = leafCurrency

WithinMaxAmount == maxAmount # None => action.amount <= maxAmount

FinancialJoin ==
    /\ action.agent = presentation.proof.did
    /\ leaf.transfer
    /\ action.amount = presentation.request.amount
    /\ PayeeJoined
    /\ ResourceJoined
    /\ policy.requireMax => maxAmount # None
    /\ CurrencyJoined
    /\ WithinMaxAmount

ModernAccepts ==
    /\ DelegationVerified
    /\ AcceptedDid(presentation.proof.did) /\ AcceptedDid(responsible)
    /\ responsible \in policy.responsible
    /\ Assured
    /\ PrincipalJoined
    /\ FinancialJoin

(* The legacy adapter's checks of the signed constraints: no payee table,   *)
(* a currency even without a cap, and its own validity window.              *)
LegacyAudience == leaf.audience = case.expected

LegacyIdentities ==
    /\ leaf.invoker = presentation.proof.did
    /\ LegacyAudience
    /\ leaf.transfer
    /\ AcceptedDid(presentation.proof.did) /\ AcceptedDid(responsible)
    /\ responsible \in policy.responsible
    /\ Assured
    /\ action.agent = presentation.proof.did /\ action.principal = responsible

LegacyTerms ==
    /\ policy.requireMax => maxAmount # None
    /\ action.amount = presentation.request.amount /\ action.payee = presentation.request.payee
    /\ ResourceJoined
    /\ Mapped(policy.currencies, action.asset) = presentation.request.currency
    /\ leaf.currency = presentation.request.currency
    /\ WithinMaxAmount

LegacyInWindow ==
    leaf.from <= v.at /\ v.at < leaf.until /\ v.at < presentation.proof.expires

LegacyAccepts ==
    /\ policy.fresh => v.fresh
    /\ LegacyIdentities /\ LegacyTerms /\ LegacyInWindow

(* Each profile's verifier returns the verified binding, or throws.         *)
Decide ==
    /\ v.phase = "decide" /\ modern
    /\ v' = Continue("accepted", ModernAccepts)
    /\ UNCHANGED <<world, resolver>>

LegacyDecide ==
    /\ v.phase = "decide" /\ ~modern
    /\ v' = Continue("accepted", LegacyAccepts)
    /\ UNCHANGED <<world, resolver>>

------------------------------------------------------------------------------
(* The environment: an issuer takes its key out of assertionMethod and      *)
(* perhaps out of its document, a credential is revoked, time passes.       *)
DropKey(d, left) ==
    /\ d \in WebDids /\ dropped[d] = None
    /\ docs' = [docs EXCEPT ![d] = left]
    /\ dropped' = [dropped EXCEPT ![d] = now]
    /\ UNCHANGED <<case, now, resolver, revoked, v>>

Revoke(i) ==
    /\ chain[i].status /\ i \notin revoked
    /\ revoked' = revoked \cup {i}
    /\ UNCHANGED <<case, now, docs, dropped, resolver, v>>

Tick ==
    /\ now < MaxTime[case]
    /\ now' = now + 1
    /\ UNCHANGED <<case, docs, dropped, resolver, revoked, v>>

Next ==
    \/ Start \/ VerifyProof \/ ResolveMethod \/ VerifySignature \/ AskNeeded \/ ResolutionFails
    \/ CheckRevocation \/ LegacySignature \/ LegacyRevocation \/ Decide \/ LegacyDecide \/ Tick
    \/ \E f \in Others \cup {This} : Answer(f)
    \/ \E f \in Others : OtherAsks(f) \/ OtherArrives(f) \/ OtherFails(f)
    \/ \E d \in Dids, left \in {{}, {"authentication"}} : DropKey(d, left)
    \/ \E i \in 1..Len(chain) : Revoke(i)

Spec == Init /\ [][Next]_vars

------------------------------------------------------------------------------
accepted == v.phase = "accepted"

(* Documents, cache entries and the verification keep their types; while a  *)
(* loop over the chain runs, its index points into the chain.               *)
TypeOK ==
    /\ now \in Nat
    /\ docs \in [Dids -> SUBSET Purposes]
    /\ dropped \in [Dids -> Nat \cup {None}]
    /\ cache \in [Dids -> Entry \cup {None}]
    /\ fetch \in [Others \cup {This} -> Fetch \cup {None}] /\ slowest \in Nat
    /\ revoked \subseteq 1..Len(chain)
    /\ v \in [phase : Phases, at : Nat, i : Nat, fresh : BOOLEAN, lost : SUBSET (1..Len(chain)), runs : Nat]
    /\ v.phase \in {"method", "document", "revocation"} => v.i \in 1..Len(chain)

(* An accepted payment lies inside every credential of its chain, not only  *)
(* the leaf the code reads: the root was issued by an allow-listed          *)
(* responsible party who is the principal (or whose card names it), it runs *)
(* to the agent of the action without a gap, every signature is its         *)
(* issuer's, and the payment's own resource, asset and amount are within    *)
(* what each link grants.  (docs/KYA_OS_SECURITY.md:15-18)                  *)
AuthorityWithinDelegation ==
    accepted =>
        /\ responsible \in policy.responsible
        /\ policy.source = "responsible_party" => action.principal = responsible
        /\ policy.source = "card_principal" => action.principal = presentation.card.principal
        /\ action.agent = leaf.invoker
        /\ \A i \in 1..Len(chain) :
              LET c == chain[i]
              IN  /\ c.signer = c.issuer /\ c.transfer
                  /\ i > 1 => c.issuer = chain[i - 1].invoker
                  /\ c.target = Mapped(policy.resources, action.resource)
                  /\ c.cap # None => /\ c.currency = Mapped(policy.currencies, action.asset)
                                     /\ action.amount <= c.cap

(* Under require_fresh_revocation, authority any part of which was revoked  *)
(* when its verification began is not accepted, however the look-ups        *)
(* interleave with revocations.  (KYA_OS_SECURITY.md:16, "Revoked           *)
(* ancestor")                                                               *)
RevokedBeforeIsRejected ==
    accepted /\ policy.fresh => v.lost = {}

(* A key its issuer withdrew is trusted for less than the cache lifetime    *)
(* and the time the slowest fetch took, for its answer may be of before the *)
(* withdrawal and the lifetime runs from its arrival: authority accepted in *)
(* a verification that began later does not rest on the key, whatever other *)
(* fetches overwrite.  Without a cache it is not accepted in any that began *)
(* after the withdrawal.  (did-resolver.ts:121-123, 130-147)                *)
WithdrawnKeyExpires ==
    accepted => \A i \in 1..Len(chain) :
        LET withdrawn == dropped[chain[i].issuer]
        IN  withdrawn # None => v.at < withdrawn + (IF CacheTtl = 0 THEN 1 ELSE CacheTtl + slowest)
==============================================================================
