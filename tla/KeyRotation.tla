---------------------------- MODULE KeyRotation -----------------------------
(***************************************************************************)
(* The rotation of the Decision Envelope signing key: API replicas that    *)
(* issue decisions, the signing broker, the operator who follows           *)
(* docs/KEY_ROTATION.md, and the registry verifiers read.                  *)
(*                                                                         *)
(* A replica reads issued_at, then awaits the broker; replicas restart one *)
(* by one, a restart drains the call in flight, and the operator may       *)
(* configure any key with any pinned public key - what stops a wrong       *)
(* configuration is the check at startup.  The broker may answer with the  *)
(* signature of another key it holds.                                      *)
(*                                                                         *)
(* External: the operator and the broker.  The operator's guards are the   *)
(* runbook's: a new key is published before its cutover, the old one is    *)
(* retired once a canary of the new one verifies, with not_after at the    *)
(* cutover, and disabled after that.                                       *)
(*                                                                         *)
(* Abstractions: a key stands for its public key and fingerprint; an       *)
(* envelope is not tampered with, so its fingerprint always matches and a  *)
(* signature is the key that made it.  All keys are Ed25519.               *)
(***************************************************************************)
EXTENDS Integers, FiniteSets

CONSTANTS
    Keys,
    FirstKey,       \* the key in use at the start
    Replicas,       \* API processes
    MaxTime,        \* bound on the clock
    MaxDecisions,   \* bound on decisions issued
    None

ASSUME KeysAssumption == FirstKey \in Keys /\ None \notin Keys

ASSUME BoundsAssumption == MaxTime \in Nat /\ MaxDecisions \in Nat

Times == 0..MaxTime

VARIABLES
    now,
    registry,   \* the published key registry
    custody,    \* the keys the broker signs with
    replica,    \* the signing key each running process is configured with
    call,       \* the decision each replica is signing
    decisions   \* issued decisions; `began` is history, when the call began

vars == <<now, registry, custody, replica, call, decisions>>

Entry == [status : {"active", "retired", "revoked"},
          not_before : Times, not_after : Times \cup {None}]

(* A signing provider: the key id it asks for and the public key it pins.  *)
Signer == [id : Keys, pinned : Keys]

Signing == [signer : Signer, issued_at : Times, began : Times]

Decision == [key_id : Keys, signature : Keys, issued_at : Times, began : Times]

ASSUME NoneAssumption == None \notin Times \cup Entry \cup Signer \cup Signing

TypeOK ==
    /\ now \in Times
    /\ registry \in [Keys -> Entry \cup {None}]
    /\ custody \subseteq Keys
    /\ replica \in [Replicas -> Signer \cup {None}]
    /\ call \in [Replicas -> Signing \cup {None}]
    /\ decisions \subseteq Decision

Init ==
    /\ now = 0
    /\ registry = [k \in Keys |-> IF k = FirstKey
           THEN [status |-> "active", not_before |-> 0, not_after |-> None] ELSE None]
    /\ custody = Keys
    /\ replica = [r \in Replicas |-> [id |-> FirstKey, pinned |-> FirstKey]]
    /\ call = [r \in Replicas |-> None]
    /\ decisions = {}

-----------------------------------------------------------------------------
(* Verification                                                            *)

(* Mutant: a key is not usable at the first instant of its window. *)
OpenWindow(entry, at) ==
    /\ entry.not_before < at
    /\ entry.not_after # None => at < entry.not_after

(* not_before is included, not_after is not.                               *)
InWindow(entry, at) ==
    /\ entry.not_before <= at
    /\ entry.not_after # None => at < entry.not_after

(* A retired key still verifies, a revoked one does not.                   *)
FindUsableKey(d) ==
    LET entry == registry[d.key_id] IN
    /\ entry # None /\ entry.status # "revoked"
    /\ InWindow(entry, d.issued_at)

VerifySignedDecision(d) == FindUsableKey(d) /\ d.signature = d.key_id

-----------------------------------------------------------------------------
(* Startup                                                                 *)

(* assertRotationRegistry                                                  *)
RotationRegistry(reg) ==
    /\ \E k \in Keys : reg[k] # None /\ reg[k].status = "active"
    /\ \A k \in Keys : reg[k] # None =>
        /\ reg[k].status = "retired" => reg[k].not_after # None
        /\ reg[k].not_after # None => reg[k].not_before < reg[k].not_after

(* Mutant: the validity window is not looked at. *)
AnyTime(s) == registry[s.id] # None /\ registry[s.id].status = "active" /\ s.pinned = s.id

(* Mutant: the pinned public key is not compared with the registry's. *)
AnyPin(s) ==
    /\ registry[s.id] # None /\ registry[s.id].status = "active"
    /\ InWindow(registry[s.id], now)

(* assertSigningProviderRegistered                                         *)
Registered(s) ==
    /\ registry[s.id] # None /\ registry[s.id].status = "active"
    /\ InWindow(registry[s.id], now)
    /\ s.pinned = s.id

(* A process stops and a new one starts with the configured signer; it     *)
(* listens only if the registry file passes both assertions.               *)
Restart(r, s) ==
    /\ replica' = [replica EXCEPT ![r] =
           IF RotationRegistry(registry) /\ Registered(s) THEN s ELSE None]
    /\ UNCHANGED <<now, registry, custody, call, decisions>>

-----------------------------------------------------------------------------
(* Issuing                                                                 *)

(* createSignedDecision reads the clock.                                   *)
Issue(r) ==
    /\ replica[r] # None /\ call[r] = None
    /\ call' = [call EXCEPT ![r] = [signer |-> replica[r], issued_at |-> now, began |-> now]]
    /\ UNCHANGED <<now, registry, custody, replica, decisions>>

(* Mutant: issued_at is the instant the signature returned. *)
StampedLast(c, m) ==
    [key_id |-> c.signer.id, signature |-> m, issued_at |-> now, began |-> c.began]

(* attachDecisionSignature: the envelope the signature covers.             *)
SignedEnvelope(c, m) ==
    [key_id |-> c.signer.id, signature |-> m, issued_at |-> c.issued_at, began |-> c.began]

(* Mutant: the signature the broker returned is not verified. *)
AnySignature(s, m) == TRUE

(* RemoteEd25519SigningProvider.sign verifies what it got against the      *)
(* pinned public key.                                                      *)
SignatureVerifies(s, m) == m = s.pinned

(* The broker signs with a key it holds; a wrong signature is an error.    *)
Sign(r) ==
    /\ call[r] # None
    /\ Cardinality(decisions) < MaxDecisions
    /\ \E m \in custody :
        decisions' = IF SignatureVerifies(call[r].signer, m)
                     THEN decisions \cup {SignedEnvelope(call[r], m)} ELSE decisions
    /\ call' = [call EXCEPT ![r] = None]
    /\ UNCHANGED <<now, registry, custody, replica>>

(* The broker refuses, times out, or the draining process is killed.       *)
SigningFails(r) ==
    /\ call[r] # None
    /\ call' = [call EXCEPT ![r] = None]
    /\ UNCHANGED <<now, registry, custody, replica, decisions>>

-----------------------------------------------------------------------------
(* The operator                                                            *)

Active(k) == registry[k] # None /\ registry[k].status = "active"

(* Steps 1-4: the next key is published before its cutover, while no other *)
(* rotation is under way.                                                  *)
Publish(k, cutover) ==
    /\ registry[k] = None
    /\ now <= cutover
    /\ Cardinality({j \in Keys : Active(j)}) <= 1
    /\ \A j \in Keys : Active(j) => registry[j].not_before < cutover
    /\ registry' = [registry EXCEPT ![k] =
           [status |-> "active", not_before |-> cutover, not_after |-> None]]
    /\ UNCHANGED <<now, custody, replica, call, decisions>>

(* Mutant: the old key is retired as soon as the new one is published. *)
NoCanary(new) == TRUE

(* Step 7: a decision of the new key is issued and verified.               *)
CanaryVerified(new) == \E d \in decisions : d.key_id = new /\ VerifySignedDecision(d)

(* Mutant: the old key is valid to the moment of its retirement and its    *)
(* entry is stamped with that.                                             *)
RetiredLate(old, new) ==
    [registry EXCEPT ![old].status = "retired", ![old].not_after = now]

(* Mutant: not_after is the last valid instant, one off. *)
RetiredAfter(old, new) ==
    [registry EXCEPT ![old].status = "retired", ![old].not_after = registry[new].not_before + 1]

(* Step 8: "Mark the old registry entry retired and set not_after to the   *)
(* exact cutover time."                                                    *)
Retired(old, new) ==
    [registry EXCEPT ![old].status = "retired", ![old].not_after = registry[new].not_before]

Retire(old, new) ==
    /\ Active(old) /\ Active(new) /\ registry[old].not_before < registry[new].not_before
    /\ CanaryVerified(new)
    /\ registry' = Retired(old, new)
    /\ UNCHANGED <<now, custody, replica, call, decisions>>

(* The compromise procedure.                                               *)
Revoke(k) ==
    /\ registry[k] # None
    /\ registry' = [registry EXCEPT ![k].status = "revoked"]
    /\ UNCHANGED <<now, custody, replica, call, decisions>>

(* Step 10: the broker no longer signs with a retired or revoked key.      *)
Disable(k) ==
    /\ registry[k] # None /\ ~Active(k)
    /\ custody' = custody \ {k}
    /\ UNCHANGED <<now, registry, replica, call, decisions>>

Tick ==
    /\ now < MaxTime
    /\ now' = now + 1
    /\ UNCHANGED <<registry, custody, replica, call, decisions>>

Next ==
    \/ \E r \in Replicas :
        \/ Issue(r) \/ Sign(r) \/ SigningFails(r)
        \/ \E s \in Signer : Restart(r, s)
    \/ \E k \in Keys :
        \/ Revoke(k) \/ Disable(k)
        \/ \E t \in Times : Publish(k, t)
        \/ \E new \in Keys : Retire(k, new)
    \/ Tick

Spec == Init /\ [][Next]_vars

-----------------------------------------------------------------------------
(* Every decision ever issued verifies against the published registry,     *)
(* through rotations, rollbacks, wrong configurations and a broker that    *)
(* answers with another key - except where the runbook means it not to:    *)
(* its key was revoked, or a process still using the old key began it at   *)
(* or after the cutover.  A call in flight across the cutover is not lost. *)
(* (docs/KEY_ROTATION.md steps 8-10, THREAT_MODEL.md on key rotation)      *)
IssuedDecisionsVerify ==
    \A d \in decisions :
        \/ VerifySignedDecision(d)
        \/ registry[d.key_id].status = "revoked"
        \/ registry[d.key_id].status = "retired" /\ registry[d.key_id].not_after <= d.began

(* A rotation never leaves the API without a key it could be restarted     *)
(* with: some key is active, in its window, held by the broker, and the    *)
(* registry passes the startup check - until a key is revoked.             *)
(* (docs/KEY_ROTATION.md steps 5-6 and "Rollback")                         *)
SomeKeyCanIssue ==
    (\A k \in Keys : registry[k] # None => registry[k].status # "revoked") =>
        /\ RotationRegistry(registry)
        /\ \E k \in custody : Registered([id |-> k, pinned |-> k])

(* What a rotation is for: two decisions issued at the same instant that   *)
(* both verify are of one key, except while a rotation is under way.       *)
(* (docs/KEY_ROTATION.md step 8: not_after is the exact cutover time)      *)
OneKeyPerInstant ==
    \A d, e \in decisions :
        (/\ d.issued_at = e.issued_at /\ d.key_id # e.key_id
         /\ VerifySignedDecision(d) /\ VerifySignedDecision(e))
            => Active(d.key_id) /\ Active(e.key_id)
=============================================================================
