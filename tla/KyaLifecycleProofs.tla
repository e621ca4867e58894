------------------------- MODULE KyaLifecycleProofs -------------------------
(***************************************************************************)
(* Theorems about KyaLifecycle, for any number of requests, proofs, agents *)
(* and decisions, any instants, any tolerance, retention and latency: its  *)
(* type correctness and its safety invariants, from one inductive          *)
(* invariant.                                                              *)
(***************************************************************************)
EXTENDS KyaLifecycle, TLAPS

Verifying == {"proof", "keys", "nonce", "delegation", "append"}
Plain == {"plainApprove", "plainConsume"}

(* The row is stored with the authority it was issued under.               *)
Recognised(d) == d \in Decisions /\ decision[d] # None /\ authority[d] = decision[d].agent

(* What a request on a KYA route has established: that the decision it     *)
(* names is protected, and before the provider that its authority was      *)
(* verified, for a consumption in a stored revalidation.                   *)
KyaStageOK(c) ==
    /\ call[c].pc \in Verifying =>
           call[c].proof \in Proofs /\ call[c].route \in {"evaluate", "approve", "consume"}
    /\ call[c].pc \in Verifying \cup {"provider"} /\ call[c].route \in {"approve", "consume"} =>
           /\ call[c].proof \in Proofs
           /\ Recognised(call[c].decision) /\ authority[call[c].decision] # None
           /\ call[c].route = "consume" => call[c].ref \in ExecRefs
    /\ call[c].pc = "append" =>
           call[c].route = "consume" /\ Owner[call[c].proof] = authority[call[c].decision]
    /\ call[c].pc = "provider" /\ call[c].route = "approve" =>
           Owner[call[c].proof] = authority[call[c].decision]
    /\ call[c].pc = "provider" /\ call[c].route = "consume" =>
           \E v \in revalidation : Verifies(v, call[c].decision, call[c].ref)

(* The ordinary routes reach the provider with unbound decisions only, and *)
(* what is issued is answered once its record is stored.                   *)
PlainStageOK(c) ==
    /\ call[c].pc = "provider" /\ call[c].route = "evaluate" =>
           call[c].proof \in Proofs \/ (call[c].proof = None /\ mode = "optional")
    /\ call[c].pc = "provider" /\ call[c].route \in Plain =>
           /\ call[c].decision \in Decisions /\ decision[call[c].decision] # None
           /\ decision[call[c].decision].agent = None
           /\ call[c].route = "plainConsume" => call[c].ref \in ExecRefs
    /\ call[c].pc = "save" =>
           /\ call[c].decision \in Decisions /\ decision[call[c].decision] # None
           /\ decision[call[c].decision].agent # None
    /\ call[c].pc = "reply" => Recognised(call[c].decision)

(* A nonce on its way finds the row of a proof that was accepted, unless   *)
(* it was sent so late that the table refuses it.                          *)
StampOK(c) ==
    call[c].pc = "nonce" =>
        \A p \in Proofs : accepted[p] # 0 =>
            nonce[p] = NonceExpiry(p) \/ NonceExpiry(p) < call[c].at

(* The authority of a decision is that of the decision it supersedes, and  *)
(* only the optional mode issues decisions without one.                    *)
DecisionsOK ==
    /\ \A d \in Decisions : consumed[d] # None => decision[d] # None
    /\ \A d \in Decisions : decision[d] # None =>
           /\ decision[d].agent = None => mode = "optional"
           /\ decision[d].supersedes # None =>
               /\ decision[decision[d].supersedes] # None
               /\ decision[d].agent = decision[decision[d].supersedes].agent

AuthorityOK == \A d \in Decisions : authority[d] # None => Recognised(d)

(* A stored verification was made under the decision's own authority.      *)
RevalidationOK ==
    \A v \in revalidation : v.status = "verified" =>
        Recognised(v.decision) /\ v.agent = authority[v.decision]

KnownOK == \A d \in known : Recognised(d)

(* The nonce of an accepted proof is kept until the table refuses it.      *)
NonceOK ==
    \A p \in Proofs : accepted[p] # 0 =>
        accepted[p] = 1 /\ (nonce[p] = NonceExpiry(p) \/ NonceExpiry(p) < now)

IInv ==
    /\ TypeOK
    /\ \A c \in Callers : KyaStageOK(c)
    /\ \A c \in Callers : PlainStageOK(c)
    /\ \A c \in Callers : StampOK(c)
    /\ DecisionsOK
    /\ AuthorityOK
    /\ RevalidationOK
    /\ KnownOK
    /\ NonceOK
    /\ ConsumedUnderAuthority
-----------------------------------------------------------------------------
(* What every step keeps                                                   *)

(* Decisions, stored authority and revalidations are never taken back.     *)
Grows ==
    /\ mode' = mode
    /\ \A d \in Decisions : decision[d] # None => decision'[d] = decision[d]
    /\ \A d \in Decisions : Recognised(d) => authority'[d] = authority[d]
    /\ revalidation \subseteq revalidation'

LEMMA RecognisedKept ==
    ASSUME Grows, NEW d, Recognised(d)
    PROVE  Recognised(d)' /\ authority'[d] = authority[d] /\ decision'[d] = decision[d]
  BY DEF Recognised, Grows

LEMMA IdleInCall == BoundsAssumption => Idle \in Call
  BY DEF BoundsAssumption, Idle, Call

LEMMA IdleOK ==
    ASSUME NEW c \in Callers, call'[c] = Idle
    PROVE  KyaStageOK(c)' /\ PlainStageOK(c)' /\ StampOK(c)'
  BY DEF KyaStageOK, PlainStageOK, StampOK, Idle, Verifying

LEMMA KyaStageKept ==
    ASSUME NEW b \in Callers, KyaStageOK(b), call'[b] = call[b], Grows
    PROVE  KyaStageOK(b)'
  <1>1. Recognised(call[b].decision) =>
            Recognised(call[b].decision)' /\ authority'[call[b].decision] = authority[call[b].decision]
    BY RecognisedKept
  <1>2. call[b].pc = "append" => Recognised(call[b].decision)
    BY DEF KyaStageOK, Verifying
  <1>3. call[b].pc = "provider" /\ call[b].route = "consume" =>
            \E v \in revalidation' : Verifies(v, call[b].decision, call[b].ref)
    BY DEF KyaStageOK, Grows
  <1>4. call'[b].pc = call[b].pc /\ call'[b].route = call[b].route /\ call'[b].proof = call[b].proof
        /\ call'[b].decision = call[b].decision /\ call'[b].ref = call[b].ref
    OBVIOUS
  <1>5. call[b].pc = "append" => Owner[call[b].proof] = authority'[call[b].decision]
    BY <1>1, <1>2 DEF KyaStageOK
  <1>6. call[b].pc = "provider" /\ call[b].route = "approve" =>
            Owner[call[b].proof] = authority'[call[b].decision]
    BY <1>1 DEF KyaStageOK
  <1>7. call[b].pc \in Verifying \cup {"provider"} /\ call[b].route \in {"approve", "consume"} =>
            Recognised(call[b].decision)' /\ authority'[call[b].decision] # None
    BY <1>1 DEF KyaStageOK
  <1> QED
    BY <1>3, <1>4, <1>5, <1>6, <1>7 DEF KyaStageOK, Recognised, Verifies

LEMMA PlainStageKept ==
    ASSUME NEW b \in Callers, PlainStageOK(b), call'[b] = call[b], Grows
    PROVE  PlainStageOK(b)'
  <1>1. call'[b].pc = call[b].pc /\ call'[b].route = call[b].route /\ call'[b].proof = call[b].proof
        /\ call'[b].decision = call[b].decision /\ call'[b].ref = call[b].ref
    OBVIOUS
  <1>2. call[b].pc = "reply" =>
            /\ call[b].decision \in Decisions /\ decision'[call[b].decision] # None
            /\ authority'[call[b].decision] = decision'[call[b].decision].agent
    BY DEF PlainStageOK, Grows, Recognised
  <1>3. call[b].pc = "save" \/ (call[b].pc = "provider" /\ call[b].route \in Plain) =>
            call[b].decision \in Decisions /\ decision[call[b].decision] # None
            /\ decision'[call[b].decision] = decision[call[b].decision]
    BY DEF PlainStageOK, Grows
  <1>4. mode' = mode
    BY DEF Grows
  <1> QED
    BY <1>1, <1>2, <1>3, <1>4 DEF PlainStageOK, Recognised

(* A proof has its nonce stored, or nothing happens to it.                 *)
NoncesKept ==
    \A p \in Proofs :
        \/ nonce'[p] = NonceExpiry(p)
        \/ nonce'[p] = nonce[p] /\ accepted'[p] = accepted[p]

LEMMA StampKept ==
    ASSUME NEW b \in Callers, StampOK(b), call'[b] = call[b], NoncesKept
    PROVE  StampOK(b)'
  BY DEF StampOK, NoncesKept, NonceExpiry

(* The tables that no step of a request before the provider changes.       *)
LEMMA TablesKept ==
    ASSUME UNCHANGED <<mode, decision, consumed, authority>>
    PROVE  /\ DecisionsOK => DecisionsOK'
           /\ AuthorityOK => AuthorityOK'
           /\ \A d : Recognised(d) <=> Recognised(d)'
  BY DEF DecisionsOK, AuthorityOK, Recognised

(* The general step: a request moves on, and tables may grow.              *)
LEMMA TableStep ==
    ASSUME IInv, TypeOK', NEW c \in Callers, NEW x, call' = [call EXCEPT ![c] = x],
           KyaStageOK(c)', PlainStageOK(c)', StampOK(c)',
           Grows, NoncesKept,
           DecisionsOK', AuthorityOK', RevalidationOK', KnownOK', NonceOK', ConsumedUnderAuthority'
    PROVE  IInv'
  <1>1. \A b \in Callers \ {c} : call'[b] = call[b]
    BY DEF IInv, TypeOK
  <1>2. \A b \in Callers : KyaStageOK(b)'
    BY <1>1, KyaStageKept DEF IInv
  <1>3. \A b \in Callers : PlainStageOK(b)'
    BY <1>1, PlainStageKept DEF IInv
  <1>4. \A b \in Callers : StampOK(b)'
    BY <1>1, StampKept DEF IInv
  <1> QED
    BY <1>2, <1>3, <1>4 DEF IInv

(* A request moves on, and nothing but revalidations may be added.         *)
LEMMA CallStep ==
    ASSUME IInv, TypeOK', NEW c \in Callers, NEW x, call' = [call EXCEPT ![c] = x],
           KyaStageOK(c)', PlainStageOK(c)', StampOK(c)',
           UNCHANGED <<mode, now, nonce, accepted, decision, consumed, authority, known>>,
           revalidation \subseteq revalidation', RevalidationOK'
    PROVE  IInv'
  <1>1. Grows
    BY DEF Grows
  <1>2. DecisionsOK' /\ AuthorityOK' /\ KnownOK'
    BY TablesKept DEF IInv, KnownOK
  <1>3. NonceOK'
    BY DEF IInv, NonceOK, NonceExpiry
  <1>4. ConsumedUnderAuthority'
    BY DEF IInv, ConsumedUnderAuthority
  <1> QED
    BY <1>1, <1>2, <1>3, <1>4, TableStep DEF NoncesKept

(* A request that ends, with a rejection recorded or not.                  *)
LEMMA RejectedKeeps ==
    ASSUME IInv, NEW c \in Callers, call[c].pc \in Verifying, Rejected(c),
           UNCHANGED <<mode, now, nonce, accepted, revoked, decision, resolved, consumed,
                       authority, known, requests, failures>>
    PROVE  IInv'
  <1>1. call' = [call EXCEPT ![c] = Idle] /\ call'[c] = Idle
    BY DEF Rejected, Return, IInv, TypeOK
  <1>2. KyaStageOK(c)' /\ PlainStageOK(c)' /\ StampOK(c)'
    BY <1>1, IdleOK
  <1>3. CASE UNCHANGED revalidation
    <2>1. TypeOK'
      BY <1>1, <1>3, IdleInCall, BoundsAssumption DEF IInv, TypeOK
    <2>2. RevalidationOK'
      BY <1>3, TablesKept DEF IInv, RevalidationOK
    <2> QED
      BY <1>1, <1>2, <1>3, <2>1, <2>2, CallStep
  <1>4. CASE call[c].route = "consume" /\ Append(c, "rejected")
    <2> DEFINE v == [decision |-> call[c].decision, ref |-> call[c].ref,
                     agent |-> Owner[call[c].proof], status |-> "rejected"]
    <2>1. v \in Revalidation
      BY <1>4, OwnerAssumption DEF IInv, KyaStageOK, Recognised, Revalidation
    <2>2. revalidation' = revalidation \cup {v} /\ v.status # "verified"
      BY <1>4 DEF Append
    <2> HIDE DEF v
    <2>3. TypeOK'
      BY <1>1, <2>1, <2>2, IdleInCall, BoundsAssumption DEF IInv, TypeOK
    <2>4. RevalidationOK'
      BY <2>2, TablesKept DEF IInv, RevalidationOK
    <2> QED
      BY <1>1, <1>2, <2>2, <2>3, <2>4, CallStep
  <1> QED
    BY <1>3, <1>4 DEF Rejected

LEMMA ReturnKeeps ==
    ASSUME IInv, NEW c \in Callers, Return(c), failures' \in 0..MaxFailures,
           UNCHANGED <<mode, now, nonce, accepted, revoked, decision, resolved, consumed,
                       authority, revalidation, known, requests>>
    PROVE  IInv'
  <1>1. call' = [call EXCEPT ![c] = Idle] /\ call'[c] = Idle
    BY DEF Return, IInv, TypeOK
  <1>2. KyaStageOK(c)' /\ PlainStageOK(c)' /\ StampOK(c)'
    BY <1>1, IdleOK
  <1>3. TypeOK'
    BY <1>1, IdleInCall, BoundsAssumption DEF IInv, TypeOK
  <1>4. RevalidationOK'
    BY TablesKept DEF IInv, RevalidationOK
  <1> QED
    BY <1>1, <1>2, <1>3, <1>4, CallStep

-----------------------------------------------------------------------------
(* The routes                                                              *)

(* What a request begins with.                                             *)
LEMMA StartKeeps ==
    ASSUME IInv, NEW c \in Callers, NEW pc \in {"proof", "provider"}, NEW route \in Routes,
           NEW d \in Decisions \cup {None}, NEW r \in ExecRefs \cup {None},
           NEW p \in Proofs \cup {None}, Start(c, pc, route, d, r, p),
           pc = "proof" => p \in Proofs /\ route \in {"evaluate", "approve", "consume"},
           route = "evaluate" => p \in Proofs \/ mode = "optional",
           route \in {"approve", "consume"} =>
               p \in Proofs /\ Recognised(d) /\ authority[d] # None,
           route = "approve" => pc = "proof",
           route = "consume" /\ pc = "provider" => AlreadyVerified(d, r),
           route \in {"consume", "plainConsume"} => r \in ExecRefs,
           route \in Plain => d \in Decisions /\ decision[d] # None /\ decision[d].agent = None,
           UNCHANGED <<proofs, provider, records, service, known>>
    PROVE  IInv'
  <1> DEFINE x == [Idle EXCEPT !.pc = pc, !.route = route, !.decision = d, !.ref = r, !.proof = p]
  <1>1. x \in Call
    BY BoundsAssumption DEF BoundsAssumption, Idle, Call
  <1>2. call' = [call EXCEPT ![c] = x] /\ call'[c] = x
    BY DEF Start, IInv, TypeOK
  <1>3. x.pc = pc /\ x.route = route /\ x.decision = d /\ x.ref = r /\ x.proof = p
    BY DEF Idle
  <1> HIDE DEF x
  <1>4. UNCHANGED <<mode, now, nonce, accepted, revoked, decision, resolved, consumed,
                    authority, revalidation, known, failures>>
    BY DEF proofs, provider, records, service
  <1>5. requests' \in 0..MaxRequests
    BY BoundsAssumption DEF BoundsAssumption, Start, IInv, TypeOK
  <1>6. TypeOK'
    BY <1>1, <1>2, <1>4, <1>5 DEF IInv, TypeOK
  <1>7. KyaStageOK(c)'
    BY <1>2, <1>3, <1>4, TablesKept DEF KyaStageOK, AlreadyVerified, Recognised, Verifies, Verifying
  <1>8. PlainStageOK(c)' /\ StampOK(c)'
    BY <1>2, <1>3, <1>4 DEF PlainStageOK, StampOK, Plain
  <1>9. RevalidationOK'
    BY <1>4, TablesKept DEF IInv, RevalidationOK
  <1> QED
    BY <1>2, <1>4, <1>6, <1>7, <1>8, <1>9, CallStep

LEMMA RouteKeeps == ASSUME IInv, NEW c \in Callers, Route(c) PROVE IInv'
  <1>1. {"evaluate", "approve", "consume", "plainApprove", "plainConsume"} \subseteq Routes
    BY DEF Routes
  <1>2. \A d \in known : d \in Decisions /\ Recognised(d)
    BY DEF IInv, TypeOK, KnownOK
  <1>3. CASE PlainEvaluate(c)
    <2>1. mode = "optional"
      BY <1>3 DEF PlainEvaluate, IInv, TypeOK
    <2> QED
      BY <1>1, <1>3, <2>1, StartKeeps, NoneAssumption DEF PlainEvaluate, Plain
  <1>4. ASSUME NEW p \in Proofs, KyaEvaluate(c, p) PROVE IInv'
    BY <1>1, <1>4, StartKeeps, NoneAssumption DEF KyaEvaluate, Plain
  <1>5. ASSUME NEW d \in Decisions, PlainApprove(c, d) PROVE IInv'
    <2>1. decision[d] # None /\ decision[d].agent = None
      BY <1>2, <1>5 DEF PlainApprove, IsProtected, Recorded, Recognised
    <2> QED
      BY <1>1, <1>5, <2>1, StartKeeps, NoneAssumption DEF PlainApprove, Plain
  <1>6. ASSUME NEW d \in Decisions, NEW r \in ExecRefs, PlainConsume(c, d, r) PROVE IInv'
    <2>1. decision[d] # None /\ decision[d].agent = None
      BY <1>2, <1>6 DEF PlainConsume, IsProtected, Recorded, Recognised
    <2> QED
      BY <1>1, <1>6, <2>1, StartKeeps, NoneAssumption DEF PlainConsume, Plain
  <1>7. ASSUME NEW d \in Decisions, NEW p \in Proofs, KyaApprove(c, d, p) PROVE IInv'
    BY <1>1, <1>2, <1>7, StartKeeps, NoneAssumption DEF KyaApprove, Recorded, Plain
  <1>8. ASSUME NEW d \in Decisions, NEW r \in ExecRefs, NEW p \in Proofs, KyaConsume(c, d, r, p)
        PROVE  IInv'
    <2>1. CASE AlreadyVerified(d, r)
      BY <1>1, <1>2, <1>8, <2>1, StartKeeps DEF KyaConsume, Recorded, Plain
    <2>2. CASE ~AlreadyVerified(d, r)
      BY <1>1, <1>2, <1>8, <2>2, StartKeeps DEF KyaConsume, Recorded, Plain
    <2> QED
      BY <2>1, <2>2
  <1> QED
    BY <1>3, <1>4, <1>5, <1>6, <1>7, <1>8 DEF Route
-----------------------------------------------------------------------------
(* The gate                                                                *)

LEMMA CheckProofKeeps == ASSUME IInv, NEW c \in Callers, CheckProof(c) PROVE IInv'
  <1>1. call[c].pc = "proof" /\ call[c].pc \in Verifying /\ call[c] \in Call
    BY DEF CheckProof, At, Verifying, IInv, TypeOK
  <1>2. UNCHANGED <<mode, now, nonce, accepted, revoked, decision, resolved, consumed,
                    authority, known, requests, failures>>
    BY DEF CheckProof, proofs, provider, world
  <1>3. CASE Rejected(c)
    BY <1>1, <1>2, <1>3, RejectedKeeps
  <1>4. CASE Goto(c, "keys") /\ UNCHANGED revalidation
    <2> DEFINE x == [call[c] EXCEPT !.pc = "keys"]
    <2>1. x \in Call /\ call' = [call EXCEPT ![c] = x] /\ call'[c] = x
      BY <1>1, <1>4 DEF Goto, Call, IInv, TypeOK
    <2>2. /\ x.pc = "keys" /\ x.route = call[c].route /\ x.proof = call[c].proof
          /\ x.decision = call[c].decision /\ x.ref = call[c].ref
      BY <1>1 DEF Call
    <2> HIDE DEF x
    <2>3. TypeOK'
      BY <1>2, <1>4, <2>1 DEF IInv, TypeOK
    <2>4. KyaStageOK(c)'
      BY <1>1, <1>2, <2>1, <2>2 DEF IInv, KyaStageOK, Verifying, Recognised
    <2>5. PlainStageOK(c)' /\ StampOK(c)'
      BY <2>1, <2>2 DEF PlainStageOK, StampOK
    <2>6. RevalidationOK'
      BY <1>2, <1>4, TablesKept DEF IInv, RevalidationOK
    <2> QED
      BY <1>2, <1>4, <2>1, <2>3, <2>4, <2>5, <2>6, CallStep
  <1> QED
    BY <1>3, <1>4 DEF CheckProof

LEMMA SendNonceKeeps == ASSUME IInv, NEW c \in Callers, SendNonce(c) PROVE IInv'
  <1>1. call[c].pc = "keys" /\ call[c].pc \in Verifying /\ call[c] \in Call
    BY DEF SendNonce, At, Verifying, IInv, TypeOK
  <1>2. UNCHANGED <<mode, now, nonce, accepted, revoked, decision, resolved, consumed,
                    authority, revalidation, known, requests, failures>>
    BY DEF SendNonce, proofs, provider, records, world
  <1> DEFINE x == [[call[c] EXCEPT !.pc = "nonce"] EXCEPT !.at = now]
  <1>3. x \in Call
    BY <1>1 DEF Call, IInv, TypeOK
  <1>4. call' = [call EXCEPT ![c] = x] /\ call'[c] = x
    BY DEF SendNonce, IInv, TypeOK
  <1>5. /\ x.pc = "nonce" /\ x.at = now /\ x.route = call[c].route /\ x.proof = call[c].proof
        /\ x.decision = call[c].decision /\ x.ref = call[c].ref
    BY <1>1 DEF Call
  <1> HIDE DEF x
  <1>6. TypeOK'
    BY <1>2, <1>3, <1>4 DEF IInv, TypeOK
  <1>7. KyaStageOK(c)'
    BY <1>1, <1>2, <1>4, <1>5 DEF IInv, KyaStageOK, Verifying, Recognised
  <1>8. PlainStageOK(c)'
    BY <1>4, <1>5 DEF PlainStageOK
  <1>9. StampOK(c)'
    BY <1>2, <1>4, <1>5 DEF IInv, NonceOK, NonceExpiry, StampOK
  <1>10. RevalidationOK'
    BY <1>2, TablesKept DEF IInv, RevalidationOK
  <1> QED
    BY <1>2, <1>4, <1>6, <1>7, <1>8, <1>9, <1>10, CallStep

LEMMA ConsumeNonceKeeps == ASSUME IInv, NEW c \in Callers, ConsumeNonce(c) PROVE IInv'
  <1>1. call[c].pc = "nonce" /\ call[c].pc \in Verifying /\ call[c] \in Call
    BY DEF ConsumeNonce, At, Verifying, IInv, TypeOK
  <1>2. UNCHANGED <<mode, now, revoked, decision, resolved, consumed, authority, known,
                    requests, failures>>
    BY DEF ConsumeNonce, provider, world
  <1>3. CASE Rejected(c) /\ UNCHANGED <<nonce, accepted>>
    BY <1>1, <1>2, <1>3, RejectedKeeps
  <1>4. ASSUME NEW p \in Proofs, p = call[c].proof, Inserts(p, call[c].at),
               nonce' = [nonce EXCEPT ![p] = NonceExpiry(p)],
               accepted' = [accepted EXCEPT ![p] = @ + 1],
               call' = [call EXCEPT ![c].pc = "delegation", ![c].at = 0],
               UNCHANGED revalidation
        PROVE  IInv'
    <2> DEFINE x == [[call[c] EXCEPT !.pc = "delegation"] EXCEPT !.at = 0]
    <2>1. x \in Call
      BY <1>1, BoundsAssumption DEF BoundsAssumption, Call
    <2>2. call' = [call EXCEPT ![c] = x] /\ call'[c] = x
      BY <1>4 DEF IInv, TypeOK
    <2>3. /\ x.pc = "delegation" /\ x.route = call[c].route /\ x.proof = call[c].proof
          /\ x.decision = call[c].decision /\ x.ref = call[c].ref
      BY <1>1 DEF Call
    <2> HIDE DEF x
    <2>4. /\ call[c].at \in Nat /\ nonce[p] \in Int /\ NonceExpiry(p) \in Nat
          /\ nonce[p] < call[c].at /\ call[c].at < NonceExpiry(p)
      BY <1>1, <1>4, BoundsAssumption DEF BoundsAssumption, IInv, TypeOK, Call, NonceExpiry, Inserts
    <2>5. accepted[p] # 0 => nonce[p] = NonceExpiry(p) \/ NonceExpiry(p) < call[c].at
      BY <1>1 DEF IInv, StampOK
    <2>6. accepted[p] = 0
      BY <2>4, <2>5
    <2>9. nonce'[p] = NonceExpiry(p) /\ accepted'[p] = 1
      BY <1>4, <2>6 DEF IInv, TypeOK
    <2>10. \A q \in Proofs \ {p} : nonce'[q] = nonce[q] /\ accepted'[q] = accepted[q]
      BY <1>4 DEF IInv, TypeOK
    <2>11. NonceOK'
      <3> SUFFICES ASSUME NEW q \in Proofs, accepted'[q] # 0
                   PROVE  accepted'[q] = 1 /\ (nonce'[q] = NonceExpiry(q) \/ NonceExpiry(q) < now)
        BY <1>2 DEF NonceOK, NonceExpiry
      <3>1. CASE q = p
        BY <2>9, <3>1
      <3>2. CASE q # p
        BY <2>10, <3>2 DEF IInv, NonceOK
      <3> QED
        BY <3>1, <3>2
    <2>12. TypeOK'
      <3>1. nonce' \in [Proofs -> Int] /\ accepted' \in [Proofs -> Nat]
        BY <1>4, <2>4 DEF IInv, TypeOK
      <3> QED
        BY <1>2, <1>4, <2>1, <2>2, <3>1 DEF IInv, TypeOK
    <2>13. KyaStageOK(c)'
      BY <1>1, <1>2, <2>2, <2>3 DEF IInv, KyaStageOK, Verifying, Recognised
    <2>14. PlainStageOK(c)' /\ StampOK(c)'
      BY <2>2, <2>3 DEF PlainStageOK, StampOK
    <2>15. RevalidationOK' /\ DecisionsOK' /\ AuthorityOK' /\ KnownOK'
      BY <1>2, <1>4, TablesKept DEF IInv, RevalidationOK, KnownOK
    <2>16. ConsumedUnderAuthority' /\ Grows
      BY <1>2, <1>4 DEF IInv, ConsumedUnderAuthority, Grows
    <2>17. NoncesKept
      BY <2>9, <2>10 DEF NoncesKept
    <2> QED
      BY <1>2, <2>2, <2>11, <2>12, <2>13, <2>14, <2>15, <2>16, <2>17, TableStep
  <1>5. call[c].proof \in Proofs
    BY <1>1 DEF IInv, KyaStageOK
  <1> QED
    BY <1>3, <1>4, <1>5 DEF ConsumeNonce

LEMMA VerifyDelegationKeeps == ASSUME IInv, NEW c \in Callers, VerifyDelegation(c) PROVE IInv'
  <1>1. /\ call[c].pc = "delegation" /\ call[c].pc \in Verifying /\ call[c] \in Call
        /\ KyaStageOK(c) /\ call[c].route \in {"evaluate", "approve", "consume"}
        /\ call[c].proof \in Proofs
    BY DEF VerifyDelegation, At, Verifying, IInv, TypeOK, KyaStageOK
  <1>2. UNCHANGED <<mode, now, nonce, accepted, revoked, decision, resolved, consumed,
                    authority, known, requests, failures>>
    BY DEF VerifyDelegation, proofs, provider, world
  <1>3. CASE Rejected(c)
    BY <1>1, <1>2, <1>3, RejectedKeeps
  <1>4. CASE ~Rejected(c)
    <2> DEFINE pc == IF call[c].route = "consume" THEN "append" ELSE "provider"
               x == [call[c] EXCEPT !.pc = pc]
    <2>1. /\ call' = [call EXCEPT ![c] = x] /\ UNCHANGED revalidation
          /\ call[c].decision # None => authority[call[c].decision] = Owner[call[c].proof]
      BY <1>4 DEF VerifyDelegation, Goto, SameAuthorityIdentity
    <2>2. x \in Call /\ call'[c] = x
      BY <1>1, <2>1 DEF Call, IInv, TypeOK
    <2>3. /\ x.pc = pc /\ x.route = call[c].route /\ x.proof = call[c].proof
          /\ x.decision = call[c].decision /\ x.ref = call[c].ref
      BY <1>1 DEF Call
    <2> HIDE DEF x
    <2>4. TypeOK'
      BY <1>2, <2>1, <2>2 DEF IInv, TypeOK
    <2>5. /\ call'[c].pc = (IF call[c].route = "consume" THEN "append" ELSE "provider")
          /\ call'[c].route = call[c].route /\ call'[c].proof = call[c].proof
          /\ call'[c].decision = call[c].decision /\ call'[c].ref = call[c].ref
      BY <2>2, <2>3
    <2>6. call[c].route \in {"approve", "consume"} =>
              authority[call[c].decision] = Owner[call[c].proof]
      BY <1>1, <2>1, NoneAssumption DEF KyaStageOK, Recognised
    <2>7. KyaStageOK(c)'
      BY <1>1, <1>2, <2>5, <2>6 DEF KyaStageOK, Verifying, Recognised
    <2>8. PlainStageOK(c)' /\ StampOK(c)'
      BY <1>1, <2>5 DEF PlainStageOK, StampOK, Plain
    <2>9. RevalidationOK'
      BY <1>2, <2>1, TablesKept DEF IInv, RevalidationOK
    <2> QED
      BY <1>2, <2>1, <2>4, <2>7, <2>8, <2>9, CallStep
  <1> QED
    BY <1>3, <1>4

LEMMA AppendVerifiedKeeps == ASSUME IInv, NEW c \in Callers, AppendVerified(c) PROVE IInv'
  <1>1. /\ call[c].pc = "append" /\ call[c].pc \in Verifying /\ call[c] \in Call
        /\ KyaStageOK(c) /\ call[c].route = "consume" /\ call[c].proof \in Proofs
        /\ Recognised(call[c].decision) /\ call[c].ref \in ExecRefs
        /\ authority[call[c].decision] # None
        /\ Owner[call[c].proof] = authority[call[c].decision]
    BY DEF AppendVerified, At, Verifying, IInv, TypeOK, KyaStageOK
  <1>2. UNCHANGED <<mode, now, nonce, accepted, revoked, decision, resolved, consumed,
                    authority, known, requests, failures>>
    BY DEF AppendVerified, proofs, provider, world
  <1> DEFINE x == [call[c] EXCEPT !.pc = "provider"]
             v == [decision |-> call[c].decision, ref |-> call[c].ref,
                   agent |-> Owner[call[c].proof], status |-> "verified"]
  <1>3. x \in Call /\ call' = [call EXCEPT ![c] = x] /\ call'[c] = x
    BY <1>1 DEF AppendVerified, Goto, Call, IInv, TypeOK
  <1>4. /\ x.pc = "provider" /\ x.route = call[c].route /\ x.proof = call[c].proof
        /\ x.decision = call[c].decision /\ x.ref = call[c].ref
    BY <1>1 DEF Call
  <1>5. /\ v \in Revalidation /\ Verifies(v, call[c].decision, call[c].ref)
        /\ v.decision = call[c].decision /\ v.agent = authority[call[c].decision]
    BY <1>1, OwnerAssumption DEF Revalidation, Recognised, Verifies
  <1>6. revalidation' = revalidation \cup {v}
    BY DEF AppendVerified, Append
  <1> HIDE DEF x, v
  <1>7. TypeOK'
    BY <1>2, <1>3, <1>5, <1>6 DEF IInv, TypeOK
  <1>8. RevalidationOK'
    BY <1>1, <1>2, <1>5, <1>6, TablesKept DEF IInv, RevalidationOK
  <1>9. \E w \in revalidation' : Verifies(w, call[c].decision, call[c].ref)
    BY <1>5, <1>6
  <1>10. KyaStageOK(c)'
    BY <1>1, <1>2, <1>3, <1>4, <1>9 DEF KyaStageOK, Verifying, Recognised, Verifies
  <1>11. PlainStageOK(c)' /\ StampOK(c)'
    BY <1>1, <1>3, <1>4 DEF PlainStageOK, StampOK, Plain
  <1> QED
    BY <1>2, <1>3, <1>6, <1>7, <1>8, <1>10, <1>11, CallStep
-----------------------------------------------------------------------------
(* The provider, and the record of what it issued                          *)

(* A decision that is issued for an agent, or for none.                    *)
LEMMA IssueKeeps ==
    ASSUME IInv, NEW c \in Callers, NEW e \in Decisions, NEW row \in Decision, NEW pc \in {"save", "reply"},
           decision[e] = None, decision' = [decision EXCEPT ![e] = row],
           call' = [call EXCEPT ![c].decision = e, ![c].pc = pc],
           resolved' \subseteq Decisions,
           pc = "save" => row.agent # None,
           pc = "reply" => row.agent = None,
           row.agent = None => mode = "optional",
           row.supersedes # None =>
               /\ row.supersedes \in Decisions /\ decision[row.supersedes] # None
               /\ row.agent = decision[row.supersedes].agent,
           UNCHANGED <<proofs, consumed, records, world, known>>
    PROVE  IInv'
  <1> DEFINE x == [[call[c] EXCEPT !.decision = e] EXCEPT !.pc = pc]
  <1>1. /\ call[c] \in Call /\ row # None
        /\ UNCHANGED <<mode, now, nonce, accepted, revoked, consumed, authority, revalidation,
                       known, requests, failures>>
    BY NoDecisionAssumption DEF IInv, TypeOK, proofs, records, world
  <1>2. x \in Call /\ call' = [call EXCEPT ![c] = x] /\ call'[c] = x
    BY <1>1 DEF Call, IInv, TypeOK
  <1>3. /\ x.pc = pc /\ x.decision = e
    BY <1>1 DEF Call
  <1> HIDE DEF x
  <1>4. decision'[e] = row /\ \A d \in Decisions \ {e} : decision'[d] = decision[d]
    BY DEF IInv, TypeOK
  <1>5. authority[e] = None /\ consumed[e] = None /\ e \notin known
    BY DEF IInv, AuthorityOK, DecisionsOK, KnownOK, Recognised
  <1>6. Grows
    BY <1>1, <1>4 DEF Grows
  <1>7. TypeOK'
    <2>1. decision' \in [Decisions -> Decision \cup {None}]
      BY DEF IInv, TypeOK
    <2> QED
      BY <1>1, <1>2, <2>1 DEF IInv, TypeOK
  <1>8. KyaStageOK(c)' /\ StampOK(c)'
    BY <1>2, <1>3 DEF KyaStageOK, StampOK, Verifying
  <1>9. PlainStageOK(c)'
    BY <1>1, <1>2, <1>3, <1>4, <1>5 DEF PlainStageOK, Recognised
  <1>10. \A d : Recognised(d) => Recognised(d)'
    BY <1>6, RecognisedKept
  <1>11. DecisionsOK'
    <2>1. \A d \in Decisions : consumed'[d] # None => decision'[d] # None
      BY <1>1, <1>4 DEF IInv, DecisionsOK
    <2>2. ASSUME NEW d \in Decisions, decision'[d] # None
          PROVE  /\ decision'[d].agent = None => mode = "optional"
                 /\ decision'[d].supersedes # None =>
                     /\ decision'[decision'[d].supersedes] # None
                     /\ decision'[d].agent = decision'[decision'[d].supersedes].agent
      <3>1. CASE d = e
        <4>1. row.supersedes # None => decision'[row.supersedes] = decision[row.supersedes]
          BY <1>4
        <4> QED
          BY <1>4, <3>1, <4>1
      <3>2. CASE d # e
        <4>1. decision'[d] = decision[d] /\ decision[d] \in Decision
          BY <1>4, <2>2, <3>2 DEF IInv, TypeOK
        <4>2. decision[d].supersedes \in Decisions \cup {None}
          BY <4>1 DEF Decision
        <4>3. decision[d].supersedes # None =>
                  decision'[decision[d].supersedes] = decision[decision[d].supersedes]
          BY <1>4, <2>2, <4>1, <4>2 DEF IInv, DecisionsOK
        <4> QED
          BY <2>2, <4>1, <4>2, <4>3 DEF IInv, DecisionsOK
      <3> QED
        BY <3>1, <3>2
    <2> QED
      BY <1>1, <2>1, <2>2 DEF DecisionsOK
  <1>12. AuthorityOK' /\ KnownOK'
    BY <1>1, <1>10 DEF IInv, AuthorityOK, KnownOK
  <1>13. RevalidationOK'
    BY <1>1, <1>10 DEF IInv, RevalidationOK
  <1>14. NonceOK'
    BY <1>1 DEF IInv, NonceOK, NonceExpiry
  <1>15. ConsumedUnderAuthority'
    BY <1>1, <1>4, <1>5 DEF IInv, ConsumedUnderAuthority
  <1> QED
    BY <1>1, <1>2, <1>6, <1>7, <1>8, <1>9, <1>11, <1>12, <1>13, <1>14, <1>15, TableStep DEF NoncesKept

LEMMA ProviderEvaluateKeeps == ASSUME IInv, NEW c \in Callers, ProviderEvaluate(c) PROVE IInv'
  <1> DEFINE p == call[c].proof
             agent == IF p = None THEN None ELSE Owner[p]
  <1>1. PICK d \in Decisions, v \in {"ALLOW", "REQUIRE_APPROVAL"} :
            /\ decision[d] = None
            /\ decision' = [decision EXCEPT ![d] = [agent |-> agent, verdict |-> v, supersedes |-> None]]
            /\ call' = [call EXCEPT ![c].decision = d, ![c].pc = IF p = None THEN "reply" ELSE "save"]
    BY DEF ProviderEvaluate
  <1>2. p \in Proofs \/ (p = None /\ mode = "optional")
    BY DEF ProviderEvaluate, At, IInv, PlainStageOK
  <1>3. agent \in Agents \cup {None} /\ (agent = None <=> p = None) /\ (p = None => mode = "optional")
    BY <1>2, OwnerAssumption, NoneAssumption
  <1>4. PICK a \in Agents \cup {None} : a = agent
    BY <1>3
  <1> DEFINE row == [agent |-> a, verdict |-> v, supersedes |-> None]
  <1>5. row \in Decision /\ row.agent = a /\ row.supersedes = None
    BY DEF Decision
  <1>6. PICK pc \in {"save", "reply"} : pc = (IF p = None THEN "reply" ELSE "save")
    OBVIOUS
  <1>7. /\ decision' = [decision EXCEPT ![d] = row]
        /\ call' = [call EXCEPT ![c].decision = d, ![c].pc = pc]
    BY <1>1, <1>4, <1>6
  <1> HIDE DEF row
  <1>8. UNCHANGED <<proofs, consumed, records, world, known>> /\ resolved' \subseteq Decisions
    BY DEF ProviderEvaluate, IInv, TypeOK
  <1>9. /\ decision[d] = None
        /\ pc = "save" => row.agent # None
        /\ pc = "reply" => row.agent = None
        /\ row.agent = None => mode = "optional"
    BY <1>1, <1>3, <1>4, <1>5, <1>6
  <1> QED
    BY <1>5, <1>7, <1>8, <1>9, IssueKeeps

LEMMA ProviderApproveKeeps == ASSUME IInv, NEW c \in Callers, ProviderApprove(c) PROVE IInv'
  <1> DEFINE d == call[c].decision
             agent == IF call[c].route = "approve" THEN Owner[call[c].proof] ELSE decision[d].agent
  <1>1. /\ d \in Decisions /\ decision[d] # None /\ agent = decision[d].agent
        /\ decision[d] \in Decision
        /\ call[c].route = "approve" <=> agent # None
    <2>1. CASE call[c].route = "approve"
      BY <2>1 DEF ProviderApprove, At, IInv, TypeOK, KyaStageOK, Recognised
    <2>2. CASE call[c].route = "plainApprove"
      BY <2>2 DEF ProviderApprove, At, IInv, TypeOK, PlainStageOK, Plain
    <2> QED
      BY <2>1, <2>2 DEF ProviderApprove
  <1>2. CASE Return(c) /\ UNCHANGED <<decision, resolved>>
    BY <1>2, ReturnKeeps DEF ProviderApprove, proofs, records, world, IInv, TypeOK
  <1>3. ASSUME NEW e \in Decisions, decision[e] = None, resolved' = resolved \cup {d},
               decision' = [decision EXCEPT ![e] =
                   [agent |-> agent, verdict |-> "ALLOW", supersedes |-> d]],
               call' = [call EXCEPT ![c].decision = e,
                   ![c].pc = IF call[c].route = "approve" THEN "save" ELSE "reply"]
        PROVE  IInv'
    <2>1. PICK a \in Agents \cup {None} : a = agent
      BY <1>1 DEF Decision
    <2>2. PICK f \in Decisions : f = d
      BY <1>1
    <2>3. PICK pc \in {"save", "reply"} : pc = (IF call[c].route = "approve" THEN "save" ELSE "reply")
      OBVIOUS
    <2> DEFINE row == [agent |-> a, verdict |-> "ALLOW", supersedes |-> f]
    <2>4. row \in Decision /\ row.agent = a /\ row.supersedes = f
      BY DEF Decision
    <2>5. /\ decision' = [decision EXCEPT ![e] = row]
          /\ call' = [call EXCEPT ![c].decision = e, ![c].pc = pc]
      BY <1>3, <2>1, <2>2, <2>3
    <2> HIDE DEF row
    <2>6. UNCHANGED <<proofs, consumed, records, world, known>> /\ resolved' \subseteq Decisions
      BY <1>1, <1>3 DEF ProviderApprove, IInv, TypeOK
    <2>7. a = None => mode = "optional"
      BY <1>1, <2>1 DEF IInv, DecisionsOK
    <2>8. pc = "save" <=> row.agent # None
      BY <1>1, <2>1, <2>3, <2>4
    <2>9. row.agent = decision[row.supersedes].agent /\ decision[row.supersedes] # None
      BY <1>1, <2>1, <2>2, <2>4
    <2>10. decision[e] = None
      BY <1>3
    <2>11. (pc = "save" => row.agent # None) /\ (pc = "reply" => row.agent = None)
      BY <2>8
    <2>12. row.agent = None => mode = "optional"
      BY <2>4, <2>7
    <2>13. row.supersedes # None =>
              /\ row.supersedes \in Decisions /\ decision[row.supersedes] # None
              /\ row.agent = decision[row.supersedes].agent
      BY <2>4, <2>9
    <2> QED
      BY <2>4, <2>5, <2>6, <2>10, <2>11, <2>12, <2>13, IssueKeeps
  <1> QED
    BY <1>2, <1>3 DEF ProviderApprove

LEMMA ProviderConsumeKeeps == ASSUME IInv, NEW c \in Callers, ProviderConsume(c) PROVE IInv'
  <1>1. PICK d \in Decisions, r \in ExecRefs :
            /\ d = call[c].decision /\ r = call[c].ref /\ decision[d] # None
            /\ decision[d].agent = None \/
                   \E v \in revalidation :
                       Verifies(v, d, r) /\ v.agent = decision[d].agent
    <2>1. CASE call[c].route = "consume"
      <3>1. /\ call[c].decision \in Decisions /\ call[c].ref \in ExecRefs
            /\ decision[call[c].decision] # None
            /\ \E v \in revalidation : Verifies(v, call[c].decision, call[c].ref)
        BY <2>1 DEF ProviderConsume, At, IInv, KyaStageOK, Recognised
      <3>2. \A v \in revalidation : Verifies(v, call[c].decision, call[c].ref) =>
                v.agent = decision[call[c].decision].agent
        BY DEF IInv, RevalidationOK, Verifies, Recognised
      <3> QED
        BY <3>1, <3>2
    <2>2. CASE call[c].route = "plainConsume"
      BY <2>2 DEF ProviderConsume, At, IInv, PlainStageOK, Plain
    <2> QED
      BY <2>1, <2>2 DEF ProviderConsume
  <1>2. /\ Return(c)
        /\ UNCHANGED <<mode, now, nonce, accepted, revoked, decision, resolved, authority,
                       revalidation, known, requests, failures>>
    BY DEF ProviderConsume, proofs, records, world
  <1>3. CASE UNCHANGED consumed
    BY <1>2, <1>3, ReturnKeeps DEF IInv, TypeOK
  <1>4. CASE consumed' = [consumed EXCEPT ![d] = r]
    <2>1. consumed'[d] = r /\ \A e \in Decisions \ {d} : consumed'[e] = consumed[e]
      BY <1>4 DEF IInv, TypeOK
    <2>2. call' = [call EXCEPT ![c] = Idle] /\ call'[c] = Idle
      BY <1>2 DEF Return, IInv, TypeOK
    <2>3. KyaStageOK(c)' /\ PlainStageOK(c)' /\ StampOK(c)'
      BY <2>2, IdleOK
    <2>4. TypeOK'
      <3>1. consumed' \in [Decisions -> ExecRefs \cup {None}]
        BY <1>4 DEF IInv, TypeOK
      <3> QED
        BY <1>2, <2>2, <3>1, IdleInCall, BoundsAssumption DEF IInv, TypeOK
    <2>5. Grows /\ \A e : Recognised(e) <=> Recognised(e)'
      BY <1>2 DEF Grows, Recognised
    <2>6. DecisionsOK'
      BY <1>1, <1>2, <2>1 DEF IInv, DecisionsOK
    <2>7. AuthorityOK' /\ KnownOK' /\ RevalidationOK' /\ NonceOK'
      BY <1>2, <2>5 DEF IInv, AuthorityOK, KnownOK, RevalidationOK, NonceOK, NonceExpiry
    <2>8. ConsumedUnderAuthority'
      <3> SUFFICES ASSUME NEW e \in Decisions, consumed'[e] # None
                   PROVE  IF decision[e].agent = None THEN mode = "optional"
                          ELSE \E v \in revalidation :
                                  /\ v.decision = e /\ v.ref = consumed'[e] /\ v.status = "verified"
                                  /\ v.agent = decision[e].agent
        BY <1>2 DEF ConsumedUnderAuthority
      <3>1. CASE e = d
        <4>1. decision[d].agent = None => mode = "optional"
          BY <1>1 DEF IInv, DecisionsOK
        <4>2. decision[d].agent # None =>
                  \E v \in revalidation :
                      /\ v.decision = d /\ v.ref = r /\ v.status = "verified"
                      /\ v.agent = decision[d].agent
          BY <1>1 DEF Verifies
        <4> QED
          BY <2>1, <3>1, <4>1, <4>2
      <3>2. CASE e # d
        BY <2>1, <3>2 DEF IInv, ConsumedUnderAuthority
      <3> QED
        BY <3>1, <3>2
    <2> QED
      BY <1>2, <2>2, <2>3, <2>4, <2>5, <2>6, <2>7, <2>8, TableStep DEF NoncesKept
  <1> QED
    BY <1>1, <1>3, <1>4 DEF ProviderConsume

LEMMA SaveKeeps == ASSUME IInv, NEW c \in Callers, SaveDecisionAuthority(c) PROVE IInv'
  <1>1. PICK d \in Decisions :
            /\ d = call[c].decision /\ decision[d] # None /\ decision[d].agent # None
            /\ call[c] \in Call
    BY DEF SaveDecisionAuthority, At, IInv, TypeOK, PlainStageOK
  <1> DEFINE x == [call[c] EXCEPT !.pc = "reply"]
  <1>2. UNCHANGED <<mode, now, nonce, accepted, revoked, decision, resolved, consumed,
                    revalidation, known, requests, failures>>
    BY DEF SaveDecisionAuthority, proofs, provider, world
  <1>3. x \in Call /\ call' = [call EXCEPT ![c] = x] /\ call'[c] = x
    BY <1>1 DEF SaveDecisionAuthority, Goto, Call, IInv, TypeOK
  <1>4. x.pc = "reply" /\ x.decision = d
    BY <1>1 DEF Call
  <1> HIDE DEF x
  <1>5. authority' = [authority EXCEPT ![d] = decision[d].agent]
    BY <1>1 DEF SaveDecisionAuthority, AuthorityOf
  <1>6. /\ authority'[d] = decision[d].agent
        /\ \A e \in Decisions \ {d} : authority'[e] = authority[e]
        /\ \A e \in known : e \in Decisions
    BY <1>5 DEF IInv, TypeOK
  <1>7. Grows
    BY <1>1, <1>2, <1>6 DEF Grows, Recognised
  <1>8. \A e : Recognised(e) => Recognised(e)' /\ authority'[e] = authority[e]
    BY <1>7, RecognisedKept
  <1>9. TypeOK'
    <2>1. decision[d].agent \in Agents \cup {None}
      BY <1>1 DEF IInv, TypeOK, Decision
    <2>2. authority' \in [Decisions -> Agents \cup {None}]
      BY <1>5, <2>1 DEF IInv, TypeOK
    <2> QED
      BY <1>2, <1>3, <2>2 DEF IInv, TypeOK
  <1>10. Recognised(d)'
    BY <1>1, <1>2, <1>6 DEF Recognised
  <1>11. KyaStageOK(c)' /\ StampOK(c)'
    BY <1>3, <1>4 DEF KyaStageOK, StampOK, Verifying
  <1>12. PlainStageOK(c)'
    BY <1>3, <1>4, <1>10 DEF PlainStageOK, Recognised
  <1>13. DecisionsOK' /\ KnownOK' /\ NonceOK'
    BY <1>2, <1>8 DEF IInv, DecisionsOK, KnownOK, NonceOK, NonceExpiry
  <1>14. AuthorityOK'
    <2> SUFFICES ASSUME NEW e \in Decisions, authority'[e] # None PROVE Recognised(e)'
      BY DEF AuthorityOK
    <2>1. CASE e = d
      BY <1>10, <2>1
    <2>2. CASE e # d
      BY <1>6, <1>8, <2>2 DEF IInv, AuthorityOK
    <2> QED
      BY <2>1, <2>2
  <1>15. RevalidationOK' /\ ConsumedUnderAuthority'
    BY <1>2, <1>8 DEF IInv, RevalidationOK, ConsumedUnderAuthority
  <1> QED
    BY <1>2, <1>3, <1>7, <1>9, <1>11, <1>12, <1>13, <1>14, <1>15, TableStep DEF NoncesKept

LEMMA ReplyKeeps == ASSUME IInv, NEW c \in Callers, Reply(c) PROVE IInv'
  <1>1. Recognised(call[c].decision)
    BY DEF Reply, At, IInv, PlainStageOK
  <1>2. UNCHANGED <<mode, now, nonce, accepted, revoked, decision, resolved, consumed, authority,
                    revalidation, requests, failures>>
    BY DEF Reply, proofs, provider, records, world
  <1>3. call' = [call EXCEPT ![c] = Idle] /\ call'[c] = Idle
    BY DEF Reply, Return, IInv, TypeOK
  <1>4. KyaStageOK(c)' /\ PlainStageOK(c)' /\ StampOK(c)'
    BY <1>3, IdleOK
  <1>5. TypeOK'
    BY <1>1, <1>2, <1>3, IdleInCall, BoundsAssumption DEF Reply, Recognised, IInv, TypeOK
  <1>6. \A d : Recognised(d) <=> Recognised(d)'
    BY <1>2, TablesKept
  <1>7. KnownOK'
    BY <1>1, <1>6 DEF Reply, IInv, KnownOK
  <1>8. Grows /\ DecisionsOK' /\ AuthorityOK'
    BY <1>2, TablesKept DEF Grows, IInv
  <1>9. RevalidationOK' /\ NonceOK' /\ ConsumedUnderAuthority'
    BY <1>2, <1>6 DEF IInv, RevalidationOK, NonceOK, NonceExpiry, ConsumedUnderAuthority
  <1> QED
    BY <1>2, <1>3, <1>4, <1>5, <1>7, <1>8, <1>9, TableStep DEF NoncesKept

-----------------------------------------------------------------------------
(* Time, revocation, failures, and the invariant                           *)

(* A step of the environment: no request moves, no table but the nonces'.  *)
LEMMA EnvironmentStep ==
    ASSUME IInv, TypeOK', NonceOK', \A c \in Callers : StampOK(c)',
           UNCHANGED <<mode, decision, consumed, authority, revalidation, known, call>>
    PROVE  IInv'
  <1>1. Grows
    BY DEF Grows
  <1>2. \A c \in Callers : KyaStageOK(c)'
    BY <1>1, KyaStageKept DEF IInv
  <1>3. \A c \in Callers : PlainStageOK(c)'
    BY <1>1, PlainStageKept DEF IInv
  <1>4. DecisionsOK' /\ AuthorityOK' /\ KnownOK' /\ RevalidationOK'
    BY TablesKept DEF IInv, KnownOK, RevalidationOK
  <1>5. ConsumedUnderAuthority'
    BY DEF IInv, ConsumedUnderAuthority
  <1> QED
    BY <1>2, <1>3, <1>4, <1>5 DEF IInv

LEMMA TickKeeps == ASSUME IInv, Tick PROVE IInv'
  <1>1. UNCHANGED <<mode, nonce, accepted, revoked, decision, resolved, consumed, authority,
                    revalidation, known, call, requests, failures>>
    BY DEF Tick, provider, records, world
  <1>2. now \in Nat /\ now' \in Nat /\ now' \in Instants /\ now < now'
    BY BoundsAssumption DEF BoundsAssumption, Tick, IInv, TypeOK
  <1>3. TypeOK'
    BY <1>1, <1>2 DEF IInv, TypeOK
  <1>4. \A c \in Callers : StampOK(c)'
    BY <1>1 DEF IInv, StampOK, NonceExpiry
  <1>5. NonceOK'
    <2>1. \A p : NonceExpiry(p) \in Nat
      BY BoundsAssumption DEF BoundsAssumption, NonceExpiry
    <2>2. \A p : NonceExpiry(p)' = NonceExpiry(p)
      BY DEF NonceExpiry
    <2>3. \A p : NonceExpiry(p) < now => NonceExpiry(p) < now'
      BY <1>2, <2>1
    <2> QED
      BY <1>1, <2>2, <2>3 DEF IInv, NonceOK
  <1> QED
    BY <1>1, <1>3, <1>4, <1>5, EnvironmentStep

LEMMA RevokeKeeps == ASSUME IInv, NEW a \in Agents, Revoke(a) PROVE IInv'
  <1>1. UNCHANGED <<mode, now, nonce, accepted, decision, resolved, consumed, authority,
                    revalidation, known, call, requests, failures>>
    BY DEF Revoke, proofs, provider, records
  <1>2. TypeOK'
    BY <1>1 DEF Revoke, IInv, TypeOK
  <1>3. NonceOK' /\ \A c \in Callers : StampOK(c)'
    BY <1>1 DEF IInv, NonceOK, NonceExpiry, StampOK
  <1> QED
    BY <1>1, <1>2, <1>3, EnvironmentStep

LEMMA PurgeKeeps ==
    ASSUME IInv, NEW cutoff \in Instants, PurgeExpired(cutoff)
    PROVE  IInv'
  <1>1. UNCHANGED <<mode, now, accepted, revoked, decision, resolved, consumed, authority,
                    revalidation, known, call, requests, failures>>
    BY DEF PurgeExpired, provider, records, world
  <1>2. /\ \A p \in Proofs : nonce'[p] = (IF nonce[p] < cutoff THEN NoRow ELSE nonce[p])
        /\ cutoff <= now
        /\ \A c \in Callers : call[c].pc = "nonce" => cutoff <= call[c].at
    BY DEF PurgeExpired, At
  <1>3. nonce' \in [Proofs -> Int]
    BY DEF PurgeExpired, NoRow, IInv, TypeOK
  <1>4. TypeOK'
    BY <1>1, <1>3 DEF IInv, TypeOK
  <1>5. /\ cutoff \in Nat /\ \A p \in Proofs : NonceExpiry(p) \in Nat
        /\ now \in Nat /\ \A c \in Callers : call[c].at \in Nat
    <2>1. Instants \subseteq Nat /\ \A p \in Proofs : NonceExpiry(p) \in Nat
      BY BoundsAssumption DEF BoundsAssumption, NonceExpiry
    <2>2. now \in Instants /\ \A c \in Callers : call[c].at \in Instants
      BY DEF IInv, TypeOK, Call
    <2> QED
      BY <2>1, <2>2
  <1>6. ASSUME NEW p \in Proofs, NEW t \in Nat, cutoff <= t,
               nonce[p] = NonceExpiry(p) \/ NonceExpiry(p) < t
        PROVE  nonce'[p] = NonceExpiry(p) \/ NonceExpiry(p) < t
    BY <1>2, <1>5, <1>6
  <1>7. \A c \in Callers : StampOK(c)'
    BY <1>1, <1>2, <1>5, <1>6 DEF IInv, StampOK, NonceExpiry
  <1>8. NonceOK'
    BY <1>1, <1>2, <1>5, <1>6 DEF IInv, NonceOK, NonceExpiry
  <1> QED
    BY <1>1, <1>4, <1>7, <1>8, EnvironmentStep

LEMMA FailKeeps == ASSUME IInv, NEW c \in Callers, Fail(c) PROVE IInv'
  <1>1. failures' \in 0..MaxFailures
    BY BoundsAssumption DEF BoundsAssumption, Fail, IInv, TypeOK
  <1> QED
    BY <1>1, ReturnKeeps DEF Fail, FailedCall, proofs, provider, records

LEMMA InitIInv == Init => IInv
  <1> SUFFICES ASSUME Init PROVE IInv
    OBVIOUS
  <1>1. TypeOK
    BY IdleInCall, BoundsAssumption DEF BoundsAssumption, Init, TypeOK, NoRow
  <1>2. \A c \in Callers : KyaStageOK(c) /\ PlainStageOK(c) /\ StampOK(c)
    BY DEF Init, KyaStageOK, PlainStageOK, StampOK, Idle, Verifying
  <1>3. DecisionsOK /\ AuthorityOK /\ RevalidationOK /\ KnownOK
    BY DEF Init, DecisionsOK, AuthorityOK, RevalidationOK, KnownOK
  <1>4. NonceOK /\ ConsumedUnderAuthority
    BY DEF Init, NonceOK, ConsumedUnderAuthority
  <1> QED
    BY <1>1, <1>2, <1>3, <1>4 DEF IInv

LEMMA NextKeeps == IInv /\ [Next]_vars => IInv'
  <1> SUFFICES ASSUME IInv, [Next]_vars PROVE IInv'
    OBVIOUS
  <1>1. CASE UNCHANGED vars
    BY <1>1, EnvironmentStep DEF vars, IInv, TypeOK, NonceOK, NonceExpiry, StampOK
  <1>2. ASSUME NEW c \in Callers, Route(c) \/ Step(c) \/ Fail(c) PROVE IInv'
    BY <1>2, RouteKeeps, CheckProofKeeps, SendNonceKeeps, ConsumeNonceKeeps,
       VerifyDelegationKeeps, AppendVerifiedKeeps, ProviderEvaluateKeeps, ProviderApproveKeeps, ProviderConsumeKeeps,
       SaveKeeps, ReplyKeeps, FailKeeps DEF Step
  <1>3. CASE \/ \E a \in Agents : Revoke(a)
             \/ \E cutoff \in Instants : PurgeExpired(cutoff)
             \/ Tick
    BY <1>3, RevokeKeeps, PurgeKeeps, TickKeeps
  <1> QED
    BY <1>1, <1>2, <1>3 DEF Next

(* Every reachable state satisfies the inductive invariant: each request   *)
(* knows what its await says about the decision it names, and the records  *)
(* agree with what the provider issued and consumed.                       *)
THEOREM Invariant == Spec => []IInv
  BY InitIInv, NextKeeps, PTL DEF Spec

(* Requests, nonces, decisions and records keep their types.               *)
THEOREM TypeCorrect == Spec => []TypeOK
  <1>1. IInv => TypeOK
    BY DEF IInv
  <1> QED
    BY <1>1, Invariant, PTL

(* A bound decision is consumed only for an execution that was verified    *)
(* under the decision's own authority; an unbound one only in the optional *)
(* mode.  This holds for all six routes, and for every retry and failure.  *)
THEOREM AuthorityBeforeConsumption == Spec => []ConsumedUnderAuthority
  <1>1. IInv => ConsumedUnderAuthority
    BY DEF IInv
  <1> QED
    BY <1>1, Invariant, PTL

(* Whatever decision a client was told of, the ordinary routes recognise   *)
(* it if it is bound: its record was stored before the answer.             *)
THEOREM RecordBeforeAnswer == Spec => []KnownDecisionsAreProtected
  <1>1. IInv => KnownDecisionsAreProtected
    BY DEF IInv, KnownOK, Recognised, KnownDecisionsAreProtected
  <1> QED
    BY <1>1, Invariant, PTL

(* Approving a decision never moves it to another accountable party.       *)
THEOREM SameParty == Spec => []ApprovalKeepsAuthority
  <1>1. IInv => ApprovalKeepsAuthority
    BY DEF IInv, DecisionsOK, ApprovalKeepsAuthority
  <1> QED
    BY <1>1, Invariant, PTL

(* A proof is accepted at most once, whatever the tolerance after expiry,  *)
(* the retention of nonces and the time a request takes to resolve keys    *)
(* and to reach the database.                                              *)
THEOREM NoReplay == Spec => []ProofAcceptedOnce
  <1>1. IInv => ProofAcceptedOnce
    <2> SUFFICES ASSUME IInv, NEW p \in Proofs PROVE accepted[p] <= 1
      BY DEF ProofAcceptedOnce
    <2>1. accepted[p] = 0 \/ accepted[p] = 1
      BY DEF IInv, NonceOK
    <2> QED
      BY <2>1
  <1> QED
    BY <1>1, Invariant, PTL
=============================================================================
