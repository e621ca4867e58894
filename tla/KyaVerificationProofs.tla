------------------------ MODULE KyaVerificationProofs ------------------------
(***************************************************************************)
(* Theorems about KyaVerification, for any cases, chains of any length,    *)
(* any cache lifetime, fetches of any length and any clock: its type       *)
(* correctness and its safety invariants, from one inductive invariant.    *)
(***************************************************************************)
EXTENDS KyaVerification, FiniteSetTheorems, TLAPS

links == 1..Len(chain)
fetchers == Others \cup {This}

(* For less than this a withdrawn key is trusted.                          *)
keyLife == IF CacheTtl = 0 THEN 1 ELSE CacheTtl + slowest

Checked == {"revocation", "legacy status", "decide", "accepted"}

(* Credential j is signed by its issuer, with a key that was its issuer's  *)
(* when the verification began or had been for less than a key's life.     *)
Trusted(j) ==
    /\ chain[j].signer = chain[j].issuer
    /\ dropped[chain[j].issuer] # None => v.at < dropped[chain[j].issuer] + keyLife

(* The signatures verified so far, and all of them once the loop is over.  *)
SignaturesOK ==
    /\ v.phase = "proof" => v.i = 1
    /\ v.phase \in {"method", "document"} => \A j \in 1..(v.i - 1) : Trusted(j)
    /\ v.phase \in Checked => \A j \in links : Trusted(j)

(* Which profile takes which phases, and what Start asked of a legacy one. *)
ProfileOK ==
    /\ v.phase \in {"method", "document", "revocation"} => modern
    /\ v.phase \in {"legacy", "legacy status"} => ~modern
    /\ v.phase \notin {"idle", "rejected"} => presentation.proof # None /\ (modern \/ LegacyCanStart)

KeysOK ==
    /\ v.at <= now
    /\ \A d \in Dids : dropped[d] # None => dropped[d] <= now /\ "assertionMethod" \notin docs[d]

(* An answer that lists the key was asked for before the key was dropped.  *)
FetchOK(x) ==
    /\ x.asked <= now
    /\ x.answered /\ dropped[x.did] # None /\ "assertionMethod" \in x.doc => x.asked <= dropped[x.did]

(* This verification awaits a fetch only while it looks a document up, and *)
(* one that it sent itself.                                                *)
FetchesOK ==
    /\ v.phase \notin Lookups => fetch[This] = None
    /\ fetch[This] # None => v.at <= fetch[This].asked
    /\ \A f \in fetchers : fetch[f] # None => FetchOK(fetch[f])

(* A withdrawn key is not remembered for longer than the cache's life and  *)
(* the slowest fetch.                                                      *)
EntryOK(d, e) ==
    /\ e.expires <= now + CacheTtl
    /\ dropped[d] # None /\ "assertionMethod" \in e.doc => e.expires <= dropped[d] + CacheTtl + slowest

CacheOK == \A d \in Dids : cache[d] # None => CacheTtl # 0 /\ EntryOK(d, cache[d])

ResolverOK == KeysOK /\ FetchesOK /\ CacheOK

(* While the revocations are asked for, what was revoked at the start lies *)
(* ahead, unless an answer was stale or a credential has no status.        *)
RevocationOK ==
    /\ v.lost \subseteq revoked
    /\ \A j \in revoked : chain[j].status
    /\ v.phase \in {"proof", "legacy", "legacy status"} /\ ~modern => ~v.fresh
    /\ v.phase = "revocation" /\ v.fresh => \A j \in v.lost : j >= v.i
    /\ v.phase \in {"decide", "accepted"} /\ v.fresh => v.lost = {}

AcceptanceOK == accepted => IF modern THEN ModernAccepts ELSE LegacyAccepts

IInv ==
    /\ case \in Cases
    /\ TypeOK
    /\ SignaturesOK
    /\ ProfileOK
    /\ ResolverOK
    /\ RevocationOK
    /\ AcceptanceOK
-----------------------------------------------------------------------------
(* The case, the cache and the kept parts                                  *)

LEMMA CaseTypes ==
    ASSUME case \in Cases
    PROVE  /\ Len(chain) \in Nat /\ Len(chain) > 0 /\ links \subseteq Nat
           /\ modern => presentation.proof # None
           /\ ~modern => Len(chain) = 1
           /\ presentation.proof # None => presentation.proof.did \in Dids
           /\ action.amount \in Nat
           /\ \A j \in links : /\ chain[j].issuer \in Dids /\ chain[j].signer \in Dids
                               /\ chain[j].cap \in Nat \cup {None}
  BY CasesAssumption DEF chain, presentation, modern, action, links

LEMMA MaxOfTwo ==
    ASSUME NEW a \in Int, NEW b \in Int
    PROVE  Max({a, b}) \in Int /\ Max({a, b}) >= a /\ Max({a, b}) >= b
  <1>1. \E x \in {a, b} : \A y \in {a, b} : x >= y
    <2>1. CASE a >= b
      BY <2>1
    <2>2. CASE ~(a >= b)
      BY <2>2
    <2> QED BY <2>1, <2>2
  <1>2. Max({a, b}) \in {a, b} /\ \A y \in {a, b} : Max({a, b}) >= y
    BY <1>1 DEF Max
  <1> QED BY <1>2

(* A step that leaves the case alone leaves what is read from it alone.    *)
LEMMA CaseKept ==
    ASSUME UNCHANGED case
    PROVE  /\ chain' = chain /\ presentation' = presentation /\ policy' = policy
           /\ action' = action /\ leaf' = leaf /\ links' = links
           /\ modern' = modern /\ LegacyCanStart' = LegacyCanStart
  BY DEF chain, presentation, policy, action, leaf, links, modern, LegacyCanStart

(* The decision depends on the case, the instant and the freshness only.   *)
LEMMA AcceptanceKept ==
    ASSUME UNCHANGED case, v'.at = v.at, v'.fresh = v.fresh
    PROVE  ModernAccepts' = ModernAccepts /\ LegacyAccepts' = LegacyAccepts
  <1> USE CaseKept
  <1>1. ChainEvaluates' = ChainEvaluates
    BY DEF ChainEvaluates, Narrows
  <1>2. responsible' = responsible
    BY DEF responsible
  <1>3. DelegationVerified' = DelegationVerified
    BY <1>1 DEF DelegationVerified
  <1>4. CardPrincipal' = CardPrincipal
    BY <1>2 DEF CardPrincipal, CardVerifies
  <1>5. \A d : AcceptedDid(d)' = AcceptedDid(d)
    BY DEF AcceptedDid, Method
  <1>6. maxAmount' = maxAmount /\ leafCurrency' = leafCurrency
    BY DEF maxAmount, leafCurrency
  <1>7. PrincipalJoined' = PrincipalJoined
    BY <1>2, <1>4 DEF PrincipalJoined, AcceptedDid, Method
  <1>8. FinancialJoin' = FinancialJoin
    BY <1>6 DEF FinancialJoin, PayeeJoined, ResourceJoined, CurrencyJoined, WithinMaxAmount, Mapped
  <1>9. Assured' = Assured
    BY DEF Assured
  <1>10. ModernAccepts' = ModernAccepts
    BY <1>2, <1>3, <1>7, <1>8, <1>9 DEF ModernAccepts, AcceptedDid, Method
  <1>11. LegacyIdentities' = LegacyIdentities
    BY <1>2, <1>9 DEF LegacyIdentities, LegacyAudience, AcceptedDid, Method
  <1>12. LegacyTerms' = LegacyTerms
    BY <1>6 DEF LegacyTerms, ResourceJoined, WithinMaxAmount, Mapped
  <1>13. LegacyInWindow' = LegacyInWindow
    BY DEF LegacyInWindow
  <1>14. LegacyAccepts' = LegacyAccepts
    BY <1>11, <1>12, <1>13 DEF LegacyAccepts
  <1> QED BY <1>10, <1>14

(* Trust in a link stays while keys and case stand still.                  *)
LEMMA TrustGrows ==
    ASSUME IInv, UNCHANGED <<case, dropped>>, v'.at = v.at, slowest' \in Nat, slowest <= slowest'
    PROVE  \A j \in links : Trusted(j) => Trusted(j)'
  <1> SUFFICES ASSUME NEW j \in links, Trusted(j) PROVE Trusted(j)'
    OBVIOUS
  <1>1. chain' = chain /\ chain[j].issuer \in Dids
    BY CaseKept, CaseTypes DEF IInv
  <1>2. /\ v.at \in Nat /\ slowest \in Nat /\ CacheTtl \in Nat
        /\ dropped[chain[j].issuer] \in Nat \cup {None}
    BY <1>1, VerificationAssumption DEF IInv, TypeOK
  <1>3. keyLife \in Nat /\ keyLife' \in Nat /\ keyLife <= keyLife'
    <2>1. CASE CacheTtl = 0
      BY <2>1 DEF keyLife
    <2>2. CASE CacheTtl # 0
      <3>1. keyLife = CacheTtl + slowest /\ keyLife' = CacheTtl + slowest'
        BY <2>2 DEF keyLife
      <3> QED BY <1>2, <3>1
    <2> QED BY <2>1, <2>2
  <1>4. dropped[chain[j].issuer] # None => v.at < dropped[chain[j].issuer] + keyLife'
    <2> HIDE DEF keyLife
    <2> QED BY <1>2, <1>3, NoneAssumption DEF Trusted
  <1> QED BY <1>1, <1>4 DEF Trusted

(* What is read off a fetch that arrives.                                  *)
LEMMA ArrivalTypes ==
    ASSUME IInv, NEW f \in fetchers, NEW d, NEW doc, Arrives(f, d, doc)
    PROVE  /\ d \in Dids /\ doc \in SUBSET Purposes
           /\ fetch[f].asked \in Nat /\ fetch[f].asked <= now /\ now \in Nat /\ slowest \in Nat
           /\ dropped[d] # None /\ "assertionMethod" \in doc => fetch[f].asked <= dropped[d]
           /\ slowest' \in Nat /\ slowest <= slowest' /\ now <= fetch[f].asked + slowest'
           /\ fetch' \in [fetchers -> Fetch \cup {None}] /\ fetch'[f] = None
           /\ \A g \in fetchers \ {f} : fetch'[g] = fetch[g]
  <1>1. fetch[f] \in Fetch /\ now \in Nat /\ slowest \in Nat
        /\ fetch \in [fetchers -> Fetch \cup {None}]
    BY DEF Arrives, IInv, TypeOK, fetchers
  <1>2. d \in Dids /\ doc \in SUBSET Purposes /\ fetch[f].asked \in Nat
    BY <1>1, VerificationAssumption DEF Arrives, Fetch
  <1>3. /\ fetch[f].asked <= now
        /\ dropped[d] # None /\ "assertionMethod" \in doc => fetch[f].asked <= dropped[d]
    BY DEF Arrives, IInv, ResolverOK, FetchesOK, FetchOK
  <1>4. slowest' \in Nat /\ slowest <= slowest' /\ now <= fetch[f].asked + slowest'
    <2> DEFINE took == now - fetch[f].asked
    <2>1. took \in Int /\ slowest' = Max({slowest, took})
      <3>1. slowest' = Max({slowest, now - fetch[f].asked})
        BY DEF Arrives
      <3> QED BY <1>1, <1>2, <3>1
    <2> HIDE DEF took
    <2>2. slowest' \in Int /\ slowest' >= slowest /\ slowest' >= took
      BY <1>1, <2>1, MaxOfTwo
    <2> QED BY <1>1, <1>2, <2>2 DEF took
  <1>5. /\ fetch' \in [fetchers -> Fetch \cup {None}] /\ fetch'[f] = None
        /\ \A g \in fetchers \ {f} : fetch'[g] = fetch[g]
    BY <1>1 DEF Arrives
  <1> QED BY <1>1, <1>2, <1>3, <1>4, <1>5

(* A document is remembered whose key, if it was dropped, was dropped at   *)
(* most the slowest fetch ago.                                             *)
LEMMA RememberOK ==
    ASSUME IInv, NEW d \in Dids, NEW doc \in SUBSET Purposes, cache' = Remember(d, doc),
           UNCHANGED <<now, dropped>>, slowest' \in Nat, slowest <= slowest',
           dropped[d] # None /\ "assertionMethod" \in doc => now <= dropped[d] + slowest'
    PROVE  cache' \in [Dids -> Entry \cup {None}] /\ CacheOK'
  <1>1. /\ cache \in [Dids -> Entry \cup {None}] /\ now \in Nat /\ CacheTtl \in Nat /\ slowest \in Nat
        /\ dropped \in [Dids -> Nat \cup {None}]
    BY VerificationAssumption DEF IInv, TypeOK
  <1>2. ASSUME NEW a \in Dids, NEW e \in Entry, EntryOK(a, e) PROVE EntryOK(a, e)'
    <2>1. e.expires \in Nat /\ (dropped[a] # None => dropped[a] \in Nat)
      BY <1>1 DEF Entry
    <2> QED BY <1>1, <1>2, <2>1 DEF EntryOK
  <1>3. ASSUME NEW a \in Dids, cache[a] # None, cache'[a] = cache[a]
        PROVE  CacheTtl # 0 /\ EntryOK(a, cache[a])'
    <2>1. PICK e \in Entry : e = cache[a]
      BY <1>1, <1>3
    <2>2. CacheTtl # 0 /\ EntryOK(a, e)
      BY <1>3, <2>1 DEF IInv, ResolverOK, CacheOK
    <2>3. EntryOK(a, e)'
      BY <1>2, <2>2
    <2> QED BY <1>3, <2>1, <2>2, <2>3 DEF EntryOK
  <1>4. CASE CacheTtl = 0
    BY <1>1, <1>3, <1>4 DEF Remember, CacheOK
  <1>5. CASE CacheTtl # 0
    <2>1. PICK e \in Entry : e = [doc |-> doc, expires |-> now + CacheTtl]
      <3>1. PICK n \in Nat : n = now + CacheTtl
        BY <1>1
      <3>2. [doc |-> doc, expires |-> n] \in Entry
        BY DEF Entry
      <3> QED BY <3>1, <3>2
    <2>2. cache' = [cache EXCEPT ![d] = e] /\ e.doc = doc /\ e.expires = now + CacheTtl
      BY <1>5, <2>1 DEF Remember
    <2>3. cache' \in [Dids -> Entry \cup {None}] /\ cache'[d] = e
          /\ \A a \in Dids \ {d} : cache'[a] = cache[a]
      BY <1>1, <2>2
    <2>4. dropped[d] # None => dropped[d] \in Nat
      BY <1>1
    <2>5. EntryOK(d, e)'
      BY <1>1, <2>2, <2>4 DEF EntryOK
    <2>6. ASSUME NEW a \in Dids, cache'[a] # None PROVE CacheTtl # 0 /\ EntryOK(a, cache[a])'
      <3>1. CASE a = d
        BY <1>5, <2>3, <2>5, <3>1 DEF EntryOK
      <3>2. CASE a # d
        BY <1>3, <2>3, <2>6, <3>2
      <3> QED BY <3>1, <3>2
    <2> QED BY <2>3, <2>6 DEF CacheOK
  <1> QED BY <1>4, <1>5

(* A fetch that arrives keeps the resolver, its own verification's or not. *)
LEMMA ArrivesOK ==
    ASSUME IInv, NEW f \in fetchers, NEW d, NEW doc, Arrives(f, d, doc),
           UNCHANGED world, v'.at = v.at, f = This \/ v' = v
    PROVE  /\ cache' \in [Dids -> Entry \cup {None}] /\ fetch' \in [fetchers -> Fetch \cup {None}]
           /\ slowest' \in Nat /\ slowest <= slowest' /\ ResolverOK'
  <1>1. UNCHANGED <<case, now, docs, dropped, revoked>>
    BY DEF world
  <1>2. /\ d \in Dids /\ doc \in SUBSET Purposes
        /\ fetch[f].asked \in Nat /\ now \in Nat /\ slowest \in Nat
        /\ dropped[d] # None /\ "assertionMethod" \in doc => fetch[f].asked <= dropped[d]
        /\ slowest' \in Nat /\ slowest <= slowest' /\ now <= fetch[f].asked + slowest'
        /\ fetch' \in [fetchers -> Fetch \cup {None}] /\ fetch'[f] = None
        /\ \A g \in fetchers \ {f} : fetch'[g] = fetch[g]
    BY ArrivalTypes
  <1>3. dropped[d] # None => dropped[d] \in Nat
    BY <1>2 DEF IInv, TypeOK
  <1>4. dropped[d] # None /\ "assertionMethod" \in doc => now <= dropped[d] + slowest'
    BY <1>2, <1>3
  <1>5. cache' \in [Dids -> Entry \cup {None}] /\ CacheOK'
    BY <1>1, <1>2, <1>4, RememberOK DEF Arrives
  <1>6. KeysOK'
    BY <1>1 DEF IInv, ResolverOK, KeysOK
  <1>7. FetchesOK'
    <2>1. \A g \in fetchers : fetch'[g] # None => g # f /\ fetch'[g] = fetch[g]
      BY <1>2
    <2>2. \A g \in fetchers : fetch'[g] # None => FetchOK(fetch[g])'
      BY <1>1, <2>1 DEF IInv, ResolverOK, FetchesOK, FetchOK
    <2>3. This \in fetchers /\ fetch'[This] \in {None, fetch[This]}
      BY <1>2 DEF fetchers
    <2>4. v'.phase \notin Lookups => fetch'[This] = None
      BY <1>2, <2>3 DEF IInv, ResolverOK, FetchesOK
    <2> QED BY <2>1, <2>2, <2>3, <2>4 DEF IInv, ResolverOK, FetchesOK, FetchOK
  <1> QED BY <1>2, <1>5, <1>6, <1>7 DEF ResolverOK

(* What looking a document up leaves in the resolver.                      *)
LEMMA ResolvesOK ==
    ASSUME IInv, NEW d \in Dids, NEW doc \in SUBSET Purposes, Resolves(d, doc),
           UNCHANGED world, v'.at = v.at
    PROVE  /\ cache' \in [Dids -> Entry \cup {None}] /\ fetch' \in [fetchers -> Fetch \cup {None}]
           /\ slowest' \in Nat /\ slowest <= slowest' /\ ResolverOK'
  <1>1. /\ UNCHANGED <<case, now, docs, dropped, revoked>> /\ now \in Nat /\ slowest \in Nat
        /\ cache \in [Dids -> Entry \cup {None}] /\ fetch \in [fetchers -> Fetch \cup {None}]
    BY DEF world, IInv, TypeOK, fetchers
  <1>2. CASE Arrives(This, d, doc)
    BY <1>2, ArrivesOK DEF fetchers
  <1>3. ASSUME fetch[This] = None, UNCHANGED <<fetch, slowest>>,
               cache' \in [Dids -> Entry \cup {None}], CacheOK'
        PROVE  ResolverOK'
    BY <1>1, <1>3 DEF IInv, ResolverOK, KeysOK, FetchesOK, FetchOK
  <1>4. CASE fetch[This] = None /\ UNCHANGED resolver
    BY <1>1, <1>3, <1>4 DEF resolver, IInv, ResolverOK, CacheOK, EntryOK
  <1>5. CASE /\ fetch[This] = None /\ doc = docs[d]
             /\ cache' = Remember(d, doc) /\ UNCHANGED <<fetch, slowest>>
    <2>1. dropped[d] # None => "assertionMethod" \notin doc
      BY <1>5 DEF IInv, ResolverOK, KeysOK
    <2>2. cache' \in [Dids -> Entry \cup {None}] /\ CacheOK'
      BY <1>1, <1>5, <2>1, RememberOK
    <2> QED BY <1>1, <1>3, <1>5, <2>2
  <1> QED BY <1>2, <1>4, <1>5 DEF Resolves

(* An assertion key that a look-up returns was its DID's until less than a *)
(* key's life before the verification began.                               *)
LEMMA KeyTrusted ==
    ASSUME IInv, NEW d \in Dids, NEW doc \in SUBSET Purposes, Resolves(d, doc),
           "assertionMethod" \in doc, dropped[d] # None
    PROVE  v.at < dropped[d] + keyLife'
  <1>1. /\ v.at \in Nat /\ now \in Nat /\ v.at <= now /\ dropped[d] \in Nat
        /\ CacheTtl \in Nat /\ slowest \in Nat
    BY VerificationAssumption DEF IInv, TypeOK, ResolverOK, KeysOK
  <1>2. CASE Cached(d) /\ doc = cache[d].doc /\ UNCHANGED resolver
    <2>1. /\ cache[d].expires \in Nat /\ cache[d].expires > now /\ CacheTtl # 0
          /\ cache[d].expires <= dropped[d] + CacheTtl + slowest
      BY <1>2 DEF IInv, TypeOK, ResolverOK, CacheOK, EntryOK, Cached, Entry
    <2>2. keyLife' = CacheTtl + slowest
      BY <1>2, <2>1 DEF keyLife, resolver
    <2> QED BY <1>1, <2>1, <2>2
  <1>3. CASE doc = docs[d]
    BY <1>3 DEF IInv, ResolverOK, KeysOK
  <1>4. CASE Arrives(This, d, doc)
    <2>1. fetch[This].asked \in Nat /\ fetch[This].asked <= dropped[d] /\ slowest' \in Nat
      BY <1>4, ArrivalTypes DEF fetchers
    <2>2. v.at <= fetch[This].asked
      BY <1>4 DEF Arrives, IInv, ResolverOK, FetchesOK
    <2>3. keyLife' \in Nat /\ keyLife' >= 1
      BY <1>1, <2>1 DEF keyLife
    <2> QED BY <1>1, <2>1, <2>2, <2>3
  <1> QED BY <1>2, <1>3, <1>4 DEF Resolves
-----------------------------------------------------------------------------
(* The steps                                                               *)

Verification ==
    [phase : Phases, at : Nat, i : Nat, fresh : BOOLEAN, lost : SUBSET links, runs : Nat]

(* Nor does trust change while no fetch arrives.                           *)
LEMMA TrustKept ==
    ASSUME UNCHANGED <<case, dropped, slowest>>, v'.at = v.at
    PROVE  \A j : Trusted(j)' = Trusted(j)
  BY CaseKept DEF Trusted, keyLife

LEMMA StartStep == ASSUME IInv, Start PROVE IInv'
  <1>1. /\ UNCHANGED <<case, now, docs, dropped, revoked, cache, fetch, slowest>>
        /\ case \in Cases
    BY DEF Start, IInv, world, resolver
  <1>2. /\ chain' = chain /\ links' = links /\ modern' = modern
        /\ presentation' = presentation /\ LegacyCanStart' = LegacyCanStart
    BY <1>1, CaseKept
  <1>3. /\ v'.phase = "rejected" \/ (v'.phase = "proof" /\ (modern \/ LegacyCanStart))
        /\ v'.at = now /\ v'.i = 1 /\ v'.fresh = modern /\ v'.lost = revoked
    BY DEF Start
  <1>4. v' \in Verification
    <2>1. v.runs + 1 \in Nat /\ now \in Nat /\ revoked \in SUBSET links /\ modern \in BOOLEAN
      BY DEF IInv, TypeOK, modern, links
    <2> DEFINE p == IF RequireProfile /\ (modern \/ LegacyCanStart) THEN "proof" ELSE "rejected"
    <2>2. p \in Phases
      BY DEF Phases
    <2>3. v' = [phase |-> p, at |-> now, i |-> 1, fresh |-> modern, lost |-> revoked, runs |-> v.runs + 1]
      BY DEF Start
    <2> HIDE DEF p
    <2> QED BY <2>1, <2>2, <2>3 DEF Verification
  <1>5. TypeOK'
    BY <1>1, <1>2, <1>3, <1>4 DEF IInv, TypeOK, Verification, links
  <1>6. SignaturesOK'
    BY <1>3 DEF SignaturesOK, Checked
  <1>7. ProfileOK'
    BY <1>1, <1>2, <1>3, CaseTypes DEF ProfileOK, LegacyCanStart
  <1>8. ResolverOK'
    <2>1. fetch[This] = None /\ now <= now
      BY DEF Start, Lookups, IInv, TypeOK, ResolverOK, FetchesOK
    <2> QED BY <1>1, <1>3, <2>1 DEF IInv, ResolverOK, KeysOK, FetchesOK, FetchOK, CacheOK, EntryOK
  <1>9. RevocationOK'
    BY <1>1, <1>2, <1>3 DEF IInv, RevocationOK
  <1>10. AcceptanceOK'
    BY <1>3 DEF AcceptanceOK, accepted
  <1> QED BY <1>1, <1>5, <1>6, <1>7, <1>8, <1>9, <1>10 DEF IInv

(* A look-up keeps the types and the resolver; rejection keeps it all.     *)
LEMMA LookUp ==
    ASSUME IInv, NEW d \in Dids, NEW doc \in SUBSET Purposes, Resolves(d, doc), UNCHANGED world,
           v' \in Verification, v'.at = v.at, v'.lost = v.lost
    PROVE  /\ UNCHANGED <<case, now, docs, dropped, revoked>> /\ case' \in Cases
           /\ ResolverOK' /\ v'.lost \subseteq revoked'
           /\ \A j \in links : Trusted(j) => Trusted(j)'
           /\ (v'.phase \in {"method", "document", "revocation"} => v'.i \in links) => TypeOK'
           /\ v'.phase = "rejected" => IInv'
  <1> UNCHANGED <<case, now, docs, dropped, revoked>>
    BY DEF world
  <1>1. /\ chain' = chain /\ links' = links /\ modern' = modern
        /\ presentation' = presentation /\ LegacyCanStart' = LegacyCanStart
    BY CaseKept
  <1>2. /\ cache' \in [Dids -> Entry \cup {None}] /\ fetch' \in [fetchers -> Fetch \cup {None}]
        /\ slowest' \in Nat /\ slowest <= slowest' /\ ResolverOK'
    BY ResolvesOK
  <1>3. case' \in Cases /\ v'.lost \subseteq revoked'
    BY DEF IInv, RevocationOK
  <1>4. (v'.phase \in {"method", "document", "revocation"} => v'.i \in links) => TypeOK'
    BY <1>1, <1>2 DEF IInv, TypeOK, Verification, links, fetchers
  <1>5. ASSUME v'.phase = "rejected" PROVE IInv'
    <2>1. SignaturesOK' /\ ProfileOK' /\ AcceptanceOK'
      BY <1>5 DEF SignaturesOK, Checked, ProfileOK, AcceptanceOK, accepted
    <2>2. RevocationOK'
      BY <1>1, <1>3, <1>5 DEF IInv, RevocationOK
    <2> QED BY <1>2, <1>3, <1>4, <1>5, <2>1, <2>2 DEF IInv
  <1>6. \A j \in links : Trusted(j) => Trusted(j)'
    BY <1>2, TrustGrows
  <1> QED BY <1>2, <1>3, <1>4, <1>5, <1>6

LEMMA ProofStep == ASSUME IInv, VerifyProof PROVE IInv'
  <1>1. PICK doc \in SUBSET Purposes :
            /\ UNCHANGED world /\ UNCHANGED case /\ case \in Cases
            /\ v.phase = "proof" /\ Resolves(presentation.proof.did, doc)
            /\ v' = Continue(IF modern THEN "method" ELSE "legacy", ProofHolds(doc) /\ presentation.request.strict)
    BY DEF VerifyProof, IInv, world
  <1>2. /\ chain' = chain /\ links' = links /\ modern' = modern
        /\ presentation' = presentation /\ LegacyCanStart' = LegacyCanStart
    BY <1>1, CaseKept
  <1>3. v \in Verification
    BY DEF IInv, TypeOK, Verification, links
  <1>4. /\ v'.phase = "rejected" \/ v'.phase = IF modern THEN "method" ELSE "legacy"
        /\ v'.at = v.at /\ v'.i = v.i /\ v'.fresh = v.fresh /\ v'.lost = v.lost
        /\ v' \in Verification
    BY <1>1, <1>3 DEF Continue, Verification, Phases
  <1>5. presentation.proof.did \in Dids
    BY <1>1, CaseTypes DEF IInv, ProfileOK
  <1>6. /\ case' \in Cases /\ ResolverOK' /\ v'.lost \subseteq revoked' /\ revoked' = revoked
        /\ \A j \in links : Trusted(j) => Trusted(j)'
        /\ (v'.phase \in {"method", "document", "revocation"} => v'.i \in links) => TypeOK'
        /\ v'.phase = "rejected" => IInv'
    BY <1>1, <1>4, <1>5, LookUp
  <1>7. CASE v'.phase = "rejected"
    BY <1>6, <1>7
  <1>8. CASE v'.phase = IF modern THEN "method" ELSE "legacy"
    <2>1. v'.i = 1 /\ 1 \in links
      BY <1>1, <1>4, CaseTypes DEF IInv, SignaturesOK, links
    <2>2. TypeOK' /\ SignaturesOK'
      BY <1>6, <1>8, <2>1 DEF SignaturesOK, Checked
    <2>3. ProfileOK'
      BY <1>1, <1>2, <1>8 DEF IInv, ProfileOK
    <2>4. RevocationOK' /\ AcceptanceOK'
      BY <1>1, <1>2, <1>4, <1>6, <1>8 DEF IInv, RevocationOK, AcceptanceOK, accepted
    <2> QED BY <1>6, <2>2, <2>3, <2>4 DEF IInv
  <1> QED BY <1>4, <1>7, <1>8

LEMMA MethodStep == ASSUME IInv, ResolveMethod PROVE IInv'
  <1>1. PICK doc \in SUBSET Purposes :
            /\ UNCHANGED world /\ UNCHANGED case /\ case \in Cases
            /\ v.phase = "method" /\ Resolves(chain[v.i].signer, doc) /\ v.i \in links
            /\ v' = Continue("document", doc # {})
    BY DEF ResolveMethod, IInv, TypeOK, links, world
  <1>2. /\ chain' = chain /\ links' = links /\ modern' = modern
        /\ presentation' = presentation /\ LegacyCanStart' = LegacyCanStart
    BY <1>1, CaseKept
  <1>3. v \in Verification
    BY DEF IInv, TypeOK, Verification, links
  <1>4. /\ v'.phase = "rejected" \/ v'.phase = "document"
        /\ v'.at = v.at /\ v'.i = v.i /\ v'.fresh = v.fresh /\ v'.lost = v.lost
        /\ v' \in Verification
    BY <1>1, <1>3 DEF Continue, Verification, Phases
  <1>5. chain[v.i].signer \in Dids
    BY <1>1, CaseTypes
  <1>6. /\ case' \in Cases /\ ResolverOK' /\ v'.lost \subseteq revoked' /\ revoked' = revoked
        /\ \A j \in links : Trusted(j) => Trusted(j)'
        /\ (v'.phase \in {"method", "document", "revocation"} => v'.i \in links) => TypeOK'
        /\ v'.phase = "rejected" => IInv'
    BY <1>1, <1>4, <1>5, LookUp
  <1>7. CASE v'.phase = "rejected"
    BY <1>6, <1>7
  <1>8. CASE v'.phase = "document"
    <2>1. TypeOK'
      BY <1>1, <1>4, <1>6
    <2>2. SignaturesOK'
      <3>1. 1..(v.i - 1) \subseteq links
        BY <1>1, CaseTypes DEF links
      <3> QED BY <1>1, <1>4, <1>6, <1>8, <3>1 DEF IInv, SignaturesOK, Checked
    <2>3. ProfileOK'
      BY <1>1, <1>2, <1>8 DEF IInv, ProfileOK
    <2>4. RevocationOK' /\ AcceptanceOK'
      BY <1>1, <1>2, <1>4, <1>6, <1>8 DEF IInv, RevocationOK, AcceptanceOK, accepted
    <2> QED BY <1>6, <2>1, <2>2, <2>3, <2>4 DEF IInv
  <1> QED BY <1>4, <1>7, <1>8

(* The key a look-up returns makes the credential trusted.                 *)
LEMMA NewlyTrusted ==
    ASSUME IInv, NEW j \in links, NEW doc \in SUBSET Purposes, Resolves(chain[j].issuer, doc),
           IssuersKey(chain[j], doc), UNCHANGED <<case, dropped>>, v'.at = v.at
    PROVE  Trusted(j)'
  <1>1. chain[j].issuer \in Dids /\ chain' = chain
    BY CaseTypes, CaseKept DEF IInv
  <1> QED BY <1>1, KeyTrusted DEF IssuersKey, AssertionMethod, Trusted

LEMMA SignatureStep == ASSUME IInv, VerifySignature PROVE IInv'
  <1>1. PICK doc \in SUBSET Purposes :
            /\ UNCHANGED world /\ UNCHANGED <<case, dropped>> /\ case \in Cases
            /\ v.phase = "document" /\ Resolves(chain[v.i].issuer, doc) /\ v.i \in links
            /\ v' = [Continue(IF v.i = Len(chain) THEN "revocation" ELSE "method", IssuersKey(chain[v.i], doc))
                     EXCEPT !.i = NextLink]
    BY DEF VerifySignature, IInv, TypeOK, links, world
  <1>2. /\ chain' = chain /\ links' = links /\ modern' = modern
        /\ presentation' = presentation /\ LegacyCanStart' = LegacyCanStart
    BY <1>1, CaseKept
  <1>3. v \in Verification /\ Len(chain) \in Nat /\ Len(chain) > 0 /\ v.i \in Nat
    BY <1>1, CaseTypes DEF IInv, TypeOK, Verification, links
  <1> DEFINE good == IssuersKey(chain[v.i], doc)
  <1>4. NextLink \in Nat
    BY <1>3 DEF NextLink
  <1>5. /\ v'.phase = IF good THEN IF v.i = Len(chain) THEN "revocation" ELSE "method" ELSE "rejected"
        /\ v'.at = v.at /\ v'.i = NextLink /\ v'.fresh = v.fresh /\ v'.lost = v.lost
        /\ v' \in Verification
    <2> DEFINE w == Continue(IF v.i = Len(chain) THEN "revocation" ELSE "method", good)
    <2>1. /\ w \in Verification /\ w.at = v.at /\ w.fresh = v.fresh /\ w.lost = v.lost
          /\ w.phase = IF good THEN IF v.i = Len(chain) THEN "revocation" ELSE "method" ELSE "rejected"
      BY <1>3 DEF Continue, Verification, Phases
    <2>2. v' = [w EXCEPT !.i = NextLink]
      BY <1>1
    <2> HIDE DEF w, good
    <2> QED BY <1>4, <2>1, <2>2 DEF Verification
  <1>6. chain[v.i].issuer \in Dids
    BY <1>1, CaseTypes
  <1>7. /\ case' \in Cases /\ ResolverOK' /\ v'.lost \subseteq revoked' /\ revoked' = revoked
        /\ \A j \in links : Trusted(j) => Trusted(j)'
        /\ (v'.phase \in {"method", "document", "revocation"} => v'.i \in links) => TypeOK'
        /\ v'.phase = "rejected" => IInv'
    BY <1>1, <1>5, <1>6, LookUp
  <1>8. CASE ~good
    BY <1>5, <1>7, <1>8
  <1>9. CASE good
    <2>0. /\ UNCHANGED <<case, dropped>> /\ doc \in SUBSET Purposes /\ case \in Cases /\ v.phase = "document" /\ v.i \in links
          /\ Resolves(chain[v.i].issuer, doc) /\ IssuersKey(chain[v.i], doc)
          /\ v'.phase = (IF v.i = Len(chain) THEN "revocation" ELSE "method")
      BY <1>1, <1>5, <1>9
    <2> HIDE DEF good
    <2>1. PICK last \in links : last = v.i
      BY <2>0
    <2>2. \A j \in 1..last : Trusted(j)'
      <3>1. Resolves(chain[last].issuer, doc) /\ IssuersKey(chain[last], doc) /\ v'.at = v.at
        BY <1>5, <2>0, <2>1
      <3>2. Trusted(last)'
        BY <2>0, <3>1, NewlyTrusted
      <3>3. \A j \in 1..(last - 1) : Trusted(j)
        BY <2>0, <2>1 DEF IInv, SignaturesOK, Checked
      <3>4. \A j \in 1..last : j \in links /\ (j = last \/ j \in 1..(last - 1))
        BY <1>3, <2>1 DEF links
      <3> QED BY <1>7, <3>2, <3>3, <3>4
    <2>3. TypeOK'
      BY <1>3, <1>5, <1>7, <2>0 DEF links, NextLink
    <2>4. SignaturesOK'
      BY <1>2, <1>3, <1>5, <2>0, <2>1, <2>2 DEF SignaturesOK, Checked, NextLink, links
    <2>5. ProfileOK'
      BY <1>2, <1>5, <2>0 DEF IInv, ProfileOK
    <2>6. v'.phase = "revocation" => \A j \in v'.lost : j >= v'.i
      BY <1>3, <1>5, <2>0 DEF NextLink, Verification, links
    <2>7. RevocationOK' /\ AcceptanceOK'
      BY <1>2, <1>5, <1>7, <2>0, <2>6 DEF IInv, ProfileOK, RevocationOK, AcceptanceOK, accepted
    <2> QED BY <1>7, <2>3, <2>4, <2>5, <2>7 DEF IInv
  <1> QED BY <1>8, <1>9

(* A legacy presentation is a single credential.                           *)
LEMMA OneCredential ==
    ASSUME case \in Cases, ~modern
    PROVE  Len(chain) = 1 /\ leaf = chain[1] /\ links = {1}
  <1>1. Len(chain) = 1
    BY CaseTypes
  <1>2. 1..1 = {1}
    OBVIOUS
  <1> QED BY <1>1, <1>2 DEF leaf, links

LEMMA LegacySignatureStep == ASSUME IInv, LegacySignature PROVE IInv'
  <1>1. PICK doc \in SUBSET Purposes :
            /\ UNCHANGED world /\ UNCHANGED <<case, dropped>> /\ case \in Cases
            /\ v.phase = "legacy" /\ Resolves(leaf.issuer, doc) /\ ~modern
            /\ v' = Continue("legacy status", IssuersKey(leaf, doc))
    BY DEF LegacySignature, IInv, ProfileOK, world
  <1>2. /\ chain' = chain /\ links' = links /\ modern' = modern
        /\ presentation' = presentation /\ LegacyCanStart' = LegacyCanStart
    BY <1>1, CaseKept
  <1>3. v \in Verification
    BY DEF IInv, TypeOK, Verification, links
  <1>4. /\ v'.phase = IF IssuersKey(leaf, doc) THEN "legacy status" ELSE "rejected"
        /\ v'.at = v.at /\ v'.i = v.i /\ v'.fresh = v.fresh /\ v'.lost = v.lost
        /\ v' \in Verification
    BY <1>1, <1>3 DEF Continue, Verification, Phases
  <1>5. leaf = chain[1] /\ links = {1}
    BY <1>1, OneCredential
  <1>6. leaf.issuer \in Dids
    BY <1>1, <1>5, CaseTypes
  <1>7. /\ case' \in Cases /\ ResolverOK' /\ v'.lost \subseteq revoked' /\ revoked' = revoked
        /\ \A j \in links : Trusted(j) => Trusted(j)'
        /\ (v'.phase \in {"method", "document", "revocation"} => v'.i \in links) => TypeOK'
        /\ v'.phase = "rejected" => IInv'
    BY <1>1, <1>4, <1>6, LookUp
  <1>8. CASE v'.phase = "rejected"
    BY <1>7, <1>8
  <1>9. CASE v'.phase = "legacy status"
    <2>1. Trusted(1)'
      BY <1>1, <1>4, <1>5, <1>9, NewlyTrusted
    <2>2. SignaturesOK'
      BY <1>2, <1>5, <1>9, <2>1 DEF SignaturesOK, Checked
    <2>3. ProfileOK' /\ TypeOK'
      BY <1>1, <1>2, <1>7, <1>9 DEF IInv, ProfileOK
    <2>4. RevocationOK' /\ AcceptanceOK'
      BY <1>1, <1>2, <1>4, <1>7, <1>9 DEF IInv, RevocationOK, AcceptanceOK, accepted
    <2> QED BY <1>7, <2>2, <2>3, <2>4 DEF IInv
  <1> QED BY <1>4, <1>8, <1>9

(* Between the look-ups only the verification moves: a rejection keeps the *)
(* invariant whatever else it writes.                                      *)
LEMMA VerdictOnly ==
    ASSUME IInv, UNCHANGED <<world, resolver>>, v.phase \notin Lookups,
           v' \in Verification, v'.at = v.at, v'.lost = v.lost
    PROVE  /\ case' \in Cases /\ ResolverOK' /\ v'.lost \subseteq revoked'
           /\ (v'.phase \in {"method", "document", "revocation"} => v'.i \in links) => TypeOK'
           /\ v'.phase = "rejected" => IInv'
  <1> UNCHANGED <<case, now, docs, dropped, revoked, cache, fetch, slowest>>
    BY DEF world, resolver
  <1>1. /\ chain' = chain /\ links' = links /\ modern' = modern
        /\ presentation' = presentation /\ LegacyCanStart' = LegacyCanStart
    BY CaseKept
  <1>2. case' \in Cases /\ v'.lost \subseteq revoked'
    BY DEF IInv, RevocationOK
  <1>3. ResolverOK'
    BY DEF IInv, ResolverOK, KeysOK, FetchesOK, FetchOK, CacheOK, EntryOK
  <1>4. (v'.phase \in {"method", "document", "revocation"} => v'.i \in links) => TypeOK'
    BY <1>1 DEF IInv, TypeOK, Verification, links
  <1>5. ASSUME v'.phase = "rejected" PROVE IInv'
    <2>1. SignaturesOK' /\ ProfileOK' /\ AcceptanceOK'
      BY <1>5 DEF SignaturesOK, Checked, ProfileOK, AcceptanceOK, accepted
    <2>2. RevocationOK'
      BY <1>1, <1>2, <1>5 DEF IInv, RevocationOK
    <2> QED BY <1>2, <1>3, <1>4, <1>5, <2>1, <2>2 DEF IInv
  <1> QED BY <1>2, <1>3, <1>4, <1>5

LEMMA FailureStep == ASSUME IInv, ResolutionFails PROVE IInv'
  <1>1. v \in Verification /\ fetch \in [fetchers -> Fetch \cup {None}] /\ This \in fetchers
    BY DEF IInv, TypeOK, Verification, links, fetchers
  <1>2. /\ v'.phase = "rejected" /\ v'.at = v.at /\ v'.lost = v.lost /\ v' \in Verification
        /\ UNCHANGED <<case, now, docs, dropped, revoked, cache, slowest>>
        /\ fetch' = [fetch EXCEPT ![This] = None]
    BY <1>1 DEF ResolutionFails, Continue, Verification, Phases, world
  <1>3. /\ fetch' \in [fetchers -> Fetch \cup {None}] /\ fetch'[This] = None
        /\ \A f \in fetchers : fetch'[f] # None => fetch'[f] = fetch[f]
    BY <1>1, <1>2
  <1>4. chain' = chain /\ links' = links
    BY <1>2, CaseKept
  <1>5. ResolverOK'
    BY <1>2, <1>3 DEF IInv, ResolverOK, KeysOK, FetchesOK, FetchOK, CacheOK, EntryOK
  <1>6. TypeOK'
    BY <1>2, <1>3, <1>4 DEF IInv, TypeOK, Verification, links, fetchers
  <1>7. SignaturesOK' /\ ProfileOK' /\ AcceptanceOK'
    BY <1>2 DEF SignaturesOK, Checked, ProfileOK, AcceptanceOK, accepted
  <1>8. RevocationOK'
    BY <1>2, <1>4 DEF IInv, RevocationOK
  <1> QED BY <1>2, <1>5, <1>6, <1>7, <1>8 DEF IInv

(* The resolver moves, and the verification does not.                      *)
LEMMA ResolverStep ==
    ASSUME IInv, UNCHANGED <<world, v>>, cache' \in [Dids -> Entry \cup {None}],
           fetch' \in [fetchers -> Fetch \cup {None}], slowest' \in Nat, slowest <= slowest',
           ResolverOK'
    PROVE  IInv'
  <1> UNCHANGED <<case, now, docs, dropped, revoked>>
    BY DEF world
  <1>1. /\ chain' = chain /\ links' = links /\ modern' = modern
        /\ presentation' = presentation /\ LegacyCanStart' = LegacyCanStart
    BY CaseKept
  <1>2. TypeOK'
    BY <1>1 DEF IInv, TypeOK, links, fetchers
  <1>3. SignaturesOK'
    <2>1. \A j \in links : Trusted(j) => Trusted(j)'
      BY TrustGrows
    <2>2. v.phase \in {"method", "document"} => 1..(v.i - 1) \subseteq links
      BY CaseTypes DEF IInv, TypeOK, links
    <2> QED BY <1>1, <2>1, <2>2 DEF IInv, SignaturesOK
  <1>4. ProfileOK' /\ RevocationOK'
    BY <1>1 DEF IInv, ProfileOK, RevocationOK
  <1>5. AcceptanceOK'
    BY <1>1, AcceptanceKept DEF IInv, AcceptanceOK, accepted
  <1> QED BY <1>2, <1>3, <1>4, <1>5 DEF IInv

(* One fetch is sent, answered or given up, or nothing moves it.           *)
LEMMA FetchStep ==
    ASSUME IInv, NEW f \in fetchers, NEW x \in Fetch \cup {None}, fetch' = [fetch EXCEPT ![f] = x],
           UNCHANGED <<world, cache, slowest, v>>, x # None => FetchOK(x),
           f = This /\ x # None => v.phase \in Lookups /\ v.at <= x.asked
    PROVE  IInv'
  <1>1. UNCHANGED <<case, now, docs, dropped, revoked>> /\ fetch \in [fetchers -> Fetch \cup {None}]
    BY DEF world, IInv, TypeOK, fetchers
  <1>2. /\ fetch' \in [fetchers -> Fetch \cup {None}] /\ fetch'[f] = x
        /\ \A g \in fetchers \ {f} : fetch'[g] = fetch[g]
    BY <1>1
  <1>3. \A g \in fetchers : fetch'[g] # None => FetchOK(fetch[g])'
    <2> SUFFICES ASSUME NEW g \in fetchers, fetch'[g] # None PROVE FetchOK(fetch[g])'
      OBVIOUS
    <2>1. CASE g = f
      BY <1>1, <1>2, <2>1 DEF FetchOK
    <2>2. CASE g # f
      BY <1>1, <1>2, <2>2 DEF IInv, ResolverOK, FetchesOK, FetchOK
    <2> QED BY <2>1, <2>2
  <1>4. This \in fetchers
    BY DEF fetchers
  <1>5. FetchesOK'
    <2>1. CASE f = This
      BY <1>2, <1>3, <2>1 DEF FetchesOK
    <2>2. CASE f # This
      BY <1>2, <1>3, <1>4, <2>2 DEF IInv, ResolverOK, FetchesOK
    <2> QED BY <2>1, <2>2
  <1>6. KeysOK' /\ CacheOK'
    BY <1>1 DEF IInv, ResolverOK, KeysOK, CacheOK, EntryOK
  <1>7. slowest \in Nat /\ cache \in [Dids -> Entry \cup {None}] /\ slowest <= slowest
    BY DEF IInv, TypeOK
  <1> QED BY <1>2, <1>5, <1>6, <1>7, ResolverStep DEF ResolverOK

LEMMA AskStep ==
    ASSUME IInv, NEW f \in fetchers, NEW d, Ask(f, d), f = This => v.phase \in Lookups
    PROVE  IInv'
  <1> DEFINE x == [did |-> d, asked |-> now, answered |-> FALSE, doc |-> {}]
  <1>1. now \in Nat /\ v.at <= now /\ d \in WebDids
    BY DEF Ask, IInv, TypeOK, ResolverOK, KeysOK
  <1>2. x \in Fetch /\ x.asked = now /\ ~x.answered
    BY <1>1 DEF Fetch
  <1>3. fetch' = [fetch EXCEPT ![f] = x] /\ UNCHANGED <<world, cache, slowest, v>>
    BY DEF Ask
  <1>4. PICK y \in Fetch : y = x
    BY <1>2
  <1> HIDE DEF x
  <1>5. FetchOK(y)
    BY <1>1, <1>2, <1>4 DEF FetchOK
  <1> QED BY <1>1, <1>2, <1>3, <1>4, <1>5, FetchStep

(* The answer lists the key only if it has not been dropped yet.           *)
LEMMA AnswerStep == ASSUME IInv, NEW f \in fetchers, Answer(f) PROVE IInv'
  <1>1. /\ fetch[f] # None /\ fetch[f] \in Fetch /\ fetch \in [fetchers -> Fetch \cup {None}]
        /\ docs \in [Dids -> SUBSET Purposes]
    BY DEF Answer, IInv, TypeOK, fetchers
  <1>2. fetch[f].did \in WebDids /\ fetch[f].did \in Dids
    BY <1>1, VerificationAssumption DEF Fetch
  <1> DEFINE x == [[fetch[f] EXCEPT !.answered = TRUE] EXCEPT !.doc = docs[fetch[f].did]]
  <1>3. /\ x \in Fetch /\ x.did = fetch[f].did /\ x.asked = fetch[f].asked
        /\ x.doc = docs[fetch[f].did]
    BY <1>1, <1>2 DEF Fetch
  <1>4. fetch' = [fetch EXCEPT ![f] = x] /\ UNCHANGED <<world, cache, slowest, v>>
    BY <1>1 DEF Answer
  <1>5. PICK y \in Fetch : y = x
    BY <1>3
  <1> HIDE DEF x
  <1>6. FetchOK(y)
    BY <1>1, <1>2, <1>3, <1>5 DEF IInv, ResolverOK, KeysOK, FetchesOK, FetchOK
  <1>7. f = This => v.phase \in Lookups /\ v.at <= y.asked
    BY <1>1, <1>3, <1>5 DEF IInv, ResolverOK, FetchesOK
  <1> QED BY <1>4, <1>5, <1>6, <1>7, FetchStep

LEMMA OthersStep ==
    ASSUME IInv, NEW f \in Others, OtherAsks(f) \/ OtherArrives(f) \/ OtherFails(f)
    PROVE  IInv'
  <1>1. f \in fetchers /\ f # This
    BY VerificationAssumption DEF fetchers
  <1>2. CASE OtherAsks(f)
    BY <1>1, <1>2, AskStep DEF OtherAsks
  <1>3. CASE OtherArrives(f)
    <2>1. PICK d \in WebDids, doc \in SUBSET Purposes : Arrives(f, d, doc)
      BY <1>3 DEF OtherArrives
    <2>2. UNCHANGED <<world, v>> /\ v'.at = v.at
      BY <1>3 DEF OtherArrives
    <2> QED BY <1>1, <2>1, <2>2, ArrivesOK, ResolverStep
  <1>4. CASE OtherFails(f)
    <2>1. fetch' = [fetch EXCEPT ![f] = None] /\ UNCHANGED <<world, cache, slowest, v>>
      BY <1>4 DEF OtherFails
    <2> QED BY <1>1, <2>1, FetchStep
  <1> QED BY <1>2, <1>3, <1>4

(* A fresh status answer is true.                                          *)
LEMMA FreshIsTrue ==
    ASSUME NEW j, NEW answer \in StatusAnswers(j)
    PROVE  answer.fresh \in BOOLEAN /\ (answer.fresh => (answer.revoked <=> j \in revoked))
  <1>1. CASE answer = [revoked |-> j \in revoked, fresh |-> TRUE]
    BY <1>1
  <1>2. CASE answer \in [revoked : BOOLEAN, fresh : {FALSE}]
    BY <1>2
  <1> QED BY <1>1, <1>2 DEF StatusAnswers

LEMMA RevocationStep == ASSUME IInv, CheckRevocation PROVE IInv'
  <1>1. /\ UNCHANGED <<world, resolver>> /\ UNCHANGED <<case, revoked, dropped, slowest>> /\ case \in Cases
        /\ v.phase \notin Lookups
        /\ v.phase = "revocation" /\ v.i \in links /\ modern
    BY DEF CheckRevocation, IInv, TypeOK, ProfileOK, links, world, resolver, Lookups
  <1>2. /\ chain' = chain /\ links' = links /\ modern' = modern
        /\ presentation' = presentation /\ LegacyCanStart' = LegacyCanStart
    BY <1>1, CaseKept
  <1>3. /\ v \in Verification /\ Len(chain) \in Nat /\ v.i \in Nat /\ v.i <= Len(chain)
        /\ v.lost \subseteq links /\ v.fresh \in BOOLEAN
    BY <1>1, CaseTypes DEF IInv, TypeOK, Verification, links
  <1>4. AfterStatus \in Phases /\ AfterStatus # "rejected"
        /\ AfterStatus = IF v.i = Len(chain) THEN "decide" ELSE "revocation"
    BY DEF AfterStatus, Phases
  (* What lies ahead of the next index when this answer was fresh.         *)
  <1> DEFINE Answered ==
                /\ v'.phase \in {AfterStatus, "rejected"}
                /\ v'.at = v.at /\ v'.i = v.i + 1 /\ v'.lost = v.lost /\ v' \in Verification
                /\ v'.phase # "rejected" /\ v'.fresh => v.fresh /\ v.i \notin revoked
  <1>5. v.i + 1 \in Nat
    BY <1>3
  <1>6. Answered
    <2>1. CASE ~chain[v.i].status /\ v' = [v EXCEPT !.phase = AfterStatus, !.i = v.i + 1, !.fresh = FALSE]
      <3> DEFINE w == [v EXCEPT !.phase = AfterStatus]
      <3>1. /\ w \in Verification /\ w.at = v.at /\ w.lost = v.lost /\ w.phase = AfterStatus
        BY <1>3, <1>4 DEF Verification
      <3>2. v' = [w EXCEPT !.i = v.i + 1, !.fresh = FALSE]
        BY <2>1
      <3>3. w.phase \in {AfterStatus, "rejected"}
        BY <3>1
      <3> HIDE DEF w
      <3>4. /\ v' \in Verification /\ v'.i = v.i + 1 /\ v'.fresh = FALSE /\ v'.phase = w.phase
            /\ v'.at = w.at /\ v'.lost = w.lost
        <4> DEFINE n == v.i + 1
        <4>1. n \in Nat /\ v' = [w EXCEPT !.i = n, !.fresh = FALSE]
          BY <1>5, <3>2
        <4> HIDE DEF n
        <4>2. /\ v' \in Verification /\ v'.i = n /\ v'.fresh = FALSE /\ v'.phase = w.phase
              /\ v'.at = w.at /\ v'.lost = w.lost
          BY <3>1, <4>1 DEF Verification
        <4> QED BY <4>2 DEF n
      <3> QED BY <3>1, <3>3, <3>4
    <2>2. ASSUME NEW answer \in StatusAnswers(v.i),
                 v' = [Continue(AfterStatus, StatusPasses(answer))
                       EXCEPT !.i = v.i + 1, !.fresh = v.fresh /\ answer.fresh]
          PROVE  Answered
      <3> DEFINE w == Continue(AfterStatus, StatusPasses(answer))
                 f == v.fresh /\ answer.fresh
      <3>1. /\ w \in Verification /\ w.at = v.at /\ w.lost = v.lost
            /\ w.phase = IF StatusPasses(answer) THEN AfterStatus ELSE "rejected"
        BY <1>3, <1>4 DEF Continue, Verification, Phases
      <3>2. answer.fresh \in BOOLEAN /\ (answer.fresh => (answer.revoked <=> v.i \in revoked))
        BY FreshIsTrue
      <3>3. StatusPasses(answer) => ~answer.revoked
        BY DEF StatusPasses
      <3>4. f \in BOOLEAN /\ (f /\ StatusPasses(answer) => v.fresh /\ v.i \notin revoked)
        BY <1>3, <3>2, <3>3
      <3>5. v' = [w EXCEPT !.i = v.i + 1, !.fresh = f]
        BY <2>2
      <3> HIDE DEF w, f
      <3>6. v'.phase = w.phase /\ v'.fresh = f /\ v'.i = v.i + 1 /\ v'.at = w.at /\ v'.lost = w.lost
            /\ v' \in Verification
        <4> DEFINE n == v.i + 1
        <4>1. n \in Nat /\ v' = [w EXCEPT !.i = n, !.fresh = f]
          BY <1>5, <3>5
        <4> HIDE DEF n
        <4>2. /\ v' \in Verification /\ v'.i = n /\ v'.fresh = f /\ v'.phase = w.phase
              /\ v'.at = w.at /\ v'.lost = w.lost
          BY <3>1, <3>4, <4>1 DEF Verification
        <4> QED BY <4>2 DEF n
      <3>7. v'.phase \in {AfterStatus, "rejected"}
        BY <3>1, <3>6
      <3>8. v'.phase # "rejected" /\ v'.fresh => v.fresh /\ v.i \notin revoked
        BY <3>1, <3>4, <3>6
      <3> QED BY <3>1, <3>6, <3>7, <3>8
    <2> QED BY <2>1, <2>2 DEF CheckRevocation
  <1>7. /\ case' \in Cases /\ ResolverOK' /\ v'.lost \subseteq revoked'
        /\ (v'.phase \in {"method", "document", "revocation"} => v'.i \in links) => TypeOK'
        /\ v'.phase = "rejected" => IInv'
    BY <1>1, <1>6, VerdictOnly
  <1>8. CASE v'.phase = "rejected"
    BY <1>7, <1>8
  <1>9. CASE v'.phase = AfterStatus
    <2>1. TypeOK'
      BY <1>3, <1>4, <1>6, <1>7, <1>9 DEF links
    <2>2. SignaturesOK'
      BY <1>1, <1>2, <1>4, <1>6, <1>9, TrustKept DEF IInv, SignaturesOK, Checked
    <2>3. ProfileOK'
      BY <1>1, <1>2, <1>4, <1>9 DEF IInv, ProfileOK
    <2>4. v'.fresh => \A j \in v'.lost : j >= v'.i
      BY <1>1, <1>3, <1>4, <1>6, <1>9 DEF IInv, RevocationOK, links
    <2>5. v'.phase = "decide" /\ v'.fresh => v'.lost = {}
      BY <1>3, <1>4, <1>6, <1>9, <2>4 DEF links
    <2>6. RevocationOK' /\ AcceptanceOK'
      BY <1>1, <1>2, <1>4, <1>7, <1>9, <2>4, <2>5 DEF IInv, RevocationOK, AcceptanceOK, accepted
    <2> QED BY <1>7, <2>1, <2>2, <2>3, <2>6 DEF IInv
  <1> QED BY <1>6, <1>8, <1>9

LEMMA LegacyRevocationStep == ASSUME IInv, LegacyRevocation PROVE IInv'
  <1>1. /\ UNCHANGED <<world, resolver>> /\ UNCHANGED <<case, revoked, dropped, slowest>> /\ case \in Cases
        /\ v.phase \notin Lookups
        /\ v.phase = "legacy status" /\ ~modern /\ ~v.fresh
    BY DEF LegacyRevocation, IInv, ProfileOK, RevocationOK, world, resolver, Lookups
  <1>2. /\ chain' = chain /\ links' = links /\ modern' = modern
        /\ presentation' = presentation /\ LegacyCanStart' = LegacyCanStart
    BY <1>1, CaseKept
  <1>3. v \in Verification /\ v.lost \subseteq links /\ v.lost \subseteq revoked /\ links = {1}
    BY <1>1, OneCredential DEF IInv, TypeOK, RevocationOK, Verification, links
  <1> DEFINE Answered ==
                /\ v'.phase \in {"decide", "rejected"}
                /\ v'.at = v.at /\ v'.i = v.i /\ v'.lost = v.lost /\ v' \in Verification
                /\ v'.phase = "decide" /\ v'.fresh => 1 \notin revoked
  <1>4. Answered
    <2>1. CASE ~leaf.status /\ v' = Continue("decide", TRUE)
      BY <1>1, <1>3, <2>1 DEF Continue, Verification, Phases
    <2>2. ASSUME NEW answer \in StatusAnswers(1),
                 v' = [Continue("decide", answer.fresh /\ ~answer.revoked) EXCEPT !.fresh = answer.fresh]
          PROVE  Answered
      <3> DEFINE w == Continue("decide", answer.fresh /\ ~answer.revoked)
                 f == answer.fresh
      <3>1. f \in BOOLEAN /\ (f => (answer.revoked <=> 1 \in revoked))
        BY FreshIsTrue
      <3>2. /\ w \in Verification /\ w.at = v.at /\ w.lost = v.lost /\ w.i = v.i
            /\ w.phase = IF answer.fresh /\ ~answer.revoked THEN "decide" ELSE "rejected"
        BY <1>3 DEF Continue, Verification, Phases
      <3>3. v' = [w EXCEPT !.fresh = f]
        BY <2>2
      <3>4. w.phase = "decide" => 1 \notin revoked
        BY <3>1, <3>2
      <3>5. w.phase \in {"decide", "rejected"}
        BY <3>2
      <3> HIDE DEF w, f
      <3>6. v'.phase = w.phase /\ v'.fresh = f /\ v'.i = w.i /\ v'.at = w.at /\ v'.lost = w.lost
            /\ v' \in Verification
        BY <3>1, <3>2, <3>3 DEF Verification
      <3> QED BY <3>2, <3>4, <3>5, <3>6
    <2> QED BY <2>1, <2>2 DEF LegacyRevocation
  <1>5. /\ case' \in Cases /\ ResolverOK' /\ v'.lost \subseteq revoked'
        /\ (v'.phase \in {"method", "document", "revocation"} => v'.i \in links) => TypeOK'
        /\ v'.phase = "rejected" => IInv'
    BY <1>1, <1>4, VerdictOnly
  <1>6. CASE v'.phase = "rejected"
    BY <1>5, <1>6
  <1>7. CASE v'.phase = "decide"
    <2>1. SignaturesOK'
      BY <1>1, <1>2, <1>4, <1>7, TrustKept DEF IInv, SignaturesOK, Checked
    <2>2. ProfileOK' /\ TypeOK'
      BY <1>1, <1>2, <1>5, <1>7 DEF IInv, ProfileOK
    <2>3. v'.fresh => v'.lost = {}
      BY <1>3, <1>4, <1>7
    <2>4. RevocationOK' /\ AcceptanceOK'
      BY <1>1, <1>2, <1>5, <1>7, <2>3 DEF IInv, RevocationOK, AcceptanceOK, accepted
    <2> QED BY <1>5, <2>1, <2>2, <2>4 DEF IInv
  <1> QED BY <1>4, <1>6, <1>7

LEMMA DecisionStep == ASSUME IInv, Decide \/ LegacyDecide PROVE IInv'
  <1> DEFINE good == IF modern THEN ModernAccepts ELSE LegacyAccepts
  <1>1. /\ UNCHANGED <<world, resolver>> /\ UNCHANGED <<case, revoked, dropped, slowest>> /\ case \in Cases
        /\ v.phase \notin Lookups
        /\ v.phase = "decide" /\ v' = Continue("accepted", good)
    BY DEF Decide, LegacyDecide, IInv, world, resolver, Lookups
  <1>2. /\ chain' = chain /\ links' = links /\ modern' = modern
        /\ presentation' = presentation /\ LegacyCanStart' = LegacyCanStart
    BY <1>1, CaseKept
  <1>3. v \in Verification
    BY DEF IInv, TypeOK, Verification, links
  <1>4. /\ v'.phase = IF good THEN "accepted" ELSE "rejected"
        /\ v'.at = v.at /\ v'.i = v.i /\ v'.fresh = v.fresh /\ v'.lost = v.lost /\ v' \in Verification
    <2> HIDE DEF good
    <2> QED BY <1>1, <1>3 DEF Continue, Verification, Phases
  <1>5. /\ case' \in Cases /\ ResolverOK' /\ v'.lost \subseteq revoked'
        /\ (v'.phase \in {"method", "document", "revocation"} => v'.i \in links) => TypeOK'
        /\ v'.phase = "rejected" => IInv'
    BY <1>1, <1>4, VerdictOnly
  <1>6. CASE ~good
    BY <1>4, <1>5, <1>6
  <1>7. CASE good
    <2>1. SignaturesOK'
      BY <1>1, <1>2, <1>4, <1>7, TrustKept DEF IInv, SignaturesOK, Checked
    <2>2. ProfileOK' /\ TypeOK' /\ RevocationOK'
      BY <1>1, <1>2, <1>4, <1>5, <1>7 DEF IInv, ProfileOK, RevocationOK
    <2>3. AcceptanceOK'
      BY <1>1, <1>2, <1>4, <1>7, AcceptanceKept DEF AcceptanceOK
    <2> QED BY <1>5, <2>1, <2>2, <2>3 DEF IInv
  <1> QED BY <1>6, <1>7

(* A key withdrawn now was good when the verification began.               *)
LEMMA DropKeyStep ==
    ASSUME IInv, NEW d \in Dids, NEW left \in {{}, {"authentication"}}, DropKey(d, left)
    PROVE  IInv'
  <1>1. /\ UNCHANGED <<case, now, cache, fetch, slowest, revoked, v>> /\ dropped[d] = None
        /\ docs' = [docs EXCEPT ![d] = left] /\ dropped' = [dropped EXCEPT ![d] = now]
    BY DEF DropKey, resolver
  <1>2. /\ case \in Cases /\ now \in Nat /\ v.at \in Nat /\ v.at <= now
        /\ dropped \in [Dids -> Nat \cup {None}] /\ docs \in [Dids -> SUBSET Purposes]
        /\ CacheTtl \in Nat /\ slowest \in Nat
        /\ \A a \in Dids : cache[a] # None => cache[a].expires \in Nat
    BY VerificationAssumption DEF IInv, TypeOK, ResolverOK, KeysOK, Entry
  <1>3. /\ chain' = chain /\ links' = links /\ modern' = modern
        /\ presentation' = presentation /\ LegacyCanStart' = LegacyCanStart
    BY <1>1, CaseKept
  <1>4. left \in SUBSET Purposes /\ "assertionMethod" \notin left
    BY DEF Purposes
  <1>5. TypeOK'
    BY <1>1, <1>2, <1>3, <1>4 DEF IInv, TypeOK
  <1>6. \A j \in links : Trusted(j) => Trusted(j)'
    <2> SUFFICES ASSUME NEW j \in links, Trusted(j) PROVE Trusted(j)'
      OBVIOUS
    <2>1. CASE chain[j].issuer = d
      <3>1. keyLife' \in Nat /\ keyLife' >= 1 /\ dropped'[d] = now
        BY <1>1, <1>2 DEF keyLife
      <3>2. v.at < now + keyLife'
        <4> HIDE DEF keyLife
        <4> QED BY <1>2, <3>1
      <3> QED BY <1>1, <1>3, <2>1, <3>1, <3>2 DEF Trusted
    <2>2. CASE chain[j].issuer # d
      <3>1. dropped'[chain[j].issuer] = dropped[chain[j].issuer]
        BY <1>1, <1>2, <2>2, CaseTypes
      <3> QED BY <1>1, <1>3, <3>1 DEF Trusted, keyLife
    <2> QED BY <2>1, <2>2
  <1>7. SignaturesOK'
    <2>1. v.phase \in {"method", "document"} => 1..(v.i - 1) \subseteq links
      BY <1>2, CaseTypes DEF IInv, TypeOK, links
    <2> QED BY <1>1, <1>3, <1>6, <2>1 DEF IInv, SignaturesOK
  <1>8. ResolverOK'
    <2>1. \A a \in Dids : dropped'[a] # None => dropped'[a] <= now /\ "assertionMethod" \notin docs'[a]
      BY <1>1, <1>2, <1>4 DEF IInv, ResolverOK, KeysOK
    <2>2. \A a \in Dids \ {d} : dropped'[a] = dropped[a]
      BY <1>1, <1>2
    <2>3. dropped'[d] = now
      BY <1>1, <1>2
    <2>4. ASSUME NEW a \in Dids, cache[a] # None PROVE CacheTtl # 0 /\ EntryOK(a, cache[a])'
      <3>1. CASE a = d
        BY <1>1, <1>2, <2>3, <2>4, <3>1 DEF IInv, ResolverOK, CacheOK, EntryOK
      <3>2. CASE a # d
        BY <1>1, <2>2, <2>4, <3>2 DEF IInv, ResolverOK, CacheOK, EntryOK
      <3> QED BY <3>1, <3>2
    <2>5. ASSUME NEW f \in fetchers, fetch[f] # None PROVE FetchOK(fetch[f])'
      <3>1. FetchOK(fetch[f]) /\ fetch[f].did \in Dids
        BY <2>5, VerificationAssumption DEF IInv, TypeOK, ResolverOK, FetchesOK, fetchers, Fetch
      <3>2. CASE fetch[f].did = d
        BY <1>1, <2>3, <3>1, <3>2 DEF FetchOK
      <3>3. CASE fetch[f].did # d
        BY <1>1, <2>2, <3>1, <3>3 DEF FetchOK
      <3> QED BY <3>2, <3>3
    <2>6. KeysOK' /\ CacheOK'
      BY <1>1, <1>2, <2>1, <2>4 DEF KeysOK, CacheOK
    <2>7. FetchesOK'
      BY <1>1, <2>5 DEF IInv, ResolverOK, FetchesOK
    <2> QED BY <2>6, <2>7 DEF ResolverOK
  <1>9. ProfileOK' /\ RevocationOK'
    BY <1>1, <1>3 DEF IInv, ProfileOK, RevocationOK
  <1>10. AcceptanceOK'
    BY <1>1, <1>3, AcceptanceKept DEF IInv, AcceptanceOK, accepted
  <1> QED BY <1>1, <1>2, <1>5, <1>7, <1>8, <1>9, <1>10 DEF IInv

LEMMA RevokeStep == ASSUME IInv, NEW i \in links, Revoke(i) PROVE IInv'
  <1>1. /\ UNCHANGED <<case, now, docs, dropped, cache, fetch, slowest, v>> /\ chain[i].status
        /\ revoked' = revoked \cup {i} /\ case \in Cases
    BY DEF Revoke, IInv, resolver
  <1>2. /\ chain' = chain /\ links' = links /\ modern' = modern
        /\ presentation' = presentation /\ LegacyCanStart' = LegacyCanStart
    BY <1>1, CaseKept
  <1>3. TypeOK'
    BY <1>1, <1>2 DEF IInv, TypeOK, links
  <1>4. SignaturesOK'
    BY <1>1, <1>2, TrustKept DEF IInv, SignaturesOK
  <1>5. ProfileOK' /\ ResolverOK'
    BY <1>1, <1>2 DEF IInv, ProfileOK, ResolverOK, KeysOK, FetchesOK, FetchOK, CacheOK, EntryOK
  <1>6. RevocationOK'
    BY <1>1, <1>2 DEF IInv, RevocationOK
  <1>7. AcceptanceOK'
    BY <1>1, <1>2, AcceptanceKept DEF IInv, AcceptanceOK, accepted
  <1> QED BY <1>1, <1>3, <1>4, <1>5, <1>6, <1>7 DEF IInv

LEMMA TickStep == ASSUME IInv, Tick \/ UNCHANGED vars PROVE IInv'
  <1>1. /\ UNCHANGED <<case, docs, dropped, cache, fetch, slowest, revoked, v>>
        /\ now \in Nat /\ CacheTtl \in Nat
        /\ (now' = now + 1 \/ now' = now) /\ case \in Cases
    BY VerificationAssumption DEF Tick, vars, world, resolver, IInv, TypeOK
  <1>2. /\ chain' = chain /\ links' = links /\ modern' = modern
        /\ presentation' = presentation /\ LegacyCanStart' = LegacyCanStart
    BY <1>1, CaseKept
  <1>3. now' \in Nat /\ now <= now'
    BY <1>1
  <1>4. TypeOK'
    BY <1>1, <1>2, <1>3 DEF IInv, TypeOK
  <1>5. SignaturesOK'
    BY <1>1, <1>2, TrustKept DEF IInv, SignaturesOK
  <1>6. ResolverOK'
    <2>1. /\ v.at \in Nat
          /\ \A a \in Dids : /\ dropped[a] # None => dropped[a] \in Nat
                             /\ cache[a] # None => cache[a].expires \in Nat
          /\ \A f \in fetchers : fetch[f] # None => fetch[f].asked \in Nat
      BY DEF IInv, TypeOK, Entry, Fetch, fetchers
    <2>2. KeysOK'
      BY <1>1, <1>3, <2>1 DEF IInv, ResolverOK, KeysOK
    <2>3. \A f \in fetchers : fetch[f] # None => fetch[f].asked <= now'
      <3> SUFFICES ASSUME NEW f \in fetchers, fetch[f] # None PROVE fetch[f].asked <= now'
        OBVIOUS
      <3>1. FetchOK(fetch[f])
        BY DEF IInv, ResolverOK, FetchesOK
      <3>2. fetch[f].asked <= now
        BY <3>1 DEF FetchOK
      <3>3. fetch[f].asked \in Nat
        BY <2>1
      <3> QED BY <1>1, <1>3, <3>2, <3>3
    <2>4. FetchesOK'
      BY <1>1, <2>3 DEF IInv, ResolverOK, FetchesOK, FetchOK
    <2>5. \A a \in Dids : cache[a] # None => cache[a].expires <= now' + CacheTtl
      BY <1>1, <1>3, <2>1 DEF IInv, ResolverOK, CacheOK, EntryOK
    <2>6. CacheOK'
      BY <1>1, <2>5 DEF IInv, ResolverOK, CacheOK, EntryOK
    <2> QED BY <2>2, <2>4, <2>6 DEF ResolverOK
  <1>7. ProfileOK' /\ RevocationOK'
    BY <1>1, <1>2 DEF IInv, ProfileOK, RevocationOK
  <1>8. AcceptanceOK'
    BY <1>1, <1>2, AcceptanceKept DEF IInv, AcceptanceOK, accepted
  <1> QED BY <1>1, <1>4, <1>5, <1>6, <1>7, <1>8 DEF IInv

LEMMA InitOK == Init => IInv
  <1> SUFFICES ASSUME Init PROVE IInv
    OBVIOUS
  <1>1. /\ case \in Cases /\ now = 0 /\ revoked = {}
        /\ v.phase = "idle" /\ v.at = 0 /\ v.lost = {}
        /\ \A d \in Dids : dropped[d] = None /\ cache[d] = None
        /\ \A f \in fetchers : fetch[f] = None
    BY DEF Init, fetchers
  <1>2. TypeOK
    BY DEF Init, TypeOK, Purposes, Phases
  <1>3. SignaturesOK /\ ProfileOK /\ AcceptanceOK /\ RevocationOK /\ ResolverOK
    BY <1>1 DEF SignaturesOK, Checked, ProfileOK, AcceptanceOK, accepted, RevocationOK, ResolverOK,
                KeysOK, FetchesOK, CacheOK, fetchers
  <1> QED BY <1>1, <1>2, <1>3 DEF IInv

LEMMA NextOK == IInv /\ [Next]_vars => IInv'
  <1> SUFFICES ASSUME IInv, [Next]_vars PROVE IInv'
    OBVIOUS
  <1>1. ASSUME NEW i \in 1..Len(chain), Revoke(i) PROVE IInv'
    BY <1>1, RevokeStep DEF links
  <1>2. ASSUME AskNeeded \/ (\E f \in Others \cup {This} : Answer(f))
               \/ \E f \in Others : OtherAsks(f) \/ OtherArrives(f) \/ OtherFails(f)
        PROVE  IInv'
    BY <1>2, AskStep, AnswerStep, OthersStep DEF AskNeeded, fetchers
  <1> QED
    BY <1>1, <1>2, StartStep, ProofStep, MethodStep, SignatureStep, FailureStep, RevocationStep,
       LegacySignatureStep, LegacyRevocationStep, DecisionStep, TickStep, DropKeyStep DEF Next

(* The inductive invariant holds in every reachable state.                 *)
THEOREM Invariant == Spec => []IInv
  BY InitOK, NextOK, PTL DEF Spec
-----------------------------------------------------------------------------
(* What the invariant gives                                                *)

(* A set of positions that holds the last one, and with each the one       *)
(* before it, holds them all: otherwise stepping back from the positions   *)
(* after a missing one would be an injection that misses the last.         *)
LEMMA Backwards ==
    ASSUME NEW n \in Nat, NEW T \in SUBSET (1..n), n \in T,
           \A i \in T : i > 1 => i - 1 \in T
    PROVE  T = 1..n
  <1> SUFFICES ASSUME NEW j \in 1..n, j \notin T PROVE FALSE
    OBVIOUS
  <1> DEFINE U == {i \in T : i > j}
             f == [i \in U |-> i - 1]
  <1>1. \A i \in U : i - 1 \in U
    <2> SUFFICES ASSUME NEW i \in U PROVE i - 1 \in U
      OBVIOUS
    <2>1. i \in T /\ i \in Nat /\ i > j /\ j \in Nat /\ j >= 1
      OBVIOUS
    <2>2. i - 1 \in T
      BY <2>1
    <2>3. i - 1 # j
      BY <2>2
    <2> QED BY <2>1, <2>2, <2>3
  <1>2. f \in Injection(U, U)
    <2>1. \A a, b \in U : f[a] = f[b] => a = b
      OBVIOUS
    <2>2. f \in [U -> U] /\ DOMAIN f = U
      BY <1>1
    <2> HIDE DEF f, U
    <2> QED BY <2>1, <2>2 DEF Injection, IsInjective
  <1>3. IsFiniteSet(U)
    <2>1. IsFiniteSet(1..n)
      BY FS_Interval
    <2> QED BY <2>1, FS_Subset
  <1>4. f \in Surjection(U, U)
    BY <1>2, <1>3, FS_Injection
  <1>5. n \in U
    OBVIOUS
  <1>6. PICK i \in U : f[i] = n
    BY <1>4, <1>5 DEF Surjection
  <1> QED BY <1>6

(* The leaf grants no more than c does, which is what each link promises   *)
(* of the next.                                                            *)
Covers(c) ==
    /\ leaf.transfer => c.transfer
    /\ c.target = leaf.target
    /\ c.cap # None => leaf.cap # None /\ leaf.cap <= c.cap /\ leaf.currency = c.currency

LEMMA EveryLinkCovers ==
    ASSUME case \in Cases, ChainEvaluates
    PROVE  \A j \in links : Covers(chain[j])
  <1> DEFINE n == Len(chain)
             T == {j \in 1..n : Covers(chain[j])}
  <1>1. n \in Nat /\ n > 0 /\ n \in 1..n /\ leaf = chain[n]
    BY CaseTypes DEF leaf
  <1>2. \A j \in 1..n : chain[j].cap \in Nat \cup {None}
    BY CaseTypes DEF links
  <1>3. n \in T
    BY <1>1, <1>2, NoneAssumption DEF Covers
  <1>4. ASSUME NEW i \in T, i > 1 PROVE i - 1 \in T
    <2>1. i \in 2..n /\ i - 1 \in 1..n
      BY <1>1, <1>4
    <2>2. Narrows(chain[i - 1], chain[i])
      BY <2>1 DEF ChainEvaluates
    <2>3. Covers(chain[i])
      OBVIOUS
    <2>4. /\ chain[i].cap \in Nat \cup {None} /\ chain[i - 1].cap \in Nat \cup {None}
          /\ leaf.cap \in Nat \cup {None}
      BY <1>1, <1>2, <2>1
    <2>5. Covers(chain[i - 1])
      BY <2>2, <2>3, <2>4 DEF Covers, Narrows
    <2> QED BY <2>1, <2>5
  <1>5. T \in SUBSET (1..n)
    OBVIOUS
  <1> HIDE DEF T
  <1>6. T = 1..n
    BY <1>1, <1>3, <1>4, <1>5, Backwards
  <1> QED BY <1>6 DEF T, links

(* Documents, cache and verification keep their types, and the index of a  *)
(* loop points into the chain.                                             *)
THEOREM TypeCorrect == Spec => []TypeOK
  <1>1. IInv => TypeOK
    BY DEF IInv
  <1> QED BY <1>1, Invariant, PTL

(* Authority that was revoked when its verification began is not accepted  *)
(* where policy asks for fresh revocation state.                           *)
THEOREM RevokedIsRejected == Spec => []RevokedBeforeIsRejected
  <1>1. IInv => RevokedBeforeIsRejected
    <2> SUFFICES ASSUME IInv, accepted, policy.fresh PROVE v.lost = {}
      BY DEF RevokedBeforeIsRejected
    <2>1. v.fresh
      BY DEF IInv, AcceptanceOK, ModernAccepts, DelegationVerified, LegacyAccepts
    <2> QED BY <2>1 DEF IInv, RevocationOK, accepted
  <1> QED BY <1>1, Invariant, PTL

(* A withdrawn key is not trusted for longer than the cache's life and the *)
(* slowest fetch, however many verifications share the resolver and        *)
(* however long their fetches take.                                        *)
THEOREM WithdrawnKeyForgotten == Spec => []WithdrawnKeyExpires
  <1>1. IInv => WithdrawnKeyExpires
    BY DEF IInv, SignaturesOK, Checked, Trusted, links, keyLife, accepted, WithdrawnKeyExpires
  <1> QED BY <1>1, Invariant, PTL

(* An accepted payment lies within every credential of its chain, however  *)
(* long the chain is.                                                      *)
THEOREM PaymentWithinEveryLink == Spec => []AuthorityWithinDelegation
  <1>1. IInv => AuthorityWithinDelegation
    <2> SUFFICES ASSUME IInv, accepted PROVE AuthorityWithinDelegation
      BY DEF AuthorityWithinDelegation
    <2>1. /\ case \in Cases /\ v.phase = "accepted" /\ presentation.proof # None
          /\ modern \/ policy.source = "responsible_party"
      BY DEF IInv, ProfileOK, accepted, LegacyCanStart
    <2>2. Len(chain) \in Nat /\ Len(chain) > 0 /\ action.amount \in Nat
          /\ \A j \in links : chain[j].cap \in Nat \cup {None}
      BY <2>1, CaseTypes
    <2>3. Len(chain) \in links /\ leaf = chain[Len(chain)] /\ leaf.cap \in Nat \cup {None}
      BY <2>2 DEF links, leaf
    <2>4. \A j \in links : chain[j].signer = chain[j].issuer
      BY <2>1 DEF IInv, SignaturesOK, Checked, Trusted
    <2>5. CASE modern
      <3>1. ModernAccepts
        BY <2>5 DEF IInv, AcceptanceOK
      <3>2. \A j \in links : Covers(chain[j])
        BY <2>1, <3>1, EveryLinkCovers DEF ModernAccepts, DelegationVerified
      <3>3. \A j \in links : j > 1 => chain[j].issuer = chain[j - 1].invoker
        BY <2>2, <3>1 DEF ModernAccepts, DelegationVerified, ChainEvaluates, Narrows, links
      <3>4. /\ leaf.transfer /\ leaf.target = Mapped(policy.resources, action.resource)
            /\ leaf.cap # None => /\ leaf.currency = Mapped(policy.currencies, action.asset)
                                  /\ action.amount <= leaf.cap
        BY <3>1 DEF ModernAccepts, FinancialJoin, ResourceJoined, CurrencyJoined, WithinMaxAmount,
                    maxAmount, leafCurrency
      <3>5. /\ responsible \in policy.responsible /\ action.agent = leaf.invoker
            /\ policy.source = "responsible_party" => action.principal = responsible
            /\ policy.source = "card_principal" => action.principal = presentation.card.principal
        BY <3>1 DEF ModernAccepts, DelegationVerified, FinancialJoin, PrincipalJoined, CardPrincipal, CardVerifies
      <3>6. ASSUME NEW j \in links
            PROVE  /\ chain[j].transfer /\ chain[j].target = Mapped(policy.resources, action.resource)
                   /\ chain[j].cap # None => /\ chain[j].currency = Mapped(policy.currencies, action.asset)
                                             /\ action.amount <= chain[j].cap
        <4>1. Covers(chain[j]) /\ chain[j].cap \in Nat \cup {None}
          BY <2>2, <3>2
        <4> QED BY <2>2, <2>3, <3>4, <4>1 DEF Covers
      <3> QED BY <2>4, <3>3, <3>5, <3>6 DEF AuthorityWithinDelegation, links
    <2>6. CASE ~modern
      <3>1. LegacyAccepts
        BY <2>6 DEF IInv, AcceptanceOK
      <3>2. leaf = chain[1] /\ links = {1}
        BY <2>1, <2>6, OneCredential
      <3>3. /\ responsible \in policy.responsible /\ action.agent = leaf.invoker
            /\ action.principal = responsible /\ leaf.transfer
        BY <3>1 DEF LegacyAccepts, LegacyIdentities
      <3>4. /\ leaf.target = Mapped(policy.resources, action.resource)
            /\ leaf.currency = Mapped(policy.currencies, action.asset)
            /\ leaf.cap # None => action.amount <= leaf.cap
        BY <3>1 DEF LegacyAccepts, LegacyTerms, ResourceJoined, WithinMaxAmount, maxAmount
      <3>5. policy.source # "card_principal"
        BY <2>1, <2>6
      <3>6. \A j \in 1..Len(chain) : j = 1
        BY <3>2 DEF links
      <3> QED BY <2>4, <3>2, <3>3, <3>4, <3>5, <3>6 DEF AuthorityWithinDelegation, links
    <2> QED BY <2>5, <2>6
  <1> QED BY <1>1, Invariant, PTL
==============================================================================
