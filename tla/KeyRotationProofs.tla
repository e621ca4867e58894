-------------------------- MODULE KeyRotationProofs -------------------------
(***************************************************************************)
(* Theorems about KeyRotation, for any keys, replicas, clock and number of *)
(* decisions: its type correctness and its safety invariants, from one     *)
(* inductive invariant.                                                    *)
(***************************************************************************)
EXTENDS KeyRotation, FiniteSetTheorems, TLAPS

Status(k, s) == registry[k] # None /\ registry[k].status = s

(* The key is published and its window has begun at t.                     *)
Begun(k, t) == registry[k] # None /\ registry[k].not_before <= t

(* An active key has no end, a retired one has, at a cutover in the past.  *)
EntriesOK ==
    \A k \in Keys :
        /\ Status(k, "active") => registry[k].not_after = None
        /\ Status(k, "retired") =>
            registry[k].not_after # None /\ registry[k].not_after <= now
        /\ registry[k] # None /\ registry[k].not_after # None =>
            registry[k].not_before < registry[k].not_after

(* The broker keeps every key that is active or not published yet.         *)
CustodyOK == \A k \in Keys \ custody : registry[k] # None /\ registry[k].status # "active"

(* Processes run, and calls and decisions were begun, with a key in its    *)
(* window that is the pinned one.                                          *)
ReplicasOK ==
    \A r \in Replicas : replica[r] # None =>
        replica[r].pinned = replica[r].id /\ Begun(replica[r].id, now)

CallsOK ==
    \A r \in Replicas : call[r] # None =>
        /\ call[r].signer.pinned = call[r].signer.id
        /\ Begun(call[r].signer.id, call[r].issued_at)
        /\ call[r].began = call[r].issued_at /\ call[r].issued_at <= now

DecisionsOK ==
    \A d \in decisions :
        /\ d.signature = d.key_id /\ Begun(d.key_id, d.issued_at)
        /\ d.began = d.issued_at /\ d.issued_at <= now

(* Unless a key is revoked, some active key has begun.                     *)
NoneRevoked == \A k \in Keys : ~Status(k, "revoked")
SomeKeyBegun == NoneRevoked => \E k \in Keys : Active(k) /\ Begun(k, now)

(* At most two keys are active, one of them during a rotation only.        *)
AtMostTwo ==
    /\ IsFiniteSet({k \in Keys : Active(k)})
    /\ \A i, j, k \in Keys : Active(i) /\ Active(j) /\ Active(k) => i = j \/ j = k \/ i = k

(* The windows of retired keys end before those of active keys begin, and  *)
(* do not overlap each other.                                              *)
WindowsOK ==
    \A j, k \in Keys : Status(j, "retired") =>
        /\ Status(k, "active") => registry[j].not_after <= registry[k].not_before
        /\ Status(k, "retired") /\ j # k =>
            \/ registry[j].not_after <= registry[k].not_before
            \/ registry[k].not_after <= registry[j].not_before

IInv ==
    /\ TypeOK
    /\ EntriesOK
    /\ CustodyOK
    /\ ReplicasOK
    /\ CallsOK
    /\ DecisionsOK
    /\ SomeKeyBegun
    /\ AtMostTwo
    /\ WindowsOK
-----------------------------------------------------------------------------
(* What every step keeps                                                   *)

(* A published key stays published, with the start of its window.          *)
Extends ==
    \A k \in Keys : registry[k] # None =>
        registry'[k] # None /\ registry'[k].not_before = registry[k].not_before

LEMMA BegunKept ==
    ASSUME Extends, NEW k \in Keys, NEW t, Begun(k, t)
    PROVE  Begun(k, t)'
  BY DEF Extends, Begun

LEMMA TimesOrdered == Times \subseteq Nat
  BY BoundsAssumption DEF Times

(* A step of a process or the broker: the registry and the clock stay.     *)
LEMMA ProcessStep ==
    ASSUME IInv, TypeOK', UNCHANGED <<now, registry, custody>>,
           ReplicasOK', CallsOK', DecisionsOK'
    PROVE  IInv'
  <1>1. EntriesOK' /\ CustodyOK' /\ WindowsOK'
    BY DEF IInv, EntriesOK, CustodyOK, WindowsOK, Status
  <1>2. SomeKeyBegun' /\ AtMostTwo'
    BY DEF IInv, SomeKeyBegun, NoneRevoked, AtMostTwo, Active, Begun, Status
  <1> QED
    BY <1>1, <1>2 DEF IInv

(* A step of the operator: processes and what they issued stay.            *)
LEMMA OperatorStep ==
    ASSUME IInv, TypeOK', Extends, UNCHANGED <<now, replica, call, decisions>>,
           EntriesOK', CustodyOK', SomeKeyBegun', AtMostTwo', WindowsOK'
    PROVE  IInv'
  <1>1. ReplicasOK'
    <2> SUFFICES ASSUME NEW r \in Replicas, replica[r] # None
                 PROVE  replica[r].pinned = replica[r].id /\ Begun(replica[r].id, now)'
      BY DEF ReplicasOK, Begun
    <2>1. replica[r].id \in Keys
      BY DEF IInv, TypeOK, Signer
    <2> QED
      BY <2>1 DEF IInv, ReplicasOK, Extends, Begun
  <1>2. CallsOK'
    <2> SUFFICES ASSUME NEW r \in Replicas, call[r] # None
                 PROVE  /\ call[r].signer.pinned = call[r].signer.id
                        /\ registry'[call[r].signer.id] # None
                        /\ registry'[call[r].signer.id].not_before <= call[r].issued_at
                        /\ call[r].began = call[r].issued_at /\ call[r].issued_at <= now
      BY DEF CallsOK, Begun
    <2>1. call[r].signer.id \in Keys
      BY DEF IInv, TypeOK, Signing, Signer
    <2> QED
      BY <2>1 DEF IInv, CallsOK, Extends, Begun
  <1>3. DecisionsOK'
    <2> SUFFICES ASSUME NEW d \in decisions
                 PROVE  /\ d.signature = d.key_id
                        /\ registry'[d.key_id] # None
                        /\ registry'[d.key_id].not_before <= d.issued_at
                        /\ d.began = d.issued_at /\ d.issued_at <= now
      BY DEF DecisionsOK, Begun
    <2>1. d.key_id \in Keys
      BY DEF IInv, TypeOK, Decision
    <2> QED
      BY <2>1 DEF IInv, DecisionsOK, Extends, Begun
  <1> QED
    BY <1>1, <1>2, <1>3 DEF IInv

-----------------------------------------------------------------------------
(* Processes and the broker                                                *)

LEMMA RestartKeeps == ASSUME IInv, NEW r \in Replicas, NEW s \in Signer, Restart(r, s) PROVE IInv'
  <1>1. UNCHANGED <<now, registry, custody, call, decisions>>
    BY DEF Restart
  <1>2. replica'[r] \in {s, None} /\ \A q \in Replicas \ {r} : replica'[q] = replica[q]
    BY DEF Restart, IInv, TypeOK
  <1>3. replica' \in [Replicas -> Signer \cup {None}]
    BY DEF Restart, IInv, TypeOK
  <1>4. replica'[r] # None => Registered(s)
    BY DEF Restart, IInv, TypeOK
  <1>5. ReplicasOK'
    BY <1>1, <1>2, <1>4 DEF IInv, ReplicasOK, Begun, Registered, InWindow
  <1>6. CallsOK' /\ DecisionsOK'
    BY <1>1 DEF IInv, CallsOK, DecisionsOK, Begun
  <1>7. TypeOK'
    BY <1>1, <1>3 DEF IInv, TypeOK
  <1> QED
    BY <1>1, <1>5, <1>6, <1>7, ProcessStep

LEMMA IssueKeeps == ASSUME IInv, NEW r \in Replicas, Issue(r) PROVE IInv'
  <1> DEFINE new == [signer |-> replica[r], issued_at |-> now, began |-> now]
  <1>1. UNCHANGED <<now, registry, custody, replica, decisions>>
    BY DEF Issue
  <1>2. /\ new \in Signing /\ new.signer = replica[r] /\ new.issued_at = now /\ new.began = now
        /\ replica[r] # None
    BY DEF Issue, IInv, TypeOK, Signing
  <1>3. call' = [call EXCEPT ![r] = new]
    BY DEF Issue
  <1> HIDE DEF new
  <1>4. call'[r] = new /\ \A q \in Replicas \ {r} : call'[q] = call[q]
    BY <1>3 DEF IInv, TypeOK
  <1>5. call' \in [Replicas -> Signing \cup {None}]
    BY <1>2, <1>3 DEF IInv, TypeOK
  <1>6. now \in Nat
    BY TimesOrdered DEF IInv, TypeOK
  <1>7. CallsOK'
    BY <1>1, <1>2, <1>4, <1>6 DEF IInv, CallsOK, ReplicasOK, Begun
  <1>8. ReplicasOK' /\ DecisionsOK'
    BY <1>1 DEF IInv, ReplicasOK, DecisionsOK, Begun
  <1>9. TypeOK'
    BY <1>1, <1>5 DEF IInv, TypeOK
  <1> QED
    BY <1>1, <1>7, <1>8, <1>9, ProcessStep

(* A call ends, with a decision or without.                                *)
LEMMA SignKeeps == ASSUME IInv, NEW r \in Replicas, Sign(r) \/ SigningFails(r) PROVE IInv'
  <1>1. /\ UNCHANGED <<now, registry, custody, replica>>
        /\ call[r] # None /\ call' = [call EXCEPT ![r] = None]
    BY DEF Sign, SigningFails
  <1>2. call'[r] = None /\ \A q \in Replicas \ {r} : call'[q] = call[q]
    BY <1>1 DEF IInv, TypeOK
  <1>3. call' \in [Replicas -> Signing \cup {None}]
    BY <1>1 DEF IInv, TypeOK
  <1>4. ReplicasOK' /\ CallsOK'
    BY <1>1, <1>2 DEF IInv, ReplicasOK, CallsOK, Begun
  <1>5. CASE decisions' = decisions
    <2>1. TypeOK' /\ DecisionsOK'
      BY <1>1, <1>3, <1>5 DEF IInv, TypeOK, DecisionsOK, Begun
    <2> QED
      BY <1>1, <1>4, <2>1, ProcessStep
  <1>6. ASSUME NEW m \in Keys, SignatureVerifies(call[r].signer, m),
               decisions' = decisions \cup {SignedEnvelope(call[r], m)}
        PROVE  IInv'
    <2> DEFINE d == SignedEnvelope(call[r], m)
    <2>1. call[r] \in Signing /\ call[r].signer \in Signer
      BY <1>1 DEF IInv, TypeOK, Signing
    <2>2. /\ d \in Decision /\ d.key_id = call[r].signer.id /\ d.signature = m
          /\ d.issued_at = call[r].issued_at /\ d.began = call[r].began
      BY <2>1 DEF SignedEnvelope, Decision, Signing, Signer
    <2>3. m = call[r].signer.id
      BY <1>1, <1>6 DEF SignatureVerifies, IInv, CallsOK
    <2> HIDE DEF d
    <2>4. /\ d.signature = d.key_id /\ registry[d.key_id] # None
          /\ registry[d.key_id].not_before <= d.issued_at
          /\ d.began = d.issued_at /\ d.issued_at <= now
      BY <1>1, <2>2, <2>3 DEF IInv, CallsOK, Begun
    <2>5. decisions' = decisions \cup {d}
      BY <1>6 DEF d
    <2>6. TypeOK' /\ DecisionsOK'
      BY <1>1, <1>3, <2>2, <2>4, <2>5 DEF IInv, TypeOK, DecisionsOK, Begun
    <2> QED
      BY <1>1, <1>4, <2>6, ProcessStep
  <1>7. custody \subseteq Keys
    BY DEF IInv, TypeOK
  <1> QED
    BY <1>5, <1>6, <1>7 DEF Sign, SigningFails

-----------------------------------------------------------------------------
(* The operator                                                            *)

LEMMA PublishKeeps ==
    ASSUME IInv, NEW k \in Keys, NEW t \in Times, Publish(k, t)
    PROVE  IInv'
  <1> DEFINE new == [status |-> "active", not_before |-> t, not_after |-> None]
  <1>1. /\ UNCHANGED <<now, custody, replica, call, decisions>>
        /\ registry[k] = None /\ now <= t
        /\ registry' = [registry EXCEPT ![k] = new]
    BY DEF Publish
  <1>2. /\ new \in Entry /\ new # None /\ new.status = "active" /\ new.not_before = t
        /\ new.not_after = None
    BY NoneAssumption DEF Entry
  <1> HIDE DEF new
  <1>3. registry'[k] = new /\ \A j \in Keys \ {k} : registry'[j] = registry[j]
    BY <1>1 DEF IInv, TypeOK
  <1>4. registry' \in [Keys -> Entry \cup {None}]
    BY <1>1, <1>2 DEF IInv, TypeOK
  <1>5. TypeOK' /\ Extends
    BY <1>1, <1>3, <1>4 DEF IInv, TypeOK, Extends
  <1>6. EntriesOK'
    BY <1>1, <1>2, <1>3 DEF IInv, EntriesOK, Status
  <1>7. CustodyOK'
    BY <1>1, <1>3 DEF IInv, CustodyOK
  <1>8. SomeKeyBegun'
    <2>1. NoneRevoked' => NoneRevoked
      BY <1>1, <1>3 DEF NoneRevoked, Status
    <2>2. \A j \in Keys : Active(j) /\ Begun(j, now) => Active(j)' /\ Begun(j, now)'
      BY <1>1, <1>3 DEF Active, Begun
    <2> QED
      BY <2>1, <2>2 DEF IInv, SomeKeyBegun
  <1>9. AtMostTwo'
    <2> DEFINE S == {j \in Keys : Active(j)}
    <2>1. IsFiniteSet(S) /\ Cardinality(S) \in Nat /\ Cardinality(S) <= 1
      BY FS_CardinalityType DEF Publish, IInv, AtMostTwo
    <2>2. S = {} \/ \E x : S = {x}
      <3>1. Cardinality(S) = 0 \/ Cardinality(S) = 1
        BY <2>1
      <3> QED
        BY <2>1, <3>1, FS_EmptySet, FS_Singleton
    <2>3. {j \in Keys : Active(j)}' = S \cup {k}
      BY <1>1, <1>2, <1>3 DEF Active
    <2>4. IsFiniteSet({j \in Keys : Active(j)}')
      BY <2>1, <2>3, FS_AddElement
    <2>5. \A i, j \in S : i = j
      BY <2>2
    <2>6. \A j \in Keys : Active(j)' => j = k \/ j \in S
      BY <2>3
    <2>7. \A i, j, l \in Keys : Active(i)' /\ Active(j)' /\ Active(l)' => i = j \/ j = l \/ i = l
      BY <2>5, <2>6
    <2> QED
      BY <2>4, <2>7 DEF AtMostTwo
  <1>10. WindowsOK'
    <2> SUFFICES ASSUME NEW i \in Keys, NEW j \in Keys, Status(i, "retired")'
                 PROVE  /\ Status(j, "active")' => registry'[i].not_after <= registry'[j].not_before
                        /\ Status(j, "retired")' /\ i # j =>
                            \/ registry'[i].not_after <= registry'[j].not_before
                            \/ registry'[j].not_after <= registry'[i].not_before
      BY DEF WindowsOK
    <2>1. i # k /\ registry'[i] = registry[i] /\ Status(i, "retired")
      BY <1>2, <1>3 DEF Status
    <2>2. CASE j = k
      <3>1. registry[i].not_after \in Nat /\ t \in Nat /\ now \in Nat
        <4>1. registry[i].not_after \in Times
          BY <2>1 DEF IInv, TypeOK, EntriesOK, Entry, Status
        <4> QED
          BY <4>1, TimesOrdered DEF IInv, TypeOK
      <3>2. registry[i].not_after <= now
        BY <2>1 DEF IInv, EntriesOK
      <3>3. registry[i].not_after <= t
        BY <1>1, <3>1, <3>2
      <3> QED
        BY <1>2, <1>3, <2>1, <2>2, <3>3 DEF Status
    <2>3. CASE j # k
      BY <1>3, <2>1, <2>3 DEF IInv, WindowsOK, Status
    <2> QED
      BY <2>2, <2>3
  <1> QED
    BY <1>1, <1>5, <1>6, <1>7, <1>8, <1>9, <1>10, OperatorStep

(* A key that stops being active leaves the set of active keys smaller.    *)
LEMMA FewerActive ==
    ASSUME AtMostTwo, \A j \in Keys : Active(j)' => Active(j)
    PROVE  AtMostTwo'
  <1>1. {j \in Keys : Active(j)}' \in SUBSET {j \in Keys : Active(j)}
    OBVIOUS
  <1>2. IsFiniteSet({j \in Keys : Active(j)}')
    BY <1>1, FS_Subset DEF AtMostTwo
  <1> QED
    BY <1>2 DEF AtMostTwo

LEMMA RetireKeeps ==
    ASSUME IInv, NEW old \in Keys, NEW new \in Keys, Retire(old, new)
    PROVE  IInv'
  <1> DEFINE e == [[registry[old] EXCEPT !.status = "retired"] EXCEPT !.not_after = registry[new].not_before]
  <1>1. /\ UNCHANGED <<now, custody, replica, call, decisions>>
        /\ Active(old) /\ Active(new) /\ registry[old].not_before < registry[new].not_before
    BY DEF Retire
  <1>2. registry[old] \in Entry /\ registry[new] \in Entry
    BY <1>1 DEF Active, IInv, TypeOK
  <1>3. /\ registry[old].not_before \in Nat /\ registry[new].not_before \in Nat /\ now \in Nat
        /\ registry[new].not_before \in Times
    BY <1>2, TimesOrdered DEF Entry, IInv, TypeOK
  <1>4. old # new
    BY <1>1, <1>3
  <1>5. registry' = [registry EXCEPT ![old] = e]
    BY <1>1 DEF Retire, Retired, IInv, TypeOK
  <1>6. /\ e \in Entry /\ e # None /\ e.status = "retired"
        /\ e.not_before = registry[old].not_before /\ e.not_after = registry[new].not_before
    BY <1>2, NoneAssumption DEF Entry
  <1> HIDE DEF e
  <1>7. registry'[old] = e /\ \A j \in Keys \ {old} : registry'[j] = registry[j]
    BY <1>5 DEF IInv, TypeOK
  <1>8. registry' \in [Keys -> Entry \cup {None}]
    BY <1>5, <1>6 DEF IInv, TypeOK
  <1>9. TypeOK' /\ Extends
    BY <1>1, <1>6, <1>7, <1>8 DEF IInv, TypeOK, Extends
  <1>10. registry[new].not_before <= now
    <2>1. PICK d \in decisions : d.key_id = new
      BY DEF Retire, CanaryVerified
    <2>2. d.issued_at \in Nat
      BY TimesOrdered DEF IInv, TypeOK, Decision
    <2>3. registry[new].not_before <= d.issued_at /\ d.issued_at <= now
      BY <2>1 DEF IInv, DecisionsOK, Begun
    <2> QED
      BY <1>3, <2>2, <2>3
  <1>11. registry[new].not_before # None
    BY <1>3, NoneAssumption
  <1>12. EntriesOK'
    BY <1>1, <1>6, <1>7, <1>10, <1>11 DEF IInv, EntriesOK, Status
  <1>13. CustodyOK'
    BY <1>1, <1>6, <1>7 DEF IInv, CustodyOK
  <1>14. SomeKeyBegun'
    BY <1>1, <1>4, <1>7, <1>10 DEF SomeKeyBegun, Active, Begun
  <1>15. AtMostTwo'
    <2>1. \A j \in Keys : Active(j)' => Active(j)
      BY <1>6, <1>7 DEF Active
    <2> QED
      BY <2>1, FewerActive DEF IInv
  <1>16. WindowsOK'
    <2> SUFFICES ASSUME NEW i \in Keys, NEW j \in Keys, Status(i, "retired")'
                 PROVE  /\ Status(j, "active")' => registry'[i].not_after <= registry'[j].not_before
                        /\ Status(j, "retired")' /\ i # j =>
                            \/ registry'[i].not_after <= registry'[j].not_before
                            \/ registry'[j].not_after <= registry'[i].not_before
      BY DEF WindowsOK
    <2>1. CASE i = old /\ j = old
      BY <1>6, <1>7, <2>1 DEF Status
    <2>2. CASE i = old /\ j # old
      <3>1. Status(j, "active")' => j = new
        BY <1>1, <1>4, <1>7, <2>2 DEF Status, IInv, AtMostTwo, Active
      <3>2. Status(j, "active")' => registry'[i].not_after <= registry'[j].not_before
        BY <1>3, <1>4, <1>6, <1>7, <2>2, <3>1
      <3>3. Status(j, "retired")' => registry[j].not_after <= registry[old].not_before
        BY <1>1, <1>7, <2>2 DEF Status, IInv, WindowsOK, Active
      <3> QED
        BY <1>6, <1>7, <2>2, <3>2, <3>3
    <2>3. CASE i # old /\ j = old
      BY <1>1, <1>6, <1>7, <2>3 DEF Status, IInv, WindowsOK, Active
    <2>4. CASE i # old /\ j # old
      BY <1>7, <2>4 DEF Status, IInv, WindowsOK
    <2> QED
      BY <2>1, <2>2, <2>3, <2>4
  <1> QED
    BY <1>1, <1>9, <1>12, <1>13, <1>14, <1>15, <1>16, OperatorStep

LEMMA RevokeKeeps == ASSUME IInv, NEW k \in Keys, Revoke(k) PROVE IInv'
  <1> DEFINE e == [registry[k] EXCEPT !.status = "revoked"]
  <1>1. /\ UNCHANGED <<now, custody, replica, call, decisions>>
        /\ registry[k] # None /\ registry[k] \in Entry
    BY DEF Revoke, IInv, TypeOK
  <1>2. registry' = [registry EXCEPT ![k] = e]
    BY DEF Revoke, IInv, TypeOK
  <1>3. /\ e \in Entry /\ e # None /\ e.status = "revoked"
        /\ e.not_before = registry[k].not_before /\ e.not_after = registry[k].not_after
    BY <1>1, NoneAssumption DEF Entry
  <1> HIDE DEF e
  <1>4. registry'[k] = e /\ \A j \in Keys \ {k} : registry'[j] = registry[j]
    BY <1>2 DEF IInv, TypeOK
  <1>5. registry' \in [Keys -> Entry \cup {None}]
    BY <1>2, <1>3 DEF IInv, TypeOK
  <1>6. TypeOK' /\ Extends
    BY <1>1, <1>3, <1>4, <1>5 DEF IInv, TypeOK, Extends
  <1>7. EntriesOK' /\ CustodyOK'
    BY <1>1, <1>3, <1>4 DEF IInv, EntriesOK, CustodyOK, Status
  <1>8. SomeKeyBegun'
    BY <1>3, <1>4 DEF SomeKeyBegun, NoneRevoked, Status
  <1>9. AtMostTwo'
    <2>1. \A j \in Keys : Active(j)' => Active(j)
      BY <1>3, <1>4 DEF Active
    <2> QED
      BY <2>1, FewerActive DEF IInv
  <1>10. WindowsOK'
    <2>1. \A j \in Keys : (Status(j, "active")' \/ Status(j, "retired")') => j # k
      BY <1>3, <1>4 DEF Status
    <2> QED
      BY <1>4, <2>1 DEF IInv, WindowsOK, Status
  <1> QED
    BY <1>1, <1>6, <1>7, <1>8, <1>9, <1>10, OperatorStep

LEMMA DisableKeeps == ASSUME IInv, NEW k \in Keys, Disable(k) PROVE IInv'
  <1>1. /\ UNCHANGED <<now, registry, replica, call, decisions>>
        /\ custody' = custody \ {k} /\ registry[k] # None /\ registry[k].status # "active"
    BY DEF Disable, Active
  <1>2. TypeOK' /\ Extends
    BY <1>1 DEF IInv, TypeOK, Extends
  <1>3. EntriesOK' /\ WindowsOK'
    BY <1>1 DEF IInv, EntriesOK, WindowsOK, Status
  <1>4. CustodyOK'
    BY <1>1 DEF IInv, CustodyOK
  <1>5. SomeKeyBegun' /\ AtMostTwo'
    BY <1>1 DEF IInv, SomeKeyBegun, NoneRevoked, AtMostTwo, Active, Begun, Status
  <1> QED
    BY <1>1, <1>2, <1>3, <1>4, <1>5, OperatorStep

LEMMA TickKeeps == ASSUME IInv, Tick PROVE IInv'
  <1>1. UNCHANGED <<registry, custody, replica, call, decisions>> /\ now' = now + 1
    BY DEF Tick
  <1>2. now \in Nat /\ now' \in Nat /\ now' \in Times /\ now <= now'
    BY <1>1, BoundsAssumption DEF Tick, Times, IInv, TypeOK
  <1>3. TypeOK'
    BY <1>1, <1>2 DEF IInv, TypeOK
  <1>4. \A t \in Times : t <= now => t <= now'
    BY <1>2, TimesOrdered
  <1>5. \A k \in Keys : registry[k] # None =>
            /\ registry[k].not_before \in Times
            /\ registry[k].not_after \in Times \cup {None}
    BY DEF IInv, TypeOK, Entry
  <1>6. EntriesOK'
    BY <1>1, <1>4, <1>5 DEF IInv, EntriesOK, Status
  <1>7. CustodyOK' /\ WindowsOK'
    BY <1>1 DEF IInv, CustodyOK, WindowsOK, Status
  <1>8. \A k \in Keys : Begun(k, now) => Begun(k, now)'
    BY <1>1, <1>4, <1>5 DEF Begun
  <1>9. SomeKeyBegun' /\ AtMostTwo'
    <2>1. NoneRevoked' => NoneRevoked
      BY <1>1 DEF NoneRevoked, Status
    <2>2. \A k \in Keys : Active(k)' <=> Active(k)
      BY <1>1 DEF Active
    <2>3. SomeKeyBegun'
      BY <1>8, <2>1, <2>2 DEF IInv, SomeKeyBegun
    <2> QED
      BY <2>2, <2>3, FewerActive DEF IInv
  <1>10. ReplicasOK'
    <2> SUFFICES ASSUME NEW r \in Replicas, replica[r] # None
                 PROVE  /\ replica[r].pinned = replica[r].id
                        /\ registry[replica[r].id] # None
                        /\ registry[replica[r].id].not_before <= now'
      BY <1>1 DEF ReplicasOK, Begun
    <2>1. replica[r].id \in Keys
      BY DEF IInv, TypeOK, Signer
    <2> QED
      BY <1>1, <1>8, <2>1 DEF IInv, ReplicasOK, Begun
  <1>11. CallsOK'
    <2>1. \A r \in Replicas : call[r] # None => call[r].issued_at \in Times
      BY DEF IInv, TypeOK, Signing
    <2> QED
      BY <1>1, <1>4, <2>1 DEF IInv, CallsOK, Begun
  <1>12. DecisionsOK'
    <2>1. \A d \in decisions : d.issued_at \in Times
      BY DEF IInv, TypeOK, Decision
    <2> QED
      BY <1>1, <1>4, <2>1 DEF IInv, DecisionsOK, Begun
  <1> QED
    BY <1>3, <1>6, <1>7, <1>9, <1>10, <1>11, <1>12 DEF IInv

-----------------------------------------------------------------------------
(* The invariant, and what follows                                         *)

LEMMA InitIInv == Init => IInv
  <1> SUFFICES ASSUME Init PROVE IInv
    OBVIOUS
  <1> DEFINE first == [status |-> "active", not_before |-> 0, not_after |-> None]
             signer == [id |-> FirstKey, pinned |-> FirstKey]
  <1>1. /\ now = 0 /\ custody = Keys /\ decisions = {} /\ 0 \in Times
        /\ registry = [k \in Keys |-> IF k = FirstKey THEN first ELSE None]
        /\ replica = [r \in Replicas |-> signer] /\ call = [r \in Replicas |-> None]
    BY BoundsAssumption DEF Init, Times
  <1>2. /\ first \in Entry /\ first # None /\ first.status = "active" /\ first.not_before = 0
        /\ first.not_after = None
    BY <1>1, NoneAssumption DEF Entry
  <1>3. signer \in Signer /\ signer.id = FirstKey /\ signer.pinned = FirstKey
    BY KeysAssumption DEF Signer
  <1> HIDE DEF first, signer
  <1>4. /\ registry \in [Keys -> Entry \cup {None}] /\ registry[FirstKey] = first
        /\ \A k \in Keys : registry[k] # None => k = FirstKey
    BY <1>1, <1>2, KeysAssumption
  <1>5. TypeOK
    BY <1>1, <1>3, <1>4 DEF TypeOK
  <1>6. EntriesOK /\ CustodyOK /\ WindowsOK
    BY <1>1, <1>2, <1>4 DEF EntriesOK, CustodyOK, WindowsOK, Status
  <1>7. ReplicasOK /\ CallsOK /\ DecisionsOK
    BY <1>1, <1>2, <1>3, <1>4 DEF ReplicasOK, CallsOK, DecisionsOK, Begun
  <1>8. SomeKeyBegun
    BY <1>1, <1>2, <1>4, KeysAssumption DEF SomeKeyBegun, Active, Begun
  <1>9. AtMostTwo
    <2>1. {k \in Keys : Active(k)} = {FirstKey}
      BY <1>2, <1>4, KeysAssumption DEF Active
    <2> QED
      BY <2>1, FS_Singleton DEF AtMostTwo
  <1> QED
    BY <1>5, <1>6, <1>7, <1>8, <1>9 DEF IInv

LEMMA NextKeeps == IInv /\ [Next]_vars => IInv'
  <1> SUFFICES ASSUME IInv, [Next]_vars PROVE IInv'
    OBVIOUS
  <1>1. CASE UNCHANGED vars
    BY <1>1, ProcessStep DEF vars, IInv, TypeOK, ReplicasOK, CallsOK, DecisionsOK, Begun
  <1>2. ASSUME NEW r \in Replicas,
               Issue(r) \/ Sign(r) \/ SigningFails(r) \/ \E s \in Signer : Restart(r, s)
        PROVE  IInv'
    BY <1>2, IssueKeeps, SignKeeps, RestartKeeps
  <1>3. ASSUME NEW k \in Keys,
               \/ Revoke(k) \/ Disable(k)
               \/ \E t \in Times : Publish(k, t)
               \/ \E new \in Keys : Retire(k, new)
        PROVE  IInv'
    BY <1>3, RevokeKeeps, DisableKeeps, PublishKeeps, RetireKeeps
  <1> QED
    BY <1>1, <1>2, <1>3, TickKeeps DEF Next

(* Every reachable state satisfies the inductive invariant: who signs      *)
(* signs with a key that was published and in its window when it began,    *)
(* and the windows of successive keys meet without overlapping.            *)
THEOREM Invariant == Spec => []IInv
  BY InitIInv, NextKeeps, PTL DEF Spec

(* Registry, processes, calls and decisions keep their types.              *)
THEOREM TypeCorrect == Spec => []TypeOK
  <1>1. IInv => TypeOK
    BY DEF IInv
  <1> QED
    BY <1>1, Invariant, PTL

(* What was issued verifies, unless its key was revoked or it was begun    *)
(* with the old key at or after the cutover.                               *)
THEOREM IssuedVerifies == Spec => []IssuedDecisionsVerify
  <1>1. IInv => IssuedDecisionsVerify
    <2> SUFFICES ASSUME IInv, NEW d \in decisions,
                        registry[d.key_id].status # "revoked",
                        ~(registry[d.key_id].status = "retired" /\ registry[d.key_id].not_after <= d.began)
                 PROVE  VerifySignedDecision(d)
      BY DEF IssuedDecisionsVerify
    <2>1. /\ d.key_id \in Keys /\ d.issued_at \in Nat /\ d.signature = d.key_id
          /\ registry[d.key_id] # None /\ registry[d.key_id].not_before <= d.issued_at
          /\ d.began = d.issued_at
      BY TimesOrdered DEF IInv, TypeOK, DecisionsOK, Decision, Begun
    <2>2. registry[d.key_id] \in Entry
      BY <2>1 DEF IInv, TypeOK
    <2>3. CASE registry[d.key_id].status = "active"
      BY <2>1, <2>3 DEF IInv, EntriesOK, Status, VerifySignedDecision, FindUsableKey, InWindow
    <2>4. CASE registry[d.key_id].status = "retired"
      <3>1. registry[d.key_id].not_after \in Nat
        BY <2>1, <2>2, <2>4, TimesOrdered DEF IInv, EntriesOK, Status, Entry
      <3>2. d.issued_at < registry[d.key_id].not_after
        BY <2>1, <2>4, <3>1
      <3> QED
        BY <2>1, <2>4, <3>2 DEF VerifySignedDecision, FindUsableKey, InWindow
    <2> QED
      BY <2>2, <2>3, <2>4 DEF Entry
  <1> QED
    BY <1>1, Invariant, PTL

(* Until a key is revoked the registry passes the start-up check and some  *)
(* key the broker holds could be started with: a rotation never strands    *)
(* the API, in whatever order its steps fall.                              *)
THEOREM NeverStranded == Spec => []SomeKeyCanIssue
  <1>1. IInv => SomeKeyCanIssue
    <2> SUFFICES ASSUME IInv, \A k \in Keys : registry[k] # None => registry[k].status # "revoked"
                 PROVE  /\ RotationRegistry(registry)
                        /\ \E k \in custody : Registered([id |-> k, pinned |-> k])
      BY DEF SomeKeyCanIssue
    <2>1. PICK k \in Keys : Active(k) /\ Begun(k, now)
      BY DEF IInv, SomeKeyBegun, NoneRevoked, Status
    <2>2. k \in custody
      BY <2>1 DEF IInv, CustodyOK, Active
    <2>3. Registered([id |-> k, pinned |-> k])
      BY <2>1 DEF Registered, InWindow, Active, Begun, IInv, EntriesOK, Status
    <2>4. RotationRegistry(registry)
      BY <2>1 DEF RotationRegistry, Active, IInv, EntriesOK, Status
    <2> QED
      BY <2>2, <2>3, <2>4
  <1> QED
    BY <1>1, Invariant, PTL

(* Two decisions of one instant that both verify are of one key, or of the *)
(* two keys of a rotation under way.                                       *)
THEOREM OneKey == Spec => []OneKeyPerInstant
  <1>1. IInv => OneKeyPerInstant
    <2> SUFFICES ASSUME IInv, NEW d \in decisions, NEW e \in decisions,
                        d.issued_at = e.issued_at, d.key_id # e.key_id,
                        VerifySignedDecision(d), VerifySignedDecision(e)
                 PROVE  Active(d.key_id) /\ Active(e.key_id)
      BY DEF OneKeyPerInstant
    <2>1. d.key_id \in Keys /\ e.key_id \in Keys /\ d.issued_at \in Nat
      BY TimesOrdered DEF IInv, TypeOK, Decision
    <2>2. /\ registry[d.key_id] \in Entry /\ registry[e.key_id] \in Entry
          /\ registry[d.key_id].status \in {"active", "retired"}
          /\ registry[e.key_id].status \in {"active", "retired"}
      BY <2>1 DEF IInv, TypeOK, Entry, VerifySignedDecision, FindUsableKey
    <2>3. InWindow(registry[d.key_id], d.issued_at) /\ InWindow(registry[e.key_id], d.issued_at)
      BY DEF VerifySignedDecision, FindUsableKey
    <2>4. registry[d.key_id] # None /\ registry[e.key_id] # None
      BY DEF VerifySignedDecision, FindUsableKey
    <2>5. ASSUME NEW j \in Keys, NEW k \in Keys, registry[j] \in Entry, registry[k] \in Entry,
                 registry[j] # None, registry[k] # None,
                 registry[j].not_after <= registry[k].not_before, Status(j, "retired"),
                 InWindow(registry[j], d.issued_at), InWindow(registry[k], d.issued_at)
          PROVE  FALSE
      <3>1. registry[j].not_after \in Nat /\ registry[k].not_before \in Nat
        BY <2>5, TimesOrdered DEF Entry, IInv, EntriesOK
      <3>2. d.issued_at < registry[j].not_after /\ registry[k].not_before <= d.issued_at
        BY <2>5 DEF InWindow, IInv, EntriesOK
      <3> QED
        BY <2>1, <2>5, <3>1, <3>2
    <2>6. ~Status(d.key_id, "retired")
      BY <2>1, <2>2, <2>3, <2>4, <2>5 DEF IInv, WindowsOK, Status
    <2>7. ~Status(e.key_id, "retired")
      BY <2>1, <2>2, <2>3, <2>4, <2>5 DEF IInv, WindowsOK, Status
    <2> QED
      BY <2>2, <2>4, <2>6, <2>7 DEF Active, Status
  <1> QED
    BY <1>1, Invariant, PTL
=============================================================================
