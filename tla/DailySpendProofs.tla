-------------------------- MODULE DailySpendProofs --------------------------
(***************************************************************************)
(* The daily spend of PolicyProvider accounts for its consumptions, for    *)
(* every value of the constants: exactly over the atomic store, never too  *)
(* high over the legacy pair.  The sums are sizes of sets of units, and    *)
(* the proof follows how each step moves units between those sets.         *)
(***************************************************************************)
EXTENDS PolicyProviderProofs, FiniteSetTheorems

Amount(i) == decisions[i].action.amount

(* Decision i is consumed and counts for principal p on day d.             *)
CountsFor(i, p, d) ==
    i \in Ids /\ consumed[i] # None /\ consumed[i].day = d /\ decisions[i].action.principal = p

(* Call c has consumed and is about to record for p on d.                  *)
AboutToRecord(c, p, d) ==
    c \in Calls /\ call[c].pc = "record" /\ call[c].action.principal = p /\ DayKey[call[c].at] = d

(* What is recorded and what is still to be recorded was consumed; over    *)
(* the atomic store there is nothing in between.                           *)
SpendOK(p, d) ==
    /\ IsFiniteSet(ConsumedUnits(p, d)) /\ IsFiniteSet(PendingUnits(p, d))
    /\ spend[p][d] + Cardinality(PendingUnits(p, d)) <= Cardinality(ConsumedUnits(p, d))
    /\ AtomicStore => spend[p][d] = Cardinality(ConsumedUnits(p, d))

SpendInv == IInv /\ \A p \in Principals, d \in Days : SpendOK(p, d)

-----------------------------------------------------------------------------
(* Units                                                                   *)

LEMMA UnitsCount ==
    ASSUME NEW x, NEW n \in Nat
    PROVE  IsFiniteSet(Units(x, n)) /\ Cardinality(Units(x, n)) = n
  <1>1. IsFiniteSet(1..n) /\ Cardinality(1..n) = n
    BY FS_Interval
  <1>2. IsFiniteSet({x}) /\ Cardinality({x}) = 1
    BY FS_Singleton
  <1>3. /\ IsFiniteSet({x} \X (1..n))
        /\ Cardinality({x} \X (1..n)) = Cardinality({x}) * Cardinality(1..n)
    BY <1>1, <1>2, FS_Product
  <1> QED BY <1>1, <1>2, <1>3 DEF Units

(* Adding units that were not there adds their number.                     *)
LEMMA UnitsAdded ==
    ASSUME NEW S, IsFiniteSet(S), NEW x, NEW n \in Nat,
           \A u \in S : u[1] # x
    PROVE  /\ IsFiniteSet(S \cup Units(x, n))
           /\ Cardinality(S \cup Units(x, n)) = Cardinality(S) + n
  <1>1. IsFiniteSet(Units(x, n)) /\ Cardinality(Units(x, n)) = n
    BY UnitsCount
  <1>2. S \cap Units(x, n) = {}
    BY DEF Units
  <1>3. /\ IsFiniteSet(S \cup Units(x, n))
        /\ Cardinality(S \cup Units(x, n)) =
              Cardinality(S) + Cardinality(Units(x, n)) - Cardinality(S \cap Units(x, n))
    BY <1>1, FS_Union
  <1>4. Cardinality(S) \in Nat
    BY FS_CardinalityType
  <1> QED BY <1>1, <1>2, <1>3, <1>4, FS_EmptySet

LEMMA ConsumedMember ==
    ASSUME NEW p, NEW d, NEW u
    PROVE  u \in ConsumedUnits(p, d) <=> \E i \in Ids : CountsFor(i, p, d) /\ u \in Units(i, Amount(i))
  BY DEF ConsumedUnits, CountsFor, Amount

LEMMA PendingMember ==
    ASSUME NEW p, NEW d, NEW u
    PROVE  u \in PendingUnits(p, d) <=>
             \E c \in Calls : AboutToRecord(c, p, d) /\ u \in Units(c, call[c].action.amount)
  BY DEF PendingUnits, AboutToRecord
-----------------------------------------------------------------------------
(* Steps that neither consume nor record                                   *)

LEMMA ConsumedSame ==
    ASSUME UNCHANGED consumed, \A i \in Ids : consumed[i] # None => decisions'[i] = decisions[i],
           NEW p, NEW d
    PROVE  ConsumedUnits(p, d)' = ConsumedUnits(p, d)
  <1>1. \A i : CountsFor(i, p, d)' <=> CountsFor(i, p, d)
    BY DEF CountsFor
  <1>2. \A i : CountsFor(i, p, d) => Amount(i)' = Amount(i)
    BY DEF CountsFor, Amount
  <1>3. ASSUME NEW u PROVE u \in ConsumedUnits(p, d)' <=> u \in ConsumedUnits(p, d)
    <2>1. u \in ConsumedUnits(p, d) <=> \E i \in Ids : CountsFor(i, p, d) /\ u \in Units(i, Amount(i))
      BY ConsumedMember
    <2>2. u \in ConsumedUnits(p, d)' <=> \E i \in Ids : CountsFor(i, p, d)' /\ u \in Units(i, Amount(i)')
      BY DEF ConsumedUnits, CountsFor, Amount
    <2> QED BY <1>1, <1>2, <2>1, <2>2
  <1> QED BY <1>3

(* The call leaves no consumption behind to record.                        *)
LEMMA PendingShrinks ==
    ASSUME \A e \in Calls : call'[e].pc = "record" => call'[e] = call[e], NEW p, NEW d
    PROVE  PendingUnits(p, d)' \subseteq PendingUnits(p, d)
  BY DEF PendingUnits

LEMMA QuietStep ==
    ASSUME SpendInv, IInv', UNCHANGED <<consumed, spend>>,
           \A i \in Ids : consumed[i] # None => decisions'[i] = decisions[i],
           \A e \in Calls : call'[e].pc = "record" => call'[e] = call[e]
    PROVE  SpendInv'
  <1> SUFFICES ASSUME NEW p \in Principals, NEW d \in Days PROVE SpendOK(p, d)'
    BY DEF SpendInv
  <1>1. SpendOK(p, d) /\ spend[p][d] \in Nat
    BY DEF SpendInv, IInv, TypeOK
  <1>2. ConsumedUnits(p, d)' = ConsumedUnits(p, d)
    BY ConsumedSame
  <1>3. PendingUnits(p, d)' \subseteq PendingUnits(p, d)
    BY PendingShrinks
  <1>4. /\ IsFiniteSet(PendingUnits(p, d)')
        /\ Cardinality(PendingUnits(p, d)') <= Cardinality(PendingUnits(p, d))
    BY <1>1, <1>3, FS_Subset DEF SpendOK
  <1>5. /\ Cardinality(PendingUnits(p, d)') \in Nat /\ Cardinality(PendingUnits(p, d)) \in Nat
        /\ Cardinality(ConsumedUnits(p, d)) \in Nat
    BY <1>1, <1>4, FS_CardinalityType DEF SpendOK
  <1> QED BY <1>1, <1>2, <1>4, <1>5 DEF SpendOK

(* One call moves, and not to "record".                                    *)
LEMMA OneCallQuiet ==
    ASSUME SpendInv, IInv', NEW c \in Calls, NEW k, call' = [call EXCEPT ![c] = k], k.pc # "record",
           UNCHANGED <<consumed, spend>>,
           \A i \in Ids : consumed[i] # None => decisions'[i] = decisions[i]
    PROVE  SpendInv'
  <1>1. \A e \in Calls : call'[e].pc = "record" => call'[e] = call[e]
    BY DEF SpendInv, IInv, TypeOK
  <1> QED BY <1>1, QuietStep

LEMMA BeginIsQuiet ==
    ASSUME NEW k \in Call, NEW a PROVE BeginEvaluation(k, a).pc # "record"
  BY DEF BeginEvaluation, Call

-----------------------------------------------------------------------------
(* Units that move                                                         *)

Matches(k, p, d) == p = k.action.principal /\ d = DayKey[k.at]

LEMMA AddSpendValue ==
    ASSUME IInv, NEW c \in Calls, call[c].pc \in {"commit", "record"}, NEW p \in Principals, NEW d \in Days
    PROVE  AddSpend(call[c])[p][d] =
             IF Matches(call[c], p, d) THEN spend[p][d] + call[c].action.amount ELSE spend[p][d]
  <1> DEFINE q == call[c].action.principal
             b == DayKey[call[c].at]
             m == call[c].action.amount
  <1>1. q \in Principals /\ b \in Days
    BY CommitType
  <1>2. AddSpend(call[c]) = [spend EXCEPT ![q][b] = @ + m]
    BY DEF AddSpend
  <1>3. spend \in [Principals -> [Days -> Nat]]
    BY DEF IInv, TypeOK
  <1> HIDE DEF q, b, m
  <1>4. AddSpend(call[c])[p][d] = IF p = q /\ d = b THEN spend[p][d] + m ELSE spend[p][d]
    BY <1>1, <1>2, <1>3
  <1> QED BY <1>4 DEF Matches, q, b, m

(* A new consumption adds the units of its decision to its day.            *)
LEMMA ConsumptionUnits ==
    ASSUME IInv, NEW c \in Calls, call[c].pc = "commit", consumed[call[c].target] = None,
           consumed' = [consumed EXCEPT ![call[c].target] = NewConsumption(call[c])],
           UNCHANGED decisions, NEW p, NEW d
    PROVE  /\ ConsumedUnits(p, d)' =
                IF Matches(call[c], p, d)
                THEN ConsumedUnits(p, d) \cup Units(call[c].target, call[c].action.amount)
                ELSE ConsumedUnits(p, d)
           /\ \A u \in ConsumedUnits(p, d) : u[1] # call[c].target
  <1> DEFINE k == call[c]
             i == k.target
  <1>1. /\ i \in Ids /\ NewConsumption(k) # None /\ k.action = decisions[i].action
        /\ NewConsumption(k).day = DayKey[k.at]
    BY CommitType DEF IInv, CallOK, ConsumerOK, NewConsumption
  <1>2. /\ consumed'[i] = NewConsumption(k)
        /\ \A j \in Ids \ {i} : consumed'[j] = consumed[j]
    BY <1>1 DEF IInv, TypeOK
  <1>3. \A j \in Ids : CountsFor(j, p, d)' <=> CountsFor(j, p, d) \/ (j = i /\ Matches(k, p, d))
    BY <1>1, <1>2 DEF CountsFor, Matches
  <1>4. ASSUME NEW u
        PROVE  u \in ConsumedUnits(p, d)' <=>
                 u \in ConsumedUnits(p, d) \/ (Matches(k, p, d) /\ u \in Units(i, k.action.amount))
    <2>1. u \in ConsumedUnits(p, d) <=> \E j \in Ids : CountsFor(j, p, d) /\ u \in Units(j, Amount(j))
      BY ConsumedMember
    <2>2. u \in ConsumedUnits(p, d)' <=> \E j \in Ids : CountsFor(j, p, d)' /\ u \in Units(j, Amount(j))
      BY DEF ConsumedUnits, CountsFor, Amount
    <2>3. Amount(i) = k.action.amount
      BY <1>1 DEF Amount
    <2> HIDE DEF i, k
    <2> QED BY <1>1, <1>3, <2>1, <2>2, <2>3
  <1>5. \A u \in ConsumedUnits(p, d) : u[1] # i
    BY ConsumedMember DEF CountsFor, Units
  <1> QED BY <1>4, <1>5

(* Over the atomic store nothing is ever pending.                          *)
LEMMA NothingPending ==
    ASSUME IInv, AtomicStore, NEW p, NEW d
    PROVE  PendingUnits(p, d) = {}
  BY DEF PendingUnits, IInv, CallOK, ConsumerOK

(* consumeAndRecordSpend moves the units straight into the spend.          *)
LEMMA AtomicSpend ==
    ASSUME SpendInv, IInv', NEW c \in Calls, ConsumeAndRecordSpend(c) PROVE SpendInv'
  <1> DEFINE k == call[c]
  <1>1. /\ AtomicStore /\ k.pc = "commit" /\ consumed[k.target] = None /\ IInv
        /\ call' = [call EXCEPT ![c] = Idle] /\ UNCHANGED decisions
    BY DEF ConsumeAndRecordSpend, Unconsumed, Return, SpendInv
  <1>2. CASE ~WithinDailyLimit(k)
    <2>1. UNCHANGED <<consumed, spend>>
      BY <1>2 DEF ConsumeAndRecordSpend
    <2>2. Idle.pc # "record"
      BY DEF Idle
    <2> QED BY <1>1, <2>1, <2>2, OneCallQuiet
  <1>3. CASE WithinDailyLimit(k)
    <2>1. consumed' = [consumed EXCEPT ![k.target] = NewConsumption(k)] /\ spend' = AddSpend(k)
      BY <1>3 DEF ConsumeAndRecordSpend, SpendAfter
    <2> SUFFICES ASSUME NEW p \in Principals, NEW d \in Days PROVE SpendOK(p, d)'
      BY DEF SpendInv
    <2> DEFINE S == ConsumedUnits(p, d)
               m == k.action.amount
    <2>2. IsFiniteSet(S) /\ spend[p][d] = Cardinality(S) /\ spend[p][d] \in Nat /\ m \in Nat
      BY <1>1, CommitType DEF SpendInv, SpendOK, IInv, TypeOK
    <2>3. /\ S' = IF Matches(k, p, d) THEN S \cup Units(k.target, m) ELSE S
          /\ \A u \in S : u[1] # k.target
      BY <1>1, <2>1, ConsumptionUnits
    <2>4. spend'[p][d] = IF Matches(k, p, d) THEN spend[p][d] + m ELSE spend[p][d]
      BY <1>1, <2>1, AddSpendValue
    <2>5. /\ IsFiniteSet(S \cup Units(k.target, m))
          /\ Cardinality(S \cup Units(k.target, m)) = Cardinality(S) + m
      BY <2>2, <2>3, UnitsAdded
    <2>6. IsFiniteSet(S') /\ Cardinality(S') = spend'[p][d]
      BY <2>2, <2>3, <2>4, <2>5
    <2>7. PendingUnits(p, d)' = {}
      BY <1>1 DEF PendingUnits, IInv, CallOK, ConsumerOK
    <2>8. IsFiniteSet(PendingUnits(p, d)') /\ Cardinality(PendingUnits(p, d)') = 0
      BY <2>7, FS_EmptySet
    <2>9. spend'[p][d] \in Nat
      BY <2>2, <2>4
    <2> QED BY <2>6, <2>8, <2>9 DEF SpendOK
  <1> QED BY <1>2, <1>3

(* The legacy consumption adds its units to both sets ...                  *)
LEMMA NonceSpend ==
    ASSUME SpendInv, IInv', NEW c \in Calls, ConsumeNonce(c) PROVE SpendInv'
  <1> DEFINE k == call[c]
             m == k.action.amount
  <1>1. /\ ~AtomicStore /\ k.pc = "commit" /\ consumed[k.target] = None /\ IInv /\ k \in Call
        /\ consumed' = [consumed EXCEPT ![k.target] = NewConsumption(k)]
        /\ call' = [call EXCEPT ![c].pc = "record"] /\ UNCHANGED <<decisions, spend>>
    BY DEF ConsumeNonce, Unconsumed, SpendInv, IInv, TypeOK
  <1>2. /\ call'[c].pc = "record" /\ call'[c].action = k.action /\ call'[c].at = k.at
        /\ \A e \in Calls \ {c} : call'[e] = call[e]
    BY <1>1 DEF IInv, TypeOK, Call
  <1> SUFFICES ASSUME NEW p \in Principals, NEW d \in Days PROVE SpendOK(p, d)'
    BY DEF SpendInv
  <1> DEFINE S == ConsumedUnits(p, d)
             P == PendingUnits(p, d)
  <1>3. /\ IsFiniteSet(S) /\ IsFiniteSet(P) /\ spend[p][d] \in Nat /\ m \in Nat
        /\ spend[p][d] + Cardinality(P) <= Cardinality(S)
        /\ Cardinality(S) \in Nat /\ Cardinality(P) \in Nat
    <2>1. SpendOK(p, d) /\ spend[p][d] \in Nat /\ m \in Nat
      <3>1. SpendOK(p, d)
        BY DEF SpendInv
      <3>2. spend[p][d] \in Nat
        BY <1>1 DEF IInv, TypeOK
      <3>3. m \in Nat
        BY <1>1, CommitType
      <3> QED BY <3>1, <3>2, <3>3
    <2>2. /\ IsFiniteSet(S) /\ IsFiniteSet(P)
          /\ spend[p][d] + Cardinality(P) <= Cardinality(S)
      BY <2>1 DEF SpendOK
    <2> QED BY <2>1, <2>2, FS_CardinalityType
  <1>4. /\ S' = IF Matches(k, p, d) THEN S \cup Units(k.target, m) ELSE S
        /\ \A u \in S : u[1] # k.target
    BY <1>1, ConsumptionUnits
  <1>5. /\ P' = IF Matches(k, p, d) THEN P \cup Units(c, m) ELSE P
        /\ \A u \in P : u[1] # c
    <2>1. \A e \in Calls : AboutToRecord(e, p, d)' <=> AboutToRecord(e, p, d) \/ (e = c /\ Matches(k, p, d))
      BY <1>1, <1>2 DEF AboutToRecord, Matches
    <2>2. ASSUME NEW u
          PROVE  u \in P' <=> u \in P \/ (Matches(k, p, d) /\ u \in Units(c, m))
      <3>1. u \in P <=> \E e \in Calls : AboutToRecord(e, p, d) /\ u \in Units(e, call[e].action.amount)
        BY PendingMember
      <3>2. u \in P' <=> \E e \in Calls : AboutToRecord(e, p, d)' /\ u \in Units(e, call'[e].action.amount)
        BY DEF PendingUnits, AboutToRecord
      <3>3. \A e \in Calls : call'[e].action.amount = call[e].action.amount
        BY <1>2
      <3> QED BY <2>1, <3>1, <3>2, <3>3
    <2>3. \A u \in P : u[1] # c
      BY <1>1, PendingMember DEF AboutToRecord, Units
    <2> QED BY <2>2, <2>3
  <1>6. /\ IsFiniteSet(S \cup Units(k.target, m))
        /\ Cardinality(S \cup Units(k.target, m)) = Cardinality(S) + m
    BY <1>3, <1>4, UnitsAdded
  <1>7. IsFiniteSet(P \cup Units(c, m)) /\ Cardinality(P \cup Units(c, m)) = Cardinality(P) + m
    BY <1>3, <1>5, UnitsAdded
  <1>8. IsFiniteSet(S') /\ IsFiniteSet(P') /\ spend'[p][d] = spend[p][d]
    BY <1>1, <1>3, <1>4, <1>5, <1>6, <1>7
  <1>9. spend[p][d] + Cardinality(P') <= Cardinality(S')
    <2>1. CASE Matches(k, p, d)
      <3>1. Cardinality(S') = Cardinality(S) + m /\ Cardinality(P') = Cardinality(P) + m
        BY <1>4, <1>5, <1>6, <1>7, <2>1
      <3> HIDE DEF S, P, m
      <3> QED BY <1>3, <3>1
    <2>2. CASE ~Matches(k, p, d)
      BY <1>3, <1>4, <1>5, <2>2
    <2> QED BY <2>1, <2>2
  <1> QED BY <1>1, <1>8, <1>9 DEF SpendOK

(* ... and recordSpend moves them out of the pending ones.                 *)
LEMMA RecordedSpend ==
    ASSUME SpendInv, IInv', NEW c \in Calls, RecordSpend(c) PROVE SpendInv'
  <1> DEFINE k == call[c]
             m == k.action.amount
  <1>1. /\ k.pc = "record" /\ IInv /\ CallOK(c) /\ spend' = AddSpend(k)
        /\ call' = [call EXCEPT ![c] = Idle] /\ UNCHANGED <<decisions, consumed>>
    BY DEF RecordSpend, SpendAfter, Return, SpendInv, IInv
  <1>2. ~AtomicStore
    BY <1>1 DEF CallOK, ConsumerOK
  <1>3. call'[c] = Idle /\ Idle.pc # "record" /\ \A e \in Calls \ {c} : call'[e] = call[e]
    BY <1>1 DEF IInv, TypeOK, Idle
  <1> SUFFICES ASSUME NEW p \in Principals, NEW d \in Days PROVE SpendOK(p, d)'
    BY DEF SpendInv
  <1> DEFINE S == ConsumedUnits(p, d)
             P == PendingUnits(p, d)
  <1>4. /\ IsFiniteSet(S) /\ IsFiniteSet(P) /\ spend[p][d] \in Nat /\ m \in Nat
        /\ spend[p][d] + Cardinality(P) <= Cardinality(S)
    BY <1>1, CommitType DEF SpendInv, SpendOK, IInv, TypeOK
  <1>5. S' = S
    BY <1>1, ConsumedSame
  <1>6. /\ P = IF Matches(k, p, d) THEN P' \cup Units(c, m) ELSE P'
        /\ \A u \in P' : u[1] # c
    <2>1. \A e \in Calls : AboutToRecord(e, p, d) <=> AboutToRecord(e, p, d)' \/ (e = c /\ Matches(k, p, d))
      BY <1>1, <1>3 DEF AboutToRecord, Matches
    <2>2. \A e \in Calls : AboutToRecord(e, p, d)' => e # c /\ call'[e] = call[e]
      BY <1>3 DEF AboutToRecord
    <2>3. ASSUME NEW u
          PROVE  u \in P' <=> \E e \in Calls : AboutToRecord(e, p, d)' /\ u \in Units(e, call'[e].action.amount)
      BY DEF PendingUnits, AboutToRecord
    <2>4. ASSUME NEW u
          PROVE  u \in P <=> u \in P' \/ (Matches(k, p, d) /\ u \in Units(c, m))
      <3>1. u \in P <=> \E e \in Calls : AboutToRecord(e, p, d) /\ u \in Units(e, call[e].action.amount)
        BY PendingMember
      <3> QED BY <2>1, <2>2, <2>3, <3>1
    <2>5. \A u \in P' : u[1] # c
      BY <2>2, <2>3 DEF Units
    <2> QED BY <2>4, <2>5
  <1>7. IsFiniteSet(P')
    <2>1. P' \in SUBSET P
      BY <1>6
    <2> QED BY <1>4, <2>1, FS_Subset
  <1>8. /\ Cardinality(P' \cup Units(c, m)) = Cardinality(P') + m /\ Cardinality(P') \in Nat
        /\ Cardinality(S) \in Nat
    BY <1>4, <1>6, <1>7, UnitsAdded, FS_CardinalityType
  <1>9. spend'[p][d] = IF Matches(k, p, d) THEN spend[p][d] + m ELSE spend[p][d]
    BY <1>1, AddSpendValue
  <1>10. spend'[p][d] + Cardinality(P') <= Cardinality(S)
    <2>1. CASE Matches(k, p, d)
      <3>1. Cardinality(P) = Cardinality(P') + m /\ spend'[p][d] = spend[p][d] + m
        BY <1>6, <1>8, <1>9, <2>1
      <3> HIDE DEF S, P, m
      <3> QED BY <1>4, <1>8, <3>1
    <2>2. CASE ~Matches(k, p, d)
      BY <1>4, <1>6, <1>9, <2>2
    <2> QED BY <2>1, <2>2
  <1> QED BY <1>2, <1>4, <1>5, <1>7, <1>10 DEF SpendOK

-----------------------------------------------------------------------------
(* The invariant and the theorems                                          *)

LEMMA InitSpend == Init => SpendInv
  <1> SUFFICES ASSUME Init PROVE SpendInv
    OBVIOUS
  <1>1. IInv
    BY InitIInv
  <1>2. ASSUME NEW p \in Principals, NEW d \in Days PROVE SpendOK(p, d)
    <2>1. ConsumedUnits(p, d) = {} /\ PendingUnits(p, d) = {} /\ spend[p][d] = 0
      BY DEF Init, ConsumedUnits, PendingUnits, Idle
    <2> QED BY <2>1, FS_EmptySet DEF SpendOK
  <1> QED BY <1>1, <1>2 DEF SpendInv

LEMMA SaveIsQuiet ==
    ASSUME SpendInv, IInv', NEW c \in Calls, NEW n \in Ids, Save(c, n) PROVE SpendInv'
  <1>1. \A i \in Ids : consumed[i] # None => decisions'[i] = decisions[i]
    BY DEF Save, SpendInv, IInv, ConsumptionOK, IsAllow, TypeOK
  <1>2. call' = [call EXCEPT ![c] = Idle] /\ Idle.pc # "record" /\ UNCHANGED <<consumed, spend>>
    BY DEF Save, Return, Idle
  <1> QED BY <1>1, <1>2, OneCallQuiet

LEMMA NextSpend == SpendInv /\ [Next]_vars => SpendInv'
  <1> SUFFICES ASSUME SpendInv, [Next]_vars PROVE SpendInv'
    OBVIOUS
  <1>1. IInv /\ IInv'
    BY NextIInv DEF SpendInv
  <1>2. Idle \in Call /\ Idle.pc # "record"
    BY IdleType DEF Idle
  <1>3. ASSUME NEW c \in Calls, Step(c) PROVE SpendInv'
    <2>1. ASSUME NEW a \in Actions, EvaluateStart(c, a) \/ IssueBlock(c, a) PROVE SpendInv'
      <3>1. CASE EvaluateStart(c, a)
        <4> DEFINE k == BeginEvaluation(Idle, a)
        <4>1. call' = [call EXCEPT ![c] = k] /\ UNCHANGED <<decisions, consumed, spend>>
          BY <3>1 DEF EvaluateStart
        <4>2. k.pc # "record"
          BY <1>2, BeginIsQuiet
        <4> HIDE DEF k
        <4> QED BY <1>1, <4>1, <4>2, OneCallQuiet
      <3>2. CASE IssueBlock(c, a)
        <4> DEFINE k == [Idle EXCEPT !.pc = "save", !.action = a, !.at = clock, !.verdict = "BLOCK"]
        <4>1. call' = [call EXCEPT ![c] = k] /\ UNCHANGED <<decisions, consumed, spend>>
          BY <3>2 DEF IssueBlock
        <4>2. k.pc # "record"
          BY DEF Idle
        <4> HIDE DEF k
        <4> QED BY <1>1, <4>1, <4>2, OneCallQuiet
      <3> QED BY <2>1, <3>1, <3>2
    <2>2. ASSUME NEW d \in Ids, NEW a \in Actions, NEW g \in BOOLEAN, ApproveStart(c, d, a, g)
          PROVE  SpendInv'
      <3> DEFINE k == [Idle EXCEPT !.pc = "claim", !.action = a, !.target = d, !.granted = g]
      <3>1. call' = [call EXCEPT ![c] = k] /\ UNCHANGED <<decisions, consumed, spend>>
        BY <2>2 DEF ApproveStart
      <3>2. k.pc # "record"
        BY DEF Idle
      <3> HIDE DEF k
      <3> QED BY <1>1, <3>1, <3>2, OneCallQuiet
    <2>3. ASSUME NEW d \in Ids, NEW a \in Actions, NEW r \in ExecRefs, ConsumeStart(c, d, a, r)
          PROVE  SpendInv'
      <3> DEFINE k == [Idle EXCEPT !.pc = "commit", !.action = a, !.target = d, !.ref = r, !.at = clock]
      <3>1. call' = [call EXCEPT ![c] = k] /\ UNCHANGED <<decisions, consumed, spend>>
        BY <2>3 DEF ConsumeStart
      <3>2. k.pc # "record"
        BY DEF Idle
      <3> HIDE DEF k
      <3> QED BY <1>1, <3>1, <3>2, OneCallQuiet
    <2>4. CASE ReadSpend(c)
      <3> DEFINE v == Evaluation(call[c].action, call[c].at, spend[call[c].action.principal][DayKey[call[c].at]])
                 k == [call[c] EXCEPT !.pc = "save", !.at = clock,
                         !.verdict = IF call[c].target # None THEN Resolution(call[c].granted, v) ELSE v]
      <3>1. call' = [call EXCEPT ![c] = k] /\ UNCHANGED <<decisions, consumed, spend>>
        BY <2>4 DEF ReadSpend
      <3>2. k.pc # "record"
        BY <1>1 DEF IInv, TypeOK, Call
      <3> HIDE DEF k
      <3> QED BY <1>1, <3>1, <3>2, OneCallQuiet
    <2>5. ASSUME NEW i \in Ids, Save(c, i) PROVE SpendInv'
      BY <1>1, <2>5, SaveIsQuiet
    <2>6. CASE ClaimApproval(c)
      <3>1. UNCHANGED <<decisions, consumed, spend>>
        BY <2>6 DEF ClaimApproval
      <3>2. \/ call' = [call EXCEPT ![c] = Idle]
            \/ call' = [call EXCEPT ![c] = BeginEvaluation(call[c], call[c].action)]
        BY <2>6 DEF ClaimApproval, Return
      <3>3. BeginEvaluation(call[c], call[c].action).pc # "record"
        BY <1>1, BeginIsQuiet DEF IInv, TypeOK
      <3> QED BY <1>1, <1>2, <3>1, <3>2, <3>3, OneCallQuiet
    <2>7. CASE ConsumeAndRecordSpend(c)
      BY <1>1, <2>7, AtomicSpend
    <2>8. CASE FindConsumption(c)
      BY <1>1, <1>2, <2>8, OneCallQuiet DEF FindConsumption, SpendAfter, Return
    <2>9. CASE ConsumeNonce(c)
      BY <1>1, <2>9, NonceSpend
    <2>10. CASE RecordSpend(c)
      BY <1>1, <2>10, RecordedSpend
    <2>11. CASE Fail(c)
      BY <1>1, <1>2, <2>11, OneCallQuiet DEF Fail, Return
    <2> QED
      BY <1>3, <2>1, <2>2, <2>3, <2>4, <2>5, <2>6, <2>7, <2>8, <2>9, <2>10, <2>11 DEF Step
  <1>4. CASE Tick
    BY <1>1, <1>4, QuietStep DEF Tick
  <1>5. CASE UNCHANGED vars
    BY <1>1, <1>5, QuietStep DEF vars
  <1> QED BY <1>3, <1>4, <1>5 DEF Next

(* Units are consumed, recorded or pending, and each is counted once.      *)
THEOREM SpendInvariant == Spec => []SpendInv
  BY InitSpend, NextSpend, PTL DEF Spec

(* Over the atomic store the daily total is the sum of the consumptions of *)
(* that day, whatever races, retries and failures there are.               *)
THEOREM SpendIsTheSum == ASSUME AtomicStore PROVE Spec => []SpendAccounted
  <1>1. SpendInv => SpendAccounted
    BY DEF SpendInv, SpendOK, SpendAccounted
  <1> QED BY <1>1, SpendInvariant, PTL

(* Over the legacy pair, too, no spend is recorded that no consumption     *)
(* stands for.                                                             *)
THEOREM SpendNeverTooHigh == Spec => []SpendNeverOverstated
  <1>1. SpendInv => SpendNeverOverstated
    BY DEF SpendInv, SpendOK, SpendNeverOverstated
  <1> QED BY <1>1, SpendInvariant, PTL
=============================================================================
