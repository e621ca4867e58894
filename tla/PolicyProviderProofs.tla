------------------------ MODULE PolicyProviderProofs ------------------------
(* Proofs about PolicyProvider for every value of its constants.           *)
EXTENDS PolicyProvider, TLAPS

-----------------------------------------------------------------------------
(* The inductive invariant                                                 *)

IsRequest(i, a) ==
    /\ i \in Ids /\ decisions[i] # None
    /\ decisions[i].verdict = "REQUIRE_APPROVAL" /\ decisions[i].action = a

IsAllow(i) == i \in Ids /\ decisions[i] # None /\ decisions[i].verdict = "ALLOW"

(* A call that evaluates works on an action, and one that resolves a       *)
(* request works on the action of that request.                            *)
EvaluatorOK(c) ==
    call[c].pc \in {"claim", "read", "save"} =>
        /\ call[c].action \in Actions
        /\ call[c].pc = "claim" => call[c].target # None
        /\ call[c].target # None => IsRequest(call[c].target, call[c].action)

Resolving(c, k) == call[c].pc \in {"read", "save"} /\ call[c].target = k

(* A resolver past the claim holds it alone: nothing supersedes its        *)
(* request and nobody else is about to.                                    *)
SoleResolver(c) ==
    \A k \in Ids : Resolving(c, k) =>
        /\ k \in claims
        /\ decisions[k].issuedAt <= call[c].at
        /\ \A i \in Ids : Issued(i) => decisions[i].supersedes # k
        /\ \A e \in Calls : Resolving(e, k) => e = c

(* What a call is about to sign. *)
DraftOK(c) ==
    call[c].pc = "save" =>
        /\ call[c].verdict \in Verdicts
        /\ call[c].target # None => call[c].verdict # "REQUIRE_APPROVAL"
        /\ call[c].verdict = "ALLOW" /\ call[c].action.amount > HumanAbove =>
              call[c].granted /\ call[c].target # None

(* What a call is about to consume. *)
ConsumerOK(c) ==
    call[c].pc \in {"commit", "record"} =>
        /\ IsAllow(call[c].target) /\ call[c].ref \in ExecRefs
        /\ call[c].action = decisions[call[c].target].action
        /\ call[c].at < decisions[call[c].target].issuedAt + DecisionTtl
        /\ call[c].pc = "record" =>
              /\ ~AtomicStore
              /\ consumed[call[c].target] # None /\ consumed[call[c].target].ref = call[c].ref

CallOK(c) ==
    /\ call[c].at <= clock
    /\ EvaluatorOK(c) /\ SoleResolver(c) /\ DraftOK(c) /\ ConsumerOK(c)

DecisionOK(i) ==
    Issued(i) =>
        /\ decisions[i].issuedAt <= clock
        /\ decisions[i].supersedes # None =>
              /\ decisions[i].supersedes \in claims
              /\ IsRequest(decisions[i].supersedes, decisions[i].action)
              /\ decisions[decisions[i].supersedes].issuedAt <= decisions[i].issuedAt
        /\ decisions[i].verdict = "ALLOW" /\ decisions[i].action.amount > HumanAbove =>
              decisions[i].granted /\ decisions[i].supersedes # None

ConsumptionOK(i) ==
    consumed[i] # None =>
        IsAllow(i) /\ consumed[i].at < decisions[i].issuedAt + DecisionTtl

PermitsOK == \A x \in permits : consumed[x[1]] # None /\ consumed[x[1]].ref = x[2]

LimitOK == AtomicStore => DailyLimitHeld

IInv ==
    /\ TypeOK
    /\ \A c \in Calls : CallOK(c)
    /\ \A i \in Ids : DecisionOK(i) /\ ConsumptionOK(i)
    /\ OneSupersederPerApproval
    /\ PermitsOK
    /\ LimitOK

-----------------------------------------------------------------------------
(* Type correctness                                                        *)

LEMMA IdleType == Idle \in Call
  BY ClockAssumption DEF Idle, Call, Times

(* A resolution and an evaluation are verdicts. *)
LEMMA EvaluationType ==
    ASSUME NEW a, NEW now, NEW spent PROVE Evaluation(a, now, spent) \in Verdicts
  BY DEF Evaluation, Verdicts

LEMMA ResolutionType ==
    ASSUME NEW g, NEW v PROVE Resolution(g, v) \in {"ALLOW", "BLOCK"}
  BY DEF Resolution

LEMMA BeginEvaluationType ==
    ASSUME NEW k \in Call, NEW a \in Actions, TypeOK
    PROVE  BeginEvaluation(k, a) \in Call
  BY DEF BeginEvaluation, Call, TypeOK, Verdicts

LEMMA InitIInv == Init => IInv
  <1> SUFFICES ASSUME Init PROVE IInv
    OBVIOUS
  <1>1. TypeOK
    BY IdleType, ClockAssumption DEF Init, TypeOK, Times
  <1>2. \A c \in Calls : CallOK(c)
    BY DEF Init, CallOK, EvaluatorOK, SoleResolver, DraftOK, ConsumerOK, Idle, Resolving
  <1>3. \A i \in Ids : DecisionOK(i) /\ ConsumptionOK(i)
    BY DEF Init, DecisionOK, ConsumptionOK, Issued
  <1>4. OneSupersederPerApproval /\ PermitsOK
    BY DEF Init, OneSupersederPerApproval, PermitsOK, Issued
  <1>5. LimitOK
    BY PolicyAssumption DEF Init, LimitOK, DailyLimitHeld
  <1> QED
    BY <1>1, <1>2, <1>3, <1>4, <1>5 DEF IInv

-----------------------------------------------------------------------------
(* Steps that change only the state of one call                            *)

(* They preserve the invariant when the call's new state is well formed.   *)
LEMMA CallStep ==
    ASSUME IInv, NEW c \in Calls, NEW k \in Call,
           call' = [call EXCEPT ![c] = k],
           UNCHANGED <<clock, decisions, claims, consumed, spend, permits>>,
           CallOK(c)'
    PROVE  IInv'
  <1>1. TypeOK'
    BY DEF IInv, TypeOK
  <1>2. call'[c] = k /\ \A e \in Calls \ {c} : call'[e] = call[e]
    BY DEF IInv, TypeOK
  <1>3. ASSUME NEW e \in Calls, e # c PROVE CallOK(e)'
    <2>1. CallOK(e) /\ call'[e] = call[e]
      BY <1>2, <1>3 DEF IInv
    <2>2. EvaluatorOK(e)' /\ DraftOK(e)' /\ ConsumerOK(e)' /\ call'[e].at <= clock'
      BY <2>1 DEF CallOK, EvaluatorOK, DraftOK, ConsumerOK, IsRequest, IsAllow
    <2>3. SoleResolver(e)'
      <3> SUFFICES ASSUME NEW j \in Ids, Resolving(e, j)'
                   PROVE  /\ j \in claims' /\ decisions'[j].issuedAt <= call'[e].at
                          /\ \A i \in Ids : Issued(i)' => decisions'[i].supersedes # j
                          /\ \A f \in Calls : Resolving(f, j)' => f = e
        BY DEF SoleResolver
      <3>1. Resolving(e, j)
        BY <2>1 DEF Resolving
      <3>2. ~Resolving(c, j)'
        BY <1>3 DEF CallOK, SoleResolver
      <3>3. \A f \in Calls : Resolving(f, j)' => Resolving(f, j)
        BY <1>2, <3>2 DEF Resolving
      <3> QED
        BY <2>1, <3>1, <3>3 DEF CallOK, SoleResolver, Issued
    <2> QED
      BY <2>2, <2>3 DEF CallOK
  <1>4. \A e \in Calls : CallOK(e)'
    BY <1>3
  <1>5. \A i \in Ids : DecisionOK(i)' /\ ConsumptionOK(i)'
    BY DEF IInv, DecisionOK, ConsumptionOK, Issued, IsRequest, IsAllow
  <1>6. OneSupersederPerApproval' /\ PermitsOK' /\ LimitOK'
    BY DEF IInv, OneSupersederPerApproval, PermitsOK, LimitOK, DailyLimitHeld, Issued
  <1> QED
    BY <1>1, <1>4, <1>5, <1>6 DEF IInv

(* An idle call is well formed. *)
LEMMA IdleOK ==
    ASSUME IInv, NEW c \in Calls, call'[c] = Idle, clock' = clock
    PROVE  CallOK(c)'
  BY DEF IInv, TypeOK, Times, Idle, CallOK, EvaluatorOK, SoleResolver, DraftOK, ConsumerOK,
         Resolving

LEMMA ReturnStep ==
    ASSUME IInv, NEW c \in Calls, Return(c),
           UNCHANGED <<clock, decisions, claims, consumed, spend, permits>>
    PROVE  IInv'
  <1>1. call'[c] = Idle
    BY DEF IInv, TypeOK, Return
  <1> QED
    BY <1>1, IdleOK, IdleType, CallStep DEF Return

LEMMA EvaluateStartStep ==
    ASSUME IInv, NEW c \in Calls, NEW a \in Actions, EvaluateStart(c, a) \/ IssueBlock(c, a)
    PROVE  IInv'
  <1> DEFINE blocked == [Idle EXCEPT !.pc = "save", !.action = a, !.at = clock,
                                     !.verdict = "BLOCK"]
             reading == [Idle EXCEPT !.pc = "read", !.action = a, !.at = clock]
  <1>1. PICK k \in {blocked, reading} : call' = [call EXCEPT ![c] = k]
    BY DEF EvaluateStart, IssueBlock, BeginEvaluation
  <1>2. k \in Call
    BY <1>1, ClockAssumption DEF IInv, TypeOK, Idle, Call, Verdicts
  <1>3. /\ k.pc \in {"save", "read"} /\ k.action = a /\ k.target = None /\ k.at = clock
        /\ k.pc = "save" => k.verdict = "BLOCK"
    BY <1>1 DEF Idle
  <1>4. /\ call'[c] = k
        /\ UNCHANGED <<clock, decisions, claims, consumed, spend, permits>>
    BY <1>1 DEF IInv, TypeOK, EvaluateStart, IssueBlock
  <1>5. CallOK(c)'
    BY <1>3, <1>4, ActionsAssumption
    DEF IInv, TypeOK, Times, CallOK, EvaluatorOK, SoleResolver, DraftOK, ConsumerOK, Resolving,
        Verdicts
  <1> QED
    BY <1>1, <1>2, <1>4, <1>5, CallStep

LEMMA ReadSpendStep ==
    ASSUME IInv, NEW c \in Calls, ReadSpend(c) PROVE IInv'
  <1> DEFINE k == call[c]
             v == Evaluation(k.action, k.at, spend[k.action.principal][DayKey[k.at]])
             w == IF k.target # None THEN Resolution(k.granted, v) ELSE v
             m == [k EXCEPT !.pc = "save", !.at = clock, !.verdict = w]
  <1>1. k.pc = "read" /\ k \in Call /\ CallOK(c)
    BY DEF ReadSpend, IInv, TypeOK
  <1>2. call' = [call EXCEPT ![c] = m]
    BY DEF ReadSpend
  <1>3. UNCHANGED <<clock, decisions, claims, consumed, spend, permits>>
    BY DEF ReadSpend
  <1>4. w \in Verdicts
    BY EvaluationType, ResolutionType DEF Verdicts
  <1>5. /\ w = "ALLOW" /\ k.action.amount > HumanAbove => k.granted /\ k.target # None
        /\ k.target # None => w # "REQUIRE_APPROVAL"
    BY DEF Evaluation, Resolution
  <1> HIDE DEF w
  <1>6. m \in Call
    BY <1>1, <1>4 DEF IInv, TypeOK, Call
  <1>7. /\ m.pc = "save" /\ m.at = clock /\ m.verdict = w
        /\ m.action = k.action /\ m.target = k.target /\ m.granted = k.granted
    BY <1>1 DEF Call
  <1>8. call'[c] = m
    BY <1>2 DEF IInv, TypeOK
  <1> HIDE DEF m
  <1>9. SoleResolver(c)'
    <2> SUFFICES ASSUME NEW j \in Ids, Resolving(c, j)'
                 PROVE  /\ j \in claims' /\ decisions'[j].issuedAt <= call'[c].at
                        /\ \A i \in Ids : Issued(i)' => decisions'[i].supersedes # j
                        /\ \A f \in Calls : Resolving(f, j)' => f = c
      BY DEF SoleResolver
    <2>1. Resolving(c, j)
      BY <1>1, <1>7, <1>8 DEF Resolving
    <2>2. \A f \in Calls : Resolving(f, j)' => Resolving(f, j)
      BY <1>2, <2>1 DEF Resolving, IInv, TypeOK
    <2>3. Issued(j) /\ decisions[j].issuedAt <= clock
      BY <2>1, <1>1, ActionsAssumption
      DEF IInv, DecisionOK, CallOK, EvaluatorOK, IsRequest, Issued, Resolving
    <2> QED
      BY <1>1, <1>3, <1>7, <1>8, <2>1, <2>2, <2>3 DEF CallOK, SoleResolver, Issued
  <1>10. CallOK(c)'
    BY <1>1, <1>3, <1>4, <1>5, <1>7, <1>8, <1>9
    DEF CallOK, EvaluatorOK, DraftOK, ConsumerOK, IsRequest, IInv, TypeOK, Times
  <1> QED
    BY <1>2, <1>3, <1>6, <1>10, CallStep

LEMMA ApproveStartStep ==
    ASSUME IInv, NEW c \in Calls, NEW d \in Ids, NEW a \in Actions, NEW g \in BOOLEAN,
           ApproveStart(c, d, a, g)
    PROVE  IInv'
  <1> DEFINE k == [Idle EXCEPT !.pc = "claim", !.action = a, !.target = d, !.granted = g]
  <1>1. call' = [call EXCEPT ![c] = k]
    BY DEF ApproveStart
  <1>2. k \in Call /\ k.pc = "claim" /\ k.action = a /\ k.target = d /\ k.at = 0
    BY IdleType DEF Idle, Call
  <1>3. /\ call'[c] = k
        /\ UNCHANGED <<clock, decisions, claims, consumed, spend, permits>>
    BY <1>1 DEF IInv, TypeOK, ApproveStart
  <1>4. CallOK(c)'
    BY <1>2, <1>3, ActionsAssumption
    DEF IInv, TypeOK, Times, CallOK, EvaluatorOK, SoleResolver, DraftOK, ConsumerOK, Resolving,
        IsRequest, ApproveStart
  <1> QED
    BY <1>1, <1>2, <1>3, <1>4, CallStep

LEMMA ConsumeStartStep ==
    ASSUME IInv, NEW c \in Calls, NEW d \in Ids, NEW a \in Actions, NEW r \in ExecRefs,
           ConsumeStart(c, d, a, r)
    PROVE  IInv'
  <1> DEFINE k == [Idle EXCEPT !.pc = "commit", !.action = a, !.target = d,
                               !.ref = r, !.at = clock]
  <1>1. call' = [call EXCEPT ![c] = k]
    BY DEF ConsumeStart
  <1>2. /\ k \in Call /\ k.pc = "commit" /\ k.action = a /\ k.target = d /\ k.at = clock
        /\ k.ref = r
    BY IdleType DEF Idle, Call, IInv, TypeOK
  <1>3. /\ call'[c] = k
        /\ UNCHANGED <<clock, decisions, claims, consumed, spend, permits>>
    BY <1>1 DEF IInv, TypeOK, ConsumeStart
  <1>4. clock < decisions[d].issuedAt + DecisionTtl
    BY PolicyAssumption
    DEF ConsumeStart, DecisionExpired, IInv, TypeOK, Decision, Times, Consumable
  <1>5. CallOK(c)'
    BY <1>2, <1>3, <1>4
    DEF IInv, TypeOK, Times, CallOK, EvaluatorOK, SoleResolver, DraftOK, ConsumerOK, Resolving,
        IsAllow, ConsumeStart, Consumable
  <1> QED
    BY <1>1, <1>2, <1>3, <1>5, CallStep

LEMMA FailStep == ASSUME IInv, NEW c \in Calls, Fail(c) PROVE IInv'
  BY ReturnStep DEF Fail

-----------------------------------------------------------------------------
(* Steps that change the store                                             *)

(* The claim is what makes a resolver the only one: whoever resolves k     *)
(* already has claimed it, and so has whatever superseded it.              *)
LEMMA ClaimStep == ASSUME IInv, NEW c \in Calls, ClaimApproval(c) PROVE IInv'
  <1> DEFINE k == call[c]
             j == k.target
             m == BeginEvaluation(k, k.action)
  <1>1. k.pc = "claim" /\ k \in Call /\ CallOK(c)
    BY DEF ClaimApproval, IInv, TypeOK
  <1>2. CASE AlreadyClaimed(j)
    BY <1>2, ReturnStep DEF ClaimApproval
  <1>3. CASE ~AlreadyClaimed(j)
    <2>1. /\ j \notin claims /\ claims' = claims \cup {j}
          /\ call' = [call EXCEPT ![c] = m]
          /\ UNCHANGED <<clock, decisions, consumed, spend, permits>>
      BY <1>3 DEF ClaimApproval, AlreadyClaimed
    <2>2. IsRequest(j, k.action) /\ k.action \in Actions /\ j \in Ids /\ j # None
      BY <1>1 DEF CallOK, EvaluatorOK, IsRequest
    <2>3. m \in Call
      BY <1>1, <2>2, BeginEvaluationType DEF IInv
    <2>4. /\ m.pc \in {"read", "save"} /\ m.at = clock /\ m.target = j /\ m.action = k.action
          /\ m.pc = "save" => m.verdict = "BLOCK"
      BY <1>1 DEF BeginEvaluation, Call
    <2> HIDE DEF m
    <2>5. call'[c] = m /\ \A e \in Calls \ {c} : call'[e] = call[e]
      BY <2>1 DEF IInv, TypeOK
    <2>6. TypeOK'
      BY <2>1, <2>2, <2>3 DEF IInv, TypeOK
    <2>7. \A e \in Calls \ {c} : ~Resolving(e, j)
      BY <2>1, <2>2 DEF IInv, CallOK, SoleResolver
    <2>8. \A i \in Ids : Issued(i) => decisions[i].supersedes # j
      BY <2>1, <2>2 DEF IInv, DecisionOK
    <2>9. decisions[j].issuedAt <= clock
      BY <2>2 DEF IInv, DecisionOK, IsRequest, Issued
    <2>10. SoleResolver(c)'
      BY <2>1, <2>2, <2>4, <2>5, <2>7, <2>8, <2>9 DEF SoleResolver, Resolving, Issued
    <2>11. CallOK(c)'
      BY <2>1, <2>2, <2>4, <2>5, <2>10
      DEF CallOK, EvaluatorOK, DraftOK, ConsumerOK, IsRequest, IInv, TypeOK, Times, Verdicts
    <2>12. ASSUME NEW e \in Calls, e # c PROVE CallOK(e)'
      <3>1. CallOK(e) /\ call'[e] = call[e] /\ ~Resolving(e, j)
        BY <2>5, <2>7, <2>12 DEF IInv
      <3>2. EvaluatorOK(e)' /\ DraftOK(e)' /\ ConsumerOK(e)' /\ call'[e].at <= clock'
        BY <2>1, <3>1 DEF CallOK, EvaluatorOK, DraftOK, ConsumerOK, IsRequest, IsAllow
      <3>3. SoleResolver(e)'
        <4> SUFFICES ASSUME NEW i \in Ids, Resolving(e, i)'
                     PROVE  /\ i \in claims' /\ decisions'[i].issuedAt <= call'[e].at
                            /\ \A n \in Ids : Issued(n)' => decisions'[n].supersedes # i
                            /\ \A f \in Calls : Resolving(f, i)' => f = e
          BY DEF SoleResolver
        <4>1. Resolving(e, i) /\ i # j
          BY <3>1 DEF Resolving
        <4>2. \A f \in Calls : Resolving(f, i)' => Resolving(f, i)
          BY <2>4, <2>5, <4>1 DEF Resolving
        <4> QED
          BY <2>1, <3>1, <4>1, <4>2 DEF CallOK, SoleResolver, Issued
      <3> QED
        BY <3>2, <3>3 DEF CallOK
    <2>13. \A i \in Ids : DecisionOK(i)' /\ ConsumptionOK(i)'
      BY <2>1 DEF IInv, DecisionOK, ConsumptionOK, Issued, IsRequest, IsAllow
    <2>14. OneSupersederPerApproval' /\ PermitsOK' /\ LimitOK'
      BY <2>1 DEF IInv, OneSupersederPerApproval, PermitsOK, LimitOK, DailyLimitHeld, Issued
    <2> QED
      BY <2>6, <2>11, <2>12, <2>13, <2>14 DEF IInv
  <1> QED
    BY <1>2, <1>3

(* What a call saves is a decision. *)
LEMMA DraftType ==
    ASSUME IInv, NEW c \in Calls, call[c].pc = "save"
    PROVE  /\ [verdict |-> call[c].verdict, action |-> call[c].action,
               issuedAt |-> call[c].at, supersedes |-> call[c].target,
               granted |-> call[c].granted /\ call[c].verdict = "ALLOW"] \in Decision
           /\ call[c].action \in Actions /\ call[c].verdict \in Verdicts
           /\ call[c].target \in Ids \cup {None}
  <1> DEFINE k == call[c]
             g == k.granted /\ k.verdict = "ALLOW"
  <1>1. k \in Call /\ CallOK(c)
    BY DEF IInv, TypeOK
  <1>2. k.action \in Actions /\ k.verdict \in Verdicts /\ k.target \in Ids \cup {None}
    BY <1>1 DEF CallOK, EvaluatorOK, DraftOK, Call
  <1>3. g \in BOOLEAN
    BY Zenon
  <1>4. k.at \in Times
    BY <1>1 DEF Call
  <1> HIDE DEF g, k
  <1>5. [verdict |-> k.verdict, action |-> k.action, issuedAt |-> k.at,
         supersedes |-> k.target, granted |-> g] \in Decision
    BY <1>2, <1>3, <1>4 DEF Decision
  <1> QED
    BY <1>2, <1>5 DEF g, k

(* A fresh id is referred to by nothing, so storing a decision under it    *)
(* disturbs nobody; the request it supersedes was held by this call alone. *)
LEMMA SaveStep == ASSUME IInv, NEW c \in Calls, NEW n \in Ids, Save(c, n) PROVE IInv'
  <1> DEFINE k == call[c]
             g == k.granted /\ k.verdict = "ALLOW"
             new == [verdict |-> k.verdict, action |-> k.action, issuedAt |-> k.at,
                     supersedes |-> k.target, granted |-> g]
  <1>1. /\ k.pc = "save" /\ k \in Call /\ CallOK(c) /\ decisions[n] = None
        /\ decisions' = [decisions EXCEPT ![n] = new]
        /\ call' = [call EXCEPT ![c] = Idle]
        /\ UNCHANGED <<clock, claims, consumed, spend, permits>>
    BY DEF Save, Return, IInv, TypeOK
  <1>2. k.action \in Actions /\ k.verdict \in Verdicts /\ k.target \in Ids \cup {None}
    BY <1>1, DraftType
  <1>3. new \in Decision /\ new # None
    BY <1>1, DraftType, NoneAssumption
  <1>4. /\ new.verdict = k.verdict /\ new.action = k.action /\ new.issuedAt = k.at
        /\ new.supersedes = k.target
        /\ k.granted /\ k.verdict = "ALLOW" => new.granted
    BY Zenon
  <1> HIDE DEF new
  <1>5. decisions'[n] = new /\ \A i \in Ids \ {n} : decisions'[i] = decisions[i]
    BY <1>1 DEF IInv, TypeOK
  <1>6. call'[c] = Idle /\ \A e \in Calls \ {c} : call'[e] = call[e]
    BY <1>1 DEF IInv, TypeOK
  <1>7. \A i \in Ids : decisions[i] # None => decisions'[i] = decisions[i]
    BY <1>1, <1>5
  <1>8. TypeOK'
    BY <1>1, <1>3, IdleType DEF IInv, TypeOK
  <1>9. \A i, a : IsRequest(i, a) => IsRequest(i, a)' /\ decisions'[i] = decisions[i]
    BY <1>7 DEF IsRequest
  <1>10. \A i : IsAllow(i) => IsAllow(i)' /\ decisions'[i] = decisions[i]
    BY <1>7 DEF IsAllow
  <1>11. CallOK(c)'
    BY <1>1, <1>6, IdleOK DEF IInv
  <1>12. ASSUME NEW e \in Calls, e # c PROVE CallOK(e)'
    <2>1. CallOK(e) /\ call'[e] = call[e]
      BY <1>6, <1>12 DEF IInv
    <2>2. EvaluatorOK(e)' /\ DraftOK(e)' /\ ConsumerOK(e)' /\ call'[e].at <= clock'
      BY <1>1, <1>9, <1>10, <2>1 DEF CallOK, EvaluatorOK, DraftOK, ConsumerOK
    <2>3. SoleResolver(e)'
      <3> SUFFICES ASSUME NEW j \in Ids, Resolving(e, j)'
                   PROVE  /\ j \in claims' /\ decisions'[j].issuedAt <= call'[e].at
                          /\ \A i \in Ids : Issued(i)' => decisions'[i].supersedes # j
                          /\ \A f \in Calls : Resolving(f, j)' => f = e
        BY DEF SoleResolver
      <3>1. Resolving(e, j)
        BY <2>1 DEF Resolving
      <3>2. \A f \in Calls : Resolving(f, j)' => Resolving(f, j)
        BY <1>6 DEF Resolving, Idle
      <3>3. k.target # j
        BY <1>1, <1>12, <3>1 DEF CallOK, SoleResolver, Resolving
      <3>4. j # n /\ decisions'[j] = decisions[j]
        BY <1>1, <1>9, <2>1, <3>1, ActionsAssumption
        DEF CallOK, EvaluatorOK, Resolving, IsRequest
      <3>5. \A i \in Ids : Issued(i)' => decisions'[i].supersedes # j
        BY <1>4, <1>5, <2>1, <3>1, <3>3 DEF CallOK, SoleResolver, Issued
      <3> QED
        BY <1>1, <2>1, <3>1, <3>2, <3>4, <3>5 DEF CallOK, SoleResolver
    <2> QED
      BY <2>2, <2>3 DEF CallOK
  <1>13. DecisionOK(n)'
    <2>1. k.target # None =>
            /\ k.target \in claims /\ IsRequest(k.target, k.action)
            /\ decisions[k.target].issuedAt <= k.at
      BY <1>1, <1>2 DEF CallOK, EvaluatorOK, SoleResolver, Resolving
    <2>2. k.at <= clock
      BY <1>1 DEF CallOK
    <2>3. k.verdict = "ALLOW" /\ k.action.amount > HumanAbove => k.granted /\ k.target # None
      BY <1>1 DEF CallOK, DraftOK
    <2> QED
      BY <1>1, <1>4, <1>5, <1>9, <2>1, <2>2, <2>3 DEF DecisionOK
  <1>14. \A i \in Ids \ {n} : DecisionOK(i)'
    BY <1>1, <1>5, <1>9 DEF IInv, DecisionOK, Issued
  <1>15. \A i \in Ids : ConsumptionOK(i)'
    BY <1>1, <1>10 DEF IInv, ConsumptionOK
  <1>16. OneSupersederPerApproval'
    <2>1. k.target # None => \A i \in Ids : Issued(i) => decisions[i].supersedes # k.target
      BY <1>1, <1>2 DEF CallOK, SoleResolver, Resolving
    <2> QED
      BY <1>1, <1>4, <1>5, <2>1 DEF IInv, OneSupersederPerApproval, Issued
  <1>17. PermitsOK' /\ LimitOK'
    BY <1>1 DEF IInv, PermitsOK, LimitOK, DailyLimitHeld
  <1> QED
    BY <1>8, <1>11, <1>12, <1>13, <1>14, <1>15, <1>16, <1>17 DEF IInv

(* What a call about to commit adds to consumptions and spend is typed.    *)
LEMMA CommitType ==
    ASSUME IInv, NEW c \in Calls, call[c].pc \in {"commit", "record"}
    PROVE  /\ call[c].target \in Ids /\ IsAllow(call[c].target)
           /\ NewConsumption(call[c]) \in Consumption /\ NewConsumption(call[c]) # None
           /\ NewConsumption(call[c]).ref = call[c].ref
           /\ NewConsumption(call[c]).at = call[c].at
           /\ call[c].action \in Actions /\ call[c].action.principal \in Principals
           /\ call[c].action.amount \in Nat
           /\ DayKey[call[c].at] \in Days
           /\ <<call[c].target, call[c].ref>> \in Ids \X ExecRefs
  <1>1. ConsumerOK(c) /\ call[c] \in Call
    BY DEF IInv, CallOK, TypeOK
  <1>2. /\ IsAllow(call[c].target) /\ call[c].target \in Ids /\ call[c].ref \in ExecRefs
        /\ call[c].action = decisions[call[c].target].action
    BY <1>1 DEF ConsumerOK, IsAllow
  <1>3. decisions[call[c].target] \in Decision
    BY <1>2 DEF IsAllow, IInv, TypeOK
  <1>4. call[c].action \in Actions
    BY <1>2, <1>3 DEF Decision
  <1>5. call[c].at \in Times /\ DayKey[call[c].at] \in Days
    BY <1>1, ClockAssumption DEF Call
  <1>6. NewConsumption(call[c]) \in Consumption
    BY <1>2, <1>5 DEF NewConsumption, Consumption
  <1>7. /\ NewConsumption(call[c]).ref = call[c].ref
        /\ NewConsumption(call[c]).at = call[c].at
    BY DEF NewConsumption
  <1> QED
    BY <1>2, <1>4, <1>5, <1>6, <1>7, ActionsAssumption, NoneAssumption

LEMMA AddSpendType ==
    ASSUME IInv, NEW c \in Calls, call[c].pc \in {"commit", "record"}
    PROVE  AddSpend(call[c]) \in [Principals -> [Days -> Nat]]
  <1> DEFINE k == call[c]
             p == k.action.principal
             d == DayKey[k.at]
             m == k.action.amount
  <1>1. p \in Principals /\ d \in Days /\ m \in Nat
    BY CommitType
  <1>2. AddSpend(k) = [spend EXCEPT ![p][d] = @ + m]
    BY DEF AddSpend
  <1> HIDE DEF k, p, d, m
  <1>3. spend \in [Principals -> [Days -> Nat]]
    BY DEF IInv, TypeOK
  <1>4. spend[p][d] + m \in Nat
    BY <1>1, <1>3
  <1>5. [spend[p] EXCEPT ![d] = @ + m] \in [Days -> Nat]
    BY <1>1, <1>3, <1>4
  <1>6. [spend EXCEPT ![p][d] = @ + m] \in [Principals -> [Days -> Nat]]
    BY <1>3, <1>5
  <1> QED
    BY <1>2, <1>6 DEF k

(* Resolvers do not look at consumptions. *)
LEMMA ConsumptionStep ==
    ASSUME IInv, NEW c \in Calls, TypeOK', CallOK(c)',
           NEW k, call' = [call EXCEPT ![c] = k], k.pc \notin {"read", "save"},
           UNCHANGED <<clock, decisions, claims>>,
           \A i \in Ids : consumed[i] # None => consumed'[i] = consumed[i]
    PROVE  /\ \A e \in Calls : CallOK(e)'
           /\ \A i \in Ids : DecisionOK(i)'
           /\ OneSupersederPerApproval'
  <1>1. call'[c] = k /\ \A e \in Calls \ {c} : call'[e] = call[e]
    BY DEF IInv, TypeOK
  <1>2. ASSUME NEW e \in Calls, e # c PROVE CallOK(e)'
    <2>1. CallOK(e) /\ call'[e] = call[e]
      BY <1>1, <1>2 DEF IInv
    <2>2. ConsumerOK(e)'
      BY <2>1 DEF CallOK, ConsumerOK, IsAllow
    <2>3. EvaluatorOK(e)' /\ DraftOK(e)' /\ call'[e].at <= clock'
      BY <2>1 DEF CallOK, EvaluatorOK, DraftOK, IsRequest
    <2>4. \A f \in Calls, j \in Ids : Resolving(f, j)' => Resolving(f, j)
      BY <1>1 DEF Resolving
    <2>5. SoleResolver(e)'
      BY <2>1, <2>4 DEF CallOK, SoleResolver, Issued, Resolving
    <2> QED
      BY <2>2, <2>3, <2>5 DEF CallOK
  <1>3. \A i \in Ids : DecisionOK(i)'
    BY DEF IInv, DecisionOK, Issued, IsRequest
  <1>4. OneSupersederPerApproval'
    BY DEF IInv, OneSupersederPerApproval, Issued
  <1> QED
    BY <1>2, <1>3, <1>4

(* The caller is permitted what its consumption says. *)
LEMMA PermitStep ==
    ASSUME IInv, NEW c \in Calls, Permit(c) \/ UNCHANGED permits,
           Permit(c) => consumed'[call[c].target] # None
                          /\ consumed'[call[c].target].ref = call[c].ref,
           \A i \in Ids : consumed[i] # None => consumed'[i] = consumed[i]
    PROVE  PermitsOK'
  <1> SUFFICES ASSUME NEW x \in permits'
               PROVE  consumed'[x[1]] # None /\ consumed'[x[1]].ref = x[2]
    BY DEF PermitsOK
  <1>1. CASE x \in permits
    <2>1. x[1] \in Ids
      BY <1>1 DEF IInv, TypeOK
    <2> QED
      BY <1>1, <2>1 DEF IInv, PermitsOK
  <1>2. CASE x \notin permits
    BY <1>2 DEF Permit
  <1> QED
    BY <1>1, <1>2

LEMMA ConsumeAndRecordSpendStep ==
    ASSUME IInv, NEW c \in Calls, ConsumeAndRecordSpend(c) PROVE IInv'
  <1> DEFINE k == call[c]
             p == k.action.principal
             d == DayKey[k.at]
  <1>1. CASE ~WithinDailyLimit(k)
    BY <1>1, ReturnStep DEF ConsumeAndRecordSpend
  <1>2. CASE WithinDailyLimit(k)
    <2>1. /\ k.pc = "commit" /\ consumed[k.target] = None
          /\ consumed' = [consumed EXCEPT ![k.target] = NewConsumption(k)]
          /\ spend' = AddSpend(k) /\ Permit(c)
          /\ call' = [call EXCEPT ![c] = Idle]
          /\ UNCHANGED <<clock, decisions, claims>>
      BY <1>2 DEF ConsumeAndRecordSpend, Unconsumed, SpendAfter, Return
    <2>2. /\ k.target \in Ids /\ IsAllow(k.target)
          /\ NewConsumption(k) \in Consumption /\ NewConsumption(k) # None
          /\ NewConsumption(k).ref = k.ref /\ NewConsumption(k).at = k.at
          /\ p \in Principals /\ d \in Days /\ k.action.amount \in Nat
          /\ <<k.target, k.ref>> \in Ids \X ExecRefs
      BY <2>1, CommitType
    <2>3. /\ consumed'[k.target] = NewConsumption(k)
          /\ \A i \in Ids \ {k.target} : consumed'[i] = consumed[i]
      BY <2>1, <2>2 DEF IInv, TypeOK
    <2>4. TypeOK'
      <3>1. spend' \in [Principals -> [Days -> Nat]]
        BY <2>1, AddSpendType
      <3>2. permits' \subseteq Ids \X ExecRefs
        BY <2>1, <2>2 DEF Permit, IInv, TypeOK
      <3> QED
        BY <2>1, <2>2, <3>1, <3>2, IdleType DEF IInv, TypeOK
    <2>5. CallOK(c)'
      BY <2>1, IdleOK DEF IInv, TypeOK
    <2>6. /\ \A e \in Calls : CallOK(e)'
          /\ \A i \in Ids : DecisionOK(i)'
          /\ OneSupersederPerApproval'
      BY <2>1, <2>3, <2>4, <2>5, ConsumptionStep DEF Idle
    <2>7. \A i \in Ids : ConsumptionOK(i)'
      <3>1. k.at < decisions[k.target].issuedAt + DecisionTtl
        BY <2>1 DEF IInv, CallOK, ConsumerOK
      <3> QED
        BY <2>1, <2>2, <2>3, <3>1 DEF IInv, ConsumptionOK, IsAllow
    <2>8. PermitsOK'
      BY <2>1, <2>2, <2>3, PermitStep
    <2>9. LimitOK'
      <3> SUFFICES ASSUME AtomicStore, NEW q \in Principals, NEW e \in Days
                   PROVE  spend'[q][e] <= DailyLimit
        BY DEF LimitOK, DailyLimitHeld
      <3>1. spend[q][e] <= DailyLimit
        BY DEF IInv, LimitOK, DailyLimitHeld
      <3>2. spend[p][d] + k.action.amount <= DailyLimit
        BY <1>2 DEF WithinDailyLimit
      <3>3. spend' = [spend EXCEPT ![p][d] = @ + k.action.amount]
        BY <2>1 DEF AddSpend
      <3> HIDE DEF p, d, k
      <3>4. CASE q = p /\ e = d
        BY <3>2, <3>3, <3>4 DEF IInv, TypeOK
      <3>5. CASE q # p \/ e # d
        BY <3>1, <3>3, <3>5 DEF IInv, TypeOK
      <3> QED
        BY <3>4, <3>5
    <2> QED
      BY <2>4, <2>6, <2>7, <2>8, <2>9 DEF IInv
  <1> QED
    BY <1>1, <1>2

LEMMA FindConsumptionStep ==
    ASSUME IInv, NEW c \in Calls, FindConsumption(c) PROVE IInv'
  <1> DEFINE k == call[c]
  <1>1. /\ k.pc = "commit" /\ consumed[k.target] # None
        /\ call' = [call EXCEPT ![c] = Idle]
        /\ (Permit(c) /\ consumed[k.target].ref = k.ref) \/ UNCHANGED permits
        /\ UNCHANGED <<clock, decisions, claims, consumed, spend>>
    BY DEF FindConsumption, Unconsumed, SameExecution, SpendAfter, Return
  <1>2. TypeOK'
    <2>1. <<k.target, k.ref>> \in Ids \X ExecRefs
      BY <1>1, CommitType
    <2>2. permits' \subseteq Ids \X ExecRefs
      BY <1>1, <2>1 DEF Permit, IInv, TypeOK
    <2> QED
      BY <1>1, <2>2, IdleType DEF IInv, TypeOK
  <1>3. CallOK(c)'
    BY <1>1, IdleOK DEF IInv, TypeOK
  <1>4. /\ \A e \in Calls : CallOK(e)'
        /\ \A i \in Ids : DecisionOK(i)'
        /\ OneSupersederPerApproval'
    BY <1>1, <1>2, <1>3, ConsumptionStep DEF Idle
  <1>5. PermitsOK'
    <2>1. CASE Permit(c) /\ consumed[k.target].ref = k.ref
      BY <1>1, <2>1, PermitStep
    <2>2. CASE UNCHANGED permits
      BY <1>1, <2>2 DEF IInv, PermitsOK
    <2> QED
      BY <1>1, <2>1, <2>2
  <1>6. (\A i \in Ids : ConsumptionOK(i)') /\ LimitOK'
    BY <1>1 DEF IInv, ConsumptionOK, IsAllow, LimitOK, DailyLimitHeld
  <1> QED
    BY <1>2, <1>4, <1>5, <1>6 DEF IInv

LEMMA ConsumeNonceStep ==
    ASSUME IInv, NEW c \in Calls, ConsumeNonce(c) PROVE IInv'
  <1> DEFINE k == call[c]
             m == [k EXCEPT !.pc = "record"]
  <1>1. /\ ~AtomicStore /\ k.pc = "commit" /\ consumed[k.target] = None
        /\ consumed' = [consumed EXCEPT ![k.target] = NewConsumption(k)]
        /\ call' = [call EXCEPT ![c] = m]
        /\ UNCHANGED <<clock, decisions, claims, spend, permits>>
        /\ k \in Call /\ CallOK(c)
    BY DEF ConsumeNonce, Unconsumed, IInv, TypeOK
  <1>2. /\ m \in Call /\ m.pc = "record" /\ m.action = k.action /\ m.target = k.target
        /\ m.ref = k.ref /\ m.at = k.at
    BY <1>1 DEF Call
  <1> HIDE DEF m
  <1>3. /\ k.target \in Ids /\ IsAllow(k.target)
        /\ NewConsumption(k) \in Consumption /\ NewConsumption(k) # None
        /\ NewConsumption(k).ref = k.ref /\ NewConsumption(k).at = k.at
    BY <1>1, CommitType
  <1>4. /\ consumed'[k.target] = NewConsumption(k)
        /\ \A i \in Ids \ {k.target} : consumed'[i] = consumed[i]
        /\ call'[c] = m
    BY <1>1, <1>3 DEF IInv, TypeOK
  <1>5. TypeOK'
    BY <1>1, <1>2, <1>3 DEF IInv, TypeOK
  <1>6. CallOK(c)'
    BY <1>1, <1>2, <1>3, <1>4
    DEF CallOK, EvaluatorOK, SoleResolver, DraftOK, ConsumerOK, Resolving, IsAllow
  <1>7. /\ \A e \in Calls : CallOK(e)'
        /\ \A i \in Ids : DecisionOK(i)'
        /\ OneSupersederPerApproval'
    BY <1>1, <1>2, <1>4, <1>5, <1>6, ConsumptionStep
  <1>8. \A i \in Ids : ConsumptionOK(i)'
    <2>1. k.at < decisions[k.target].issuedAt + DecisionTtl
      BY <1>1 DEF CallOK, ConsumerOK
    <2> QED
      BY <1>1, <1>3, <1>4, <2>1 DEF IInv, ConsumptionOK, IsAllow
  <1>9. PermitsOK'
    <2>1. \A x \in permits : x[1] \in Ids
      BY DEF IInv, TypeOK
    <2> QED
      BY <1>1, <1>4, <2>1 DEF IInv, PermitsOK
  <1>10. LimitOK'
    BY <1>1 DEF LimitOK
  <1> QED
    BY <1>5, <1>7, <1>8, <1>9, <1>10 DEF IInv

LEMMA RecordSpendStep ==
    ASSUME IInv, NEW c \in Calls, RecordSpend(c) PROVE IInv'
  <1> DEFINE k == call[c]
  <1>1. /\ k.pc = "record" /\ spend' = AddSpend(k) /\ Permit(c)
        /\ call' = [call EXCEPT ![c] = Idle]
        /\ UNCHANGED <<clock, decisions, claims, consumed>>
        /\ CallOK(c)
    BY DEF RecordSpend, SpendAfter, Return, IInv
  <1>2. TypeOK'
    <2>1. <<k.target, k.ref>> \in Ids \X ExecRefs
      BY <1>1, CommitType
    <2>2. permits' \subseteq Ids \X ExecRefs
      BY <1>1, <2>1 DEF Permit, IInv, TypeOK
    <2>3. spend' \in [Principals -> [Days -> Nat]]
      BY <1>1, AddSpendType
    <2> QED
      BY <1>1, <2>2, <2>3, IdleType DEF IInv, TypeOK
  <1>3. CallOK(c)'
    BY <1>1, IdleOK DEF IInv, TypeOK
  <1>4. /\ \A e \in Calls : CallOK(e)'
        /\ \A i \in Ids : DecisionOK(i)'
        /\ OneSupersederPerApproval'
    BY <1>1, <1>2, <1>3, ConsumptionStep DEF Idle
  <1>5. ~AtomicStore /\ consumed[k.target] # None /\ consumed[k.target].ref = k.ref
    BY <1>1 DEF CallOK, ConsumerOK
  <1>6. PermitsOK'
    BY <1>1, <1>5, PermitStep
  <1>7. (\A i \in Ids : ConsumptionOK(i)') /\ LimitOK'
    BY <1>1, <1>5 DEF IInv, ConsumptionOK, IsAllow, LimitOK
  <1> QED
    BY <1>2, <1>4, <1>6, <1>7 DEF IInv

-----------------------------------------------------------------------------
(* The invariant                                                           *)

LEMMA TickStep == ASSUME IInv, Tick PROVE IInv'
  <1>1. /\ clock' \in Times /\ \A t \in Times : t <= clock => t <= clock'
        /\ UNCHANGED <<decisions, claims, consumed, spend, call, permits>>
    BY ClockAssumption DEF Tick, IInv, TypeOK, Times
  <1>2. TypeOK'
    BY <1>1 DEF IInv, TypeOK
  <1>3. ASSUME NEW c \in Calls PROVE CallOK(c)'
    <2>1. call[c].at \in Times
      BY DEF IInv, TypeOK, Call
    <2>2. CallOK(c)
      BY DEF IInv
    <2> QED
      BY <1>1, <2>1, <2>2
      DEF CallOK, EvaluatorOK, SoleResolver, DraftOK, ConsumerOK, IsRequest, IsAllow, Resolving,
          Issued
  <1>4. ASSUME NEW i \in Ids PROVE DecisionOK(i)'
    <2>1. Issued(i) => decisions[i].issuedAt \in Times
      BY DEF Issued, IInv, TypeOK, Decision
    <2>2. DecisionOK(i)
      BY DEF IInv
    <2> QED
      BY <1>1, <2>1, <2>2 DEF DecisionOK, Issued, IsRequest
  <1>5. \A i \in Ids : ConsumptionOK(i)'
    BY <1>1 DEF IInv, ConsumptionOK, IsAllow
  <1>6. OneSupersederPerApproval' /\ PermitsOK' /\ LimitOK'
    BY <1>1 DEF IInv, OneSupersederPerApproval, Issued, PermitsOK, LimitOK, DailyLimitHeld
  <1> QED
    BY <1>2, <1>3, <1>4, <1>5, <1>6 DEF IInv

LEMMA StutterStep == ASSUME IInv, UNCHANGED vars PROVE IInv'
  <1>1. UNCHANGED <<clock, decisions, claims, consumed, spend, call, permits>>
    BY DEF vars
  <1>2. TypeOK'
    BY <1>1 DEF IInv, TypeOK
  <1>3. \A c \in Calls : CallOK(c)'
    BY <1>1
    DEF IInv, CallOK, EvaluatorOK, SoleResolver, DraftOK, ConsumerOK, IsRequest, IsAllow,
        Resolving, Issued
  <1>4. \A i \in Ids : DecisionOK(i)' /\ ConsumptionOK(i)'
    BY <1>1 DEF IInv, DecisionOK, ConsumptionOK, Issued, IsRequest, IsAllow
  <1>5. OneSupersederPerApproval' /\ PermitsOK' /\ LimitOK'
    BY <1>1 DEF IInv, OneSupersederPerApproval, Issued, PermitsOK, LimitOK, DailyLimitHeld
  <1> QED
    BY <1>2, <1>3, <1>4, <1>5 DEF IInv

LEMMA NextIInv == IInv /\ [Next]_vars => IInv'
  <1> SUFFICES ASSUME IInv, [Next]_vars PROVE IInv'
    OBVIOUS
  <1>1. CASE Tick
    BY <1>1, TickStep
  <1>2. ASSUME NEW c \in Calls, Step(c) PROVE IInv'
    <2>1. ASSUME NEW a \in Actions, EvaluateStart(c, a) \/ IssueBlock(c, a) PROVE IInv'
      BY <2>1, EvaluateStartStep
    <2>2. ASSUME NEW d \in Ids, NEW a \in Actions, NEW g \in BOOLEAN, ApproveStart(c, d, a, g)
          PROVE  IInv'
      BY <2>2, ApproveStartStep
    <2>3. ASSUME NEW d \in Ids, NEW a \in Actions, NEW r \in ExecRefs, ConsumeStart(c, d, a, r)
          PROVE  IInv'
      BY <2>3, ConsumeStartStep
    <2>4. CASE ReadSpend(c)
      BY <2>4, ReadSpendStep
    <2>5. ASSUME NEW i \in Ids, Save(c, i) PROVE IInv'
      BY <2>5, SaveStep
    <2>6. CASE ClaimApproval(c)
      BY <2>6, ClaimStep
    <2>7. CASE ConsumeAndRecordSpend(c)
      BY <2>7, ConsumeAndRecordSpendStep
    <2>8. CASE FindConsumption(c)
      BY <2>8, FindConsumptionStep
    <2>9. CASE ConsumeNonce(c)
      BY <2>9, ConsumeNonceStep
    <2>10. CASE RecordSpend(c)
      BY <2>10, RecordSpendStep
    <2>11. CASE Fail(c)
      BY <2>11, FailStep
    <2> QED
      BY <1>2, <2>1, <2>2, <2>3, <2>4, <2>5, <2>6, <2>7, <2>8, <2>9, <2>10, <2>11 DEF Step
  <1>3. CASE UNCHANGED vars
    BY <1>3, StutterStep
  <1> QED
    BY <1>1, <1>2, <1>3 DEF Next

(* Every reachable state of the provider satisfies the inductive invariant. *)
THEOREM Invariant == Spec => []IInv
  BY InitIInv, NextIInv, PTL DEF Spec

(* The stores and the calls in flight keep their types. *)
THEOREM TypeCorrect == Spec => []TypeOK
  <1>1. IInv => TypeOK
    BY DEF IInv
  <1> QED
    BY <1>1, Invariant, PTL

(* claimApproval and the save that follows it, with any number of racing   *)
(* and failing resolvers, leave one superseding decision per request.      *)
THEOREM RequestResolvedOnce == Spec => []OneSupersederPerApproval
  <1>1. IInv => OneSupersederPerApproval
    BY DEF IInv
  <1> QED
    BY <1>1, Invariant, PTL

(* Nothing is consumed that the policy did not allow in time and, above    *)
(* the threshold, a human did not grant for the same action.               *)
THEOREM ConsumedOnlyIfAuthorised == Spec => []ConsumptionIsAuthorised
  <1>1. IInv => ConsumptionIsAuthorised
    <2> SUFFICES ASSUME IInv, NEW i \in Ids, consumed[i] # None
                 PROVE  /\ Issued(i) /\ decisions[i].verdict = "ALLOW"
                        /\ consumed[i].at < decisions[i].issuedAt + DecisionTtl
                        /\ decisions[i].action.amount > HumanAbove =>
                              /\ decisions[i].granted /\ decisions[i].supersedes # None
                              /\ LET request == decisions[decisions[i].supersedes]
                                 IN  /\ request # None
                                     /\ request.verdict = "REQUIRE_APPROVAL"
                                     /\ request.action = decisions[i].action
                                     /\ request.issuedAt <= decisions[i].issuedAt
      BY DEF ConsumptionIsAuthorised
    <2>1. ConsumptionOK(i) /\ DecisionOK(i)
      BY DEF IInv
    <2>2. /\ Issued(i) /\ decisions[i].verdict = "ALLOW"
          /\ consumed[i].at < decisions[i].issuedAt + DecisionTtl
      BY <2>1 DEF ConsumptionOK, IsAllow, Issued
    <2> QED
      BY <2>1, <2>2 DEF DecisionOK, IsRequest
  <1> QED
    BY <1>1, Invariant, PTL

(* Whoever is told "consumed" or "idempotent" holds the one execution the  *)
(* decision, and the request behind it, was consumed for.                  *)
THEOREM PermittedOnce == Spec => []SingleUse
  <1>1. IInv => SingleUse
    <2> SUFFICES ASSUME IInv, NEW x \in permits, NEW y \in permits, x # y
                 PROVE  /\ x[1] # y[1]
                        /\ decisions[x[1]].supersedes # None =>
                              decisions[x[1]].supersedes # decisions[y[1]].supersedes
      BY DEF SingleUse
    <2>1. /\ x \in Ids \X ExecRefs /\ y \in Ids \X ExecRefs
          /\ consumed[x[1]] # None /\ consumed[x[1]].ref = x[2]
          /\ consumed[y[1]] # None /\ consumed[y[1]].ref = y[2]
      BY DEF IInv, TypeOK, PermitsOK
    <2>2. x[1] # y[1]
      BY <2>1
    <2>3. Issued(x[1]) /\ Issued(y[1])
      BY <2>1 DEF IInv, ConsumptionOK, IsAllow, Issued
    <2> QED
      BY <2>1, <2>2, <2>3 DEF IInv, OneSupersederPerApproval
  <1> QED
    BY <1>1, Invariant, PTL

(* With a state store the daily limit holds whatever is evaluated and      *)
(* consumed concurrently: the limit is checked in the transaction that     *)
(* adds the spend, not only when the decision is evaluated.                *)
THEOREM LimitNeverOverrun == ASSUME AtomicStore PROVE Spec => []DailyLimitHeld
  <1>1. IInv => DailyLimitHeld
    BY DEF IInv, LimitOK
  <1> QED
    BY <1>1, Invariant, PTL

-----------------------------------------------------------------------------
(* Over the atomic store the provider implements PaymentAuthority          *)

Status == [i \in Ids |-> StatusOf(i)]
UsedBy == [i \in Ids |-> IF consumed[i] = None THEN None ELSE consumed[i].ref]

(* What callers and clocks do is invisible in the store. *)
LEMMA StoreStutter ==
    ASSUME UNCHANGED <<decisions, consumed, spend>>
    PROVE  UNCHANGED Authority!vars
  <1>1. \A i \in Ids : StatusOf(i)' = StatusOf(i)
    BY DEF StatusOf, Issued
  <1>2. UNCHANGED <<Status, UsedBy, spend>>
    BY <1>1 DEF Status, UsedBy
  <1> QED
    BY <1>2 DEF Status, UsedBy, Authority!vars

(* A saved decision is an Issue or, with a request behind it, a Resolve. *)
LEMMA SaveRefines ==
    ASSUME IInv, NEW c \in Calls, NEW n \in Ids, Save(c, n)
    PROVE  Authority!Next
  <1> DEFINE k == call[c]
             s == IF k.verdict = "BLOCK" THEN "blocked"
                  ELSE IF k.verdict = "ALLOW" THEN "authorised" ELSE "pending"
  <1>1. /\ k.pc = "save" /\ CallOK(c) /\ decisions[n] = None
        /\ UNCHANGED <<consumed, spend>>
        /\ decisions' = [decisions EXCEPT ![n] = decisions'[n]]
        /\ decisions'[n].verdict = k.verdict /\ decisions'[n].supersedes = k.target
    BY DEF Save, IInv, TypeOK
  <1>2. decisions'[n] # None
    BY <1>1, DraftType, NoneAssumption DEF Save, IInv, TypeOK
  <1>3. \A i \in Ids \ {n} : decisions'[i] = decisions[i]
    BY <1>1 DEF IInv, TypeOK
  <1>4. k.verdict \in Verdicts /\ (k.target # None => k.verdict # "REQUIRE_APPROVAL")
    BY <1>1 DEF CallOK, DraftOK
  <1>5. k.target # None =>
          /\ k.target \in Ids /\ k.target # n
          /\ decisions[k.target].verdict = "REQUIRE_APPROVAL" /\ decisions[k.target] # None
          /\ \A i \in Ids : Issued(i) => decisions[i].supersedes # k.target
    BY <1>1 DEF CallOK, EvaluatorOK, SoleResolver, Resolving, IsRequest
  <1>6. \A i \in Ids : Issued(i) => decisions[i].supersedes # n
    BY <1>1, ActionsAssumption DEF IInv, DecisionOK, IsRequest
  <1>7. consumed[n] = None
    BY <1>1 DEF IInv, ConsumptionOK, IsAllow
  <1>8. StatusOf(n) = "unissued" /\ StatusOf(n)' = s
    BY <1>1, <1>2, <1>3, <1>4, <1>5, <1>6, <1>7, ActionsAssumption DEF StatusOf, Issued, Verdicts
  <1>9. \A i \in Ids : i # n /\ i # k.target => StatusOf(i)' = StatusOf(i)
    BY <1>1, <1>2, <1>3 DEF StatusOf, Issued
  <1>10. \A t \in Ids : t = k.target =>
           t # n /\ StatusOf(t) = "pending" /\ StatusOf(t)' = "resolved"
    BY <1>1, <1>2, <1>3, <1>5, ActionsAssumption DEF StatusOf, Issued
  <1>11. UNCHANGED <<UsedBy, spend>>
    BY <1>1 DEF UsedBy
  <1>12. CASE k.target = None
    <2>1. Status' = [Status EXCEPT ![n] = s] /\ Status[n] = "unissued"
      BY <1>8, <1>9, <1>12, ActionsAssumption DEF Status
    <2>2. s \in {"authorised", "pending", "blocked"}
      OBVIOUS
    <2>3. Authority!Issue(n, s)
      BY <2>1, <2>2, <1>11 DEF Authority!Issue, Status, UsedBy
    <2> QED
      BY <2>2, <2>3 DEF Authority!Next
  <1>13. CASE k.target # None
    <2> PICK t \in Ids : t = k.target
      BY <1>5, <1>13
    <2>1. /\ Status' = [Status EXCEPT ![t] = "resolved", ![n] = s]
          /\ Status[n] = "unissued" /\ Status[t] = "pending"
      BY <1>8, <1>9, <1>10 DEF Status
    <2>2. s \in {"authorised", "blocked"}
      BY <1>4, <1>13 DEF Verdicts
    <2>3. Authority!Resolve(t, n, s)
      BY <2>1, <2>2, <1>11 DEF Authority!Resolve, Status, UsedBy
    <2> QED
      BY <2>2, <2>3 DEF Authority!Next
  <1> QED
    BY <1>12, <1>13

(* A committed consumption is a Use with its principal, day and amount. *)
LEMMA ConsumeRefines ==
    ASSUME IInv, NEW c \in Calls, ConsumeAndRecordSpend(c), WithinDailyLimit(call[c])
    PROVE  Authority!Next
  <1> DEFINE k == call[c]
  <1>1. PICK n \in Ids, r \in ExecRefs, p \in Principals, d \in Days, m \in Nat :
          n = k.target /\ r = k.ref /\ p = k.action.principal /\ d = DayKey[k.at]
            /\ m = k.action.amount
    BY CommitType DEF ConsumeAndRecordSpend, IInv, CallOK, ConsumerOK
  <1>2. /\ consumed[n] = None /\ UNCHANGED decisions
        /\ consumed' = [consumed EXCEPT ![n] = NewConsumption(k)]
        /\ spend' = [spend EXCEPT ![p][d] = @ + m]
        /\ spend[p][d] + m <= DailyLimit
    BY <1>1
    DEF ConsumeAndRecordSpend, Unconsumed, SpendAfter, AddSpend, WithinDailyLimit
  <1>3. IsAllow(n) /\ NewConsumption(k) # None /\ NewConsumption(k).ref = r
    BY <1>1, CommitType DEF ConsumeAndRecordSpend
  <1>4. consumed'[n] = NewConsumption(k) /\ \A i \in Ids \ {n} : consumed'[i] = consumed[i]
    BY <1>2 DEF IInv, TypeOK
  <1>5. m \in 0 .. DailyLimit
    <2>1. spend[p][d] \in Nat
      BY DEF IInv, TypeOK
    <2> QED
      BY <1>2, <2>1, PolicyAssumption
  <1>6. StatusOf(n) = "authorised" /\ StatusOf(n)' = "used"
    BY <1>2, <1>3, <1>4 DEF StatusOf, IsAllow
  <1>7. \A i \in Ids \ {n} : StatusOf(i)' = StatusOf(i)
    BY <1>2, <1>4 DEF StatusOf, Issued
  <1>8. Status' = [Status EXCEPT ![n] = "used"] /\ Status[n] = "authorised"
    BY <1>6, <1>7 DEF Status
  <1>9. UsedBy' = [UsedBy EXCEPT ![n] = r]
    BY <1>3, <1>4 DEF UsedBy
  <1>10. Authority!Use(n, r, p, d, m)
    BY <1>2, <1>8, <1>9 DEF Authority!Use, Status, UsedBy
  <1> QED
    BY <1>5, <1>10 DEF Authority!Next

LEMMA StepRefines ==
    ASSUME AtomicStore, IInv, [Next]_vars
    PROVE  [Authority!Next]_(Authority!vars)
  <1>1. CASE UNCHANGED vars \/ Tick
    BY <1>1, StoreStutter DEF vars, Tick
  <1>2. ASSUME NEW c \in Calls, Step(c) PROVE [Authority!Next]_(Authority!vars)
    <2>1. ASSUME NEW n \in Ids, Save(c, n) PROVE Authority!Next
      BY <2>1, SaveRefines
    <2>2. CASE ConsumeAndRecordSpend(c)
      <3>1. CASE WithinDailyLimit(call[c])
        BY <2>2, <3>1, ConsumeRefines
      <3>2. CASE ~WithinDailyLimit(call[c])
        BY <2>2, <3>2, StoreStutter DEF ConsumeAndRecordSpend
      <3> QED
        BY <3>1, <3>2
    <2>3. CASE FindConsumption(c)
      BY <2>3, StoreStutter DEF FindConsumption, SpendAfter
    <2>4. ~ConsumeNonce(c) /\ ~RecordSpend(c)
      BY DEF ConsumeNonce, RecordSpend, IInv, CallOK, ConsumerOK
    <2>5. CASE UNCHANGED <<decisions, consumed, spend>>
      BY <2>5, StoreStutter
    <2>6. \/ \E n \in Ids : Save(c, n)
          \/ ConsumeAndRecordSpend(c) \/ FindConsumption(c)
          \/ UNCHANGED <<decisions, consumed, spend>>
      BY <1>2, <2>4
      DEF Step, EvaluateStart, IssueBlock, ApproveStart, ConsumeStart, ReadSpend, ClaimApproval, Fail
    <2> QED
      BY <2>1, <2>2, <2>3, <2>5, <2>6
  <1> QED
    BY <1>1, <1>2 DEF Next

LEMMA InitRefines == Init => Authority!Init
  <1> SUFFICES ASSUME Init PROVE Authority!Init
    OBVIOUS
  <1>1. \A i \in Ids : StatusOf(i) = "unissued" /\ consumed[i] = None
    BY DEF Init, StatusOf
  <1> QED
    BY <1>1 DEF Init, Authority!Init

(* Over the atomic store every behaviour of the provider, with its calls   *)
(* in flight, races, retries and failures, is one of PaymentAuthority:     *)
(* save and consumeAndRecordSpend are its only visible steps.              *)
THEOREM ProviderImplementsAuthority == ASSUME AtomicStore PROVE Spec => ImplementsAuthority
  <1>1. IInv /\ [Next]_vars => [Authority!Next]_(Authority!vars)
    BY StepRefines
  <1> QED
    BY <1>1, InitRefines, Invariant, PTL DEF Spec, ImplementsAuthority, Authority!Spec
=============================================================================
