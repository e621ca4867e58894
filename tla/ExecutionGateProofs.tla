------------------------- MODULE ExecutionGateProofs ------------------------
(***************************************************************************)
(* Theorems about ExecutionGate, for every gate and any number of calls,   *)
(* requests, decisions and failures: its type correctness, its safety      *)
(* invariants and its refinement of SingleExecution, from one inductive    *)
(* invariant.                                                              *)
(***************************************************************************)
EXTENDS ExecutionGate, FiniteSetTheorems, TLAPS

(* The awaits past the claim, past the consumption, past the last check    *)
(* before it, and past the decision.                                       *)
Claimed == {"delegate", "sign", "broadcast", "receipt", "complete"}
Consumed == {"claim"} \cup Claimed
Checked == {"consume"} \cup Consumed
Decided == {"settle", "recheck"} \cup Checked
BeforeRun == {"delegate", "sign", "broadcast"}
AfterRun == {"receipt", "complete"}

(* What a call has established by the await it is at.                      *)
DecisionOK(c) ==
    /\ call[c].pc # "idle" => call[c].request \in Requests
    /\ call[c].pc \in Decided => call[c].decision \in Decisions /\ action[call[c].decision] \in Requests
    /\ call[c].pc \in Checked \/ (kind # "evm" /\ call[c].pc \in Decided)
           => action[call[c].decision] = call[c].request
    /\ kind = "a2a" /\ call[c].pc \in Decided \ {"settle"} => payment[Item(call[c].request)] = "settled"
    /\ call[c].pc \in Consumed =>
           consumed[call[c].decision] = Reference(call[c].request, call[c].decision)
    /\ call[c].pc = "broadcast" => call[c].signed = call[c].request

ClaimOK(c) ==
    call[c].pc \in Claimed =>
        /\ store[Key(call[c].request)] # None
        /\ store[Key(call[c].request)].state = "in_progress"
        /\ store[Key(call[c].request)].ref = Reference(call[c].request, call[c].decision)

EffectOK(c) ==
    /\ call[c].pc \in BeforeRun => \A x \in ran : x.key # Key(call[c].request)
    /\ call[c].pc \in AfterRun =>
           \E x \in ran : x.request = call[c].request /\ x.decision = call[c].decision

(* Two calls past the claim are past the claims of different keys.         *)
SoleClaimer ==
    \A b, c \in Callers :
        b # c /\ call[b].pc \in Claimed /\ call[c].pc \in Claimed
            => Key(call[b].request) # Key(call[c].request)

(* A side effect was driven with authority, under the key of its request,  *)
(* which is claimed for good.                                              *)
RanOK ==
    /\ IsFiniteSet(ran)
    /\ \A x \in ran :
        /\ x.request \in Requests /\ x.key = Key(x.request) /\ store[x.key] # None
        /\ action[x.decision] = x.request
        /\ consumed[x.decision] = Reference(x.request, x.decision)

(* What is stored as completed took place.                                 *)
StoreOK ==
    \A k \in Keys : store[k] # None /\ store[k].state = "completed" =>
        \E x \in ran : x.request = store[k].ref[1] /\ x.decision = store[k].decision

IInv ==
    /\ TypeOK
    /\ \A c \in Callers : DecisionOK(c)
    /\ \A c \in Callers : ClaimOK(c)
    /\ \A c \in Callers : EffectOK(c)
    /\ SoleClaimer
    /\ RanOK
    /\ StoreOK
    /\ RunsOnce
    /\ PaidBeforeRun
    /\ AnswersMatchRuns
-----------------------------------------------------------------------------
(* What every step keeps                                                   *)

(* Bindings, consumptions and final payments are never taken back.         *)
Grows ==
    /\ kind' = kind
    /\ \A d \in Decisions :
        /\ action[d] # None => action'[d] = action[d]
        /\ consumed[d] # None => consumed'[d] = consumed[d]
    /\ \A i \in Items : payment[i] = "settled" => payment'[i] = "settled"

LEMMA SameKind ==
    ASSUME kind' = kind
    PROVE  /\ \A q : Key(q)' = Key(q)
           /\ \A q, d : Reference(q, d)' = Reference(q, d)
  BY DEF Key, Reference

LEMMA KeyType == \A q \in Requests : Key(q) \in Keys
  BY DEF Key, Keys, Requests, Item

LEMMA ItemType == \A q \in Requests : Item(q) \in Items
  BY DEF Requests, Item

LEMMA ReferenceType ==
    \A q \in Requests, d \in Decisions :
        /\ Reference(q, d) \in References /\ Reference(q, d) # None
        /\ Reference(q, d)[1] = q
  BY NoneAssumption DEF Reference, References

LEMMA IdleInCall == Idle \in Call
  BY DEF Idle, Call, Pcs

LEMMA IdleOK ==
    ASSUME NEW c \in Callers, call'[c] = Idle
    PROVE  DecisionOK(c)' /\ ClaimOK(c)' /\ EffectOK(c)'
  BY DEF DecisionOK, ClaimOK, EffectOK, Idle, Decided, Checked, Consumed, Claimed, BeforeRun, AfterRun

(* What a call that does not move knows stays true.                        *)
LEMMA DecisionKept ==
    ASSUME NEW b \in Callers, DecisionOK(b), call'[b] = call[b], Grows
    PROVE  DecisionOK(b)'
  <1>1. /\ call'[b].pc = call[b].pc /\ call'[b].request = call[b].request
        /\ call'[b].decision = call[b].decision /\ call'[b].signed = call[b].signed
    OBVIOUS
  <1>2. call[b].pc \in Decided => action'[call[b].decision] = action[call[b].decision]
    BY NoneAssumption DEF DecisionOK, Grows
  <1>3. call[b].pc \in Checked => call[b].pc \in Decided
    BY DEF Checked, Decided
  <1>4. call[b].pc \in Consumed =>
            consumed'[call[b].decision] = Reference(call[b].request, call[b].decision)
    BY ReferenceType DEF DecisionOK, Grows, Checked, Decided
  <1>5. kind = "a2a" /\ call[b].pc \in Decided \ {"settle"} => payment'[Item(call[b].request)] = "settled"
    BY ItemType DEF DecisionOK, Grows, Decided, Checked, Consumed, Claimed
  <1> QED
    BY <1>1, <1>2, <1>3, <1>4, <1>5, SameKind DEF DecisionOK, Grows

LEMMA ClaimKept ==
    ASSUME NEW b \in Callers, ClaimOK(b), call'[b] = call[b], kind' = kind,
           call[b].pc \in Claimed =>
               store'[Key(call[b].request)] = store[Key(call[b].request)]
    PROVE  ClaimOK(b)'
  BY SameKind DEF ClaimOK

LEMMA EffectKept ==
    ASSUME NEW b \in Callers, EffectOK(b), call'[b] = call[b], kind' = kind,
           ran \subseteq ran',
           call[b].pc \in BeforeRun => \A x \in ran' \ ran : x.key # Key(call[b].request)
    PROVE  EffectOK(b)'
  <1>1. Key(call[b].request)' = Key(call[b].request)
    BY SameKind
  <1> QED
    BY <1>1 DEF EffectOK

LEMMA RanKept ==
    ASSUME TypeOK, RanOK, ran' = ran, Grows, \A k \in Keys : store[k] # None => store'[k] # None
    PROVE  RanOK'
  <1> SUFFICES ASSUME NEW x \in ran
               PROVE  /\ x.request \in Requests /\ x.key = Key(x.request)' /\ store'[x.key] # None
                      /\ action'[x.decision] = x.request
                      /\ consumed'[x.decision] = Reference(x.request, x.decision)'
    BY DEF RanOK
  <1>1. /\ x.request \in Requests /\ x.key = Key(x.request) /\ store[x.key] # None
        /\ action[x.decision] = x.request /\ x.decision \in Decisions
        /\ consumed[x.decision] = Reference(x.request, x.decision)
    BY DEF RanOK, TypeOK, Run
  <1>2. x.key \in Keys /\ Reference(x.request, x.decision) # None /\ x.request # None
    BY <1>1, KeyType, ReferenceType, NoneAssumption
  <1>3. /\ Key(x.request)' = Key(x.request)
        /\ Reference(x.request, x.decision)' = Reference(x.request, x.decision)
    BY SameKind DEF Grows
  <1> QED
    BY <1>1, <1>2, <1>3 DEF Grows

LEMMA PaidKept ==
    ASSUME TypeOK, RanOK, PaidBeforeRun, ran' = ran, Grows
    PROVE  PaidBeforeRun'
  BY ItemType DEF PaidBeforeRun, Grows, RanOK

(* A step that leaves the store and the history of effects alone.          *)
LEMMA CallStep ==
    ASSUME IInv, TypeOK', NEW c \in Callers, NEW x \in Call,
           call' = [call EXCEPT ![c] = x],
           DecisionOK(c)', ClaimOK(c)', EffectOK(c)',
           x.pc \in Claimed => call[c].pc \in Claimed /\ x.request = call[c].request,
           Grows, UNCHANGED <<store, ran>>, AnswersMatchRuns'
    PROVE  IInv'
  <1>1. \A b \in Callers \ {c} : call'[b] = call[b]
    BY DEF IInv, TypeOK
  <1>2. call'[c] = x
    BY DEF IInv, TypeOK
  <1>3. \A b \in Callers : DecisionOK(b)'
    BY <1>1, DecisionKept DEF IInv
  <1>4. \A b \in Callers : ClaimOK(b)'
    BY <1>1, ClaimKept DEF IInv, Grows
  <1>5. \A b \in Callers : EffectOK(b)'
    BY <1>1, EffectKept DEF IInv, Grows
  <1>6. SoleClaimer'
    <2>1. \A q : Key(q)' = Key(q)
      BY SameKind DEF Grows
    <2>2. \A b \in Callers : call'[b].pc \in Claimed =>
              call[b].pc \in Claimed /\ call'[b].request = call[b].request
      BY <1>1, <1>2
    <2> SUFFICES ASSUME NEW a \in Callers, NEW b \in Callers, a # b,
                        call'[a].pc \in Claimed, call'[b].pc \in Claimed
                 PROVE  Key(call[a].request) # Key(call[b].request)
      BY <2>1, <2>2 DEF SoleClaimer
    <2> QED
      BY <2>2 DEF IInv, SoleClaimer
  <1>7. RanOK' /\ PaidBeforeRun'
    BY RanKept, PaidKept DEF IInv
  <1>8. StoreOK' /\ RunsOnce'
    BY DEF IInv, StoreOK, RunsOnce
  <1> QED
    BY <1>3, <1>4, <1>5, <1>6, <1>7, <1>8 DEF IInv

(* A call that ends without an answer.                                     *)
LEMMA ReturnStep ==
    ASSUME IInv, TypeOK', NEW c \in Callers, Return(c), Grows, UNCHANGED <<store, ran, told>>
    PROVE  IInv'
  <1>1. call'[c] = Idle
    BY DEF Return, IInv, TypeOK
  <1>2. DecisionOK(c)' /\ ClaimOK(c)' /\ EffectOK(c)'
    BY <1>1, IdleOK
  <1>3. Idle.pc \notin Claimed
    BY DEF Idle, Claimed
  <1>4. AnswersMatchRuns'
    BY DEF IInv, AnswersMatchRuns
  <1> QED
    BY <1>2, <1>3, <1>4, IdleInCall, CallStep DEF Return

(* A call that ends with an answer that names a side effect or none.       *)
LEMMA AnswerStep ==
    ASSUME IInv, TypeOK', NEW c \in Callers, NEW outcome, NEW d, Answer(c, outcome, d),
           outcome \in {"completed", "replayed"} =>
               \E x \in ran : x.request = call[c].request /\ x.decision = d,
           Grows, UNCHANGED <<store, ran>>
    PROVE  IInv'
  <1>1. call'[c] = Idle
    BY DEF Answer, Return, IInv, TypeOK
  <1>2. DecisionOK(c)' /\ ClaimOK(c)' /\ EffectOK(c)'
    BY <1>1, IdleOK
  <1>3. Idle.pc \notin Claimed
    BY DEF Idle, Claimed
  <1>4. AnswersMatchRuns'
    BY DEF IInv, AnswersMatchRuns, Answer
  <1> QED
    BY <1>2, <1>3, <1>4, IdleInCall, CallStep DEF Answer, Return
-----------------------------------------------------------------------------
(* Up to the decision                                                      *)

LEMMA BeginKeeps ==
    ASSUME IInv, NEW c \in Callers, NEW q \in Requests, Begin(c, q)
    PROVE  IInv'
  <1> DEFINE x == [Idle EXCEPT !.pc = IF kind = "ap2" THEN "verify" ELSE "evaluate",
                               !.request = q, !.after = Finished(q)]
  <1>1. x \in Call
    BY DEF Begin, Idle, Call, Pcs, Finished
  <1>2. call' = [call EXCEPT ![c] = x] /\ call'[c] = x
    BY DEF Begin, IInv, TypeOK
  <1>3. x.pc \in {"verify", "evaluate"} /\ x.request = q
    BY DEF Idle
  <1>4. UNCHANGED <<kind, action, consumed, store, failures, expired, lapsed, payment, ran, told>>
    BY DEF Begin, external, history
  <1> HIDE DEF x
  <1>5. TypeOK'
    BY <1>1, <1>2, <1>4 DEF IInv, TypeOK
  <1>6. DecisionOK(c)' /\ ClaimOK(c)' /\ EffectOK(c)' /\ x.pc \notin Claimed
    BY <1>2, <1>3 DEF DecisionOK, ClaimOK, EffectOK, Decided, Checked, Consumed, Claimed,
                      BeforeRun, AfterRun
  <1>7. Grows /\ AnswersMatchRuns'
    BY <1>4 DEF Grows, IInv, AnswersMatchRuns
  <1> QED
    BY <1>1, <1>2, <1>4, <1>5, <1>6, <1>7, CallStep

LEMMA SignAndBroadcastKeeps ==
    ASSUME IInv, NEW c \in Callers, NEW q \in Requests, NEW d \in Decisions, SignAndBroadcast(c, q, d)
    PROVE  IInv'
  <1> DEFINE x == [Idle EXCEPT !.pc = "recheck", !.request = q, !.decision = d, !.after = Finished(q)]
  <1>1. x \in Call
    BY DEF Idle, Call, Pcs, Finished
  <1>2. call' = [call EXCEPT ![c] = x] /\ call'[c] = x
    BY DEF SignAndBroadcast, IInv, TypeOK
  <1>3. x.pc = "recheck" /\ x.request = q /\ x.decision = d
    BY DEF Idle
  <1>4. UNCHANGED <<kind, action, consumed, store, failures, expired, lapsed, payment, ran, told>>
    BY DEF SignAndBroadcast, external, history
  <1> HIDE DEF x
  <1>5. TypeOK'
    BY <1>1, <1>2, <1>4 DEF IInv, TypeOK
  <1>6. kind = "evm" /\ action[d] \in Requests
    BY DEF SignAndBroadcast, IInv, TypeOK
  <1>7. DecisionOK(c)'
    BY <1>2, <1>3, <1>4, <1>6 DEF DecisionOK, Decided, Checked, Consumed, Claimed
  <1>8. ClaimOK(c)' /\ EffectOK(c)' /\ x.pc \notin Claimed
    BY <1>2, <1>3 DEF ClaimOK, EffectOK, Claimed, BeforeRun, AfterRun
  <1>9. Grows /\ AnswersMatchRuns'
    BY <1>4 DEF Grows, IInv, AnswersMatchRuns
  <1> QED
    BY <1>1, <1>2, <1>4, <1>5, <1>7, <1>8, <1>9, CallStep

(* A call that goes on to an await before its claim.                       *)
LEMMA GotoStep ==
    ASSUME IInv, TypeOK', NEW c \in Callers, NEW pc \in Pcs, Goto(c, pc), pc \notin Claimed,
           DecisionOK(c)', Grows, UNCHANGED <<store, ran, told>>
    PROVE  IInv'
  <1> DEFINE x == [call[c] EXCEPT !.pc = pc]
  <1>1. x \in Call /\ x.pc = pc
    BY DEF IInv, TypeOK, Call
  <1>2. call' = [call EXCEPT ![c] = x] /\ call'[c] = x
    BY DEF Goto, IInv, TypeOK
  <1> HIDE DEF x
  <1>3. ClaimOK(c)' /\ EffectOK(c)'
    BY <1>1, <1>2 DEF ClaimOK, EffectOK, Claimed, BeforeRun, AfterRun
  <1>4. AnswersMatchRuns'
    BY DEF IInv, AnswersMatchRuns
  <1> QED
    BY <1>1, <1>2, <1>3, <1>4, CallStep

LEMMA GotoFields ==
    ASSUME TypeOK, NEW c \in Callers, NEW pc \in Pcs, Goto(c, pc)
    PROVE  /\ call'[c] \in Call /\ call'[c].pc = pc /\ call'[c].request = call[c].request
           /\ call'[c].decision = call[c].decision /\ call'[c].signed = call[c].signed
           /\ call' \in [Callers -> Call]
  BY DEF TypeOK, Goto, Call

LEMMA ReturnType == ASSUME TypeOK, NEW c \in Callers, Return(c) PROVE call' \in [Callers -> Call]
  BY IdleInCall DEF TypeOK, Return

LEMMA VerifyKeeps == ASSUME IInv, NEW c \in Callers, VerifyMandates(c) PROVE IInv'
  <1>1. UNCHANGED <<kind, action, consumed, store, failures, expired, lapsed, payment, ran, told>>
    BY DEF VerifyMandates, external, history
  <1>2. Grows
    BY <1>1 DEF Grows
  <1>3. CASE Return(c)
    <2>1. TypeOK'
      BY <1>1, <1>3, ReturnType DEF IInv, TypeOK
    <2> QED
      BY <1>1, <1>2, <1>3, <2>1, ReturnStep
  <1>4. CASE Goto(c, "evaluate")
    <2>1. "evaluate" \in Pcs \ Decided /\ "evaluate" \notin Claimed
      BY DEF Pcs, Decided, Checked, Consumed, Claimed
    <2>2. call'[c].pc = "evaluate" /\ call'[c].request \in Requests /\ call' \in [Callers -> Call]
      BY <1>4, <2>1, GotoFields DEF IInv, DecisionOK, VerifyMandates, At
    <2>3. TypeOK'
      BY <1>1, <2>2 DEF IInv, TypeOK
    <2>4. DecisionOK(c)'
      BY <2>2 DEF DecisionOK, Decided, Checked, Consumed, Claimed
    <2> QED
      BY <1>1, <1>2, <1>4, <2>1, <2>3, <2>4, GotoStep
  <1> QED
    BY <1>3, <1>4 DEF VerifyMandates

LEMMA EvaluateKeeps == ASSUME IInv, NEW c \in Callers, Evaluate(c) PROVE IInv'
  <1>1. /\ UNCHANGED <<kind, consumed, store, failures, expired, lapsed, payment, ran>>
        /\ call[c].pc = "evaluate" /\ call[c].request \in Requests /\ call[c] \in Call
    BY DEF Evaluate, external, At, IInv, TypeOK, DecisionOK
  <1>2. ASSUME NEW d \in Decisions, Authorise(c, d), UNCHANGED told
        PROVE  IInv'
    <2> DEFINE q == call[c].request
               x == [call[c] EXCEPT !.decision = d, !.pc = IF kind = "a2a" THEN "settle" ELSE "recheck"]
    <2>1. x \in Call
      BY <1>1 DEF Call, Pcs
    <2>2. /\ x.pc = (IF kind = "a2a" THEN "settle" ELSE "recheck")
          /\ x.request = q /\ x.decision = d
      BY <1>1 DEF Call
    <2>3. call' = [call EXCEPT ![c] = x] /\ call'[c] = x
      BY <1>2 DEF Authorise, IInv, TypeOK
    <2>4. action'[d] = q /\ action' \in [Decisions -> Requests \cup {None}]
      BY <1>1, <1>2 DEF Authorise, IInv, TypeOK
    <2>5. Grows
      BY <1>1, <1>2 DEF Authorise, Grows, IInv, TypeOK
    <2> HIDE DEF x
    <2>6. TypeOK'
      BY <1>1, <1>2, <2>1, <2>3, <2>4 DEF IInv, TypeOK
    <2>7. DecisionOK(c)'
      BY <1>1, <2>2, <2>3, <2>4 DEF DecisionOK, Decided, Checked, Consumed, Claimed
    <2>8. ClaimOK(c)' /\ EffectOK(c)' /\ x.pc \notin Claimed
      BY <2>2, <2>3 DEF ClaimOK, EffectOK, Claimed, BeforeRun, AfterRun
    <2>9. AnswersMatchRuns'
      BY <1>1, <1>2 DEF IInv, AnswersMatchRuns
    <2> QED
      BY <1>1, <2>1, <2>3, <2>5, <2>6, <2>7, <2>8, <2>9, CallStep
  <1>3. CASE Answer(c, "refused", None) /\ UNCHANGED action
    <2>1. Grows
      BY <1>1, <1>3 DEF Grows
    <2>2. call' \in [Callers -> Call]
      BY <1>3, ReturnType DEF IInv, Answer
    <2>3. told' \subseteq Answers
      BY <1>1, <1>3 DEF Answer, Answers, IInv, TypeOK, Call
    <2>4. TypeOK'
      BY <1>1, <1>3, <2>2, <2>3 DEF IInv, TypeOK
    <2> QED
      BY <1>1, <1>3, <2>1, <2>4, AnswerStep
  <1> QED
    BY <1>2, <1>3 DEF Evaluate

LEMMA SettleKeeps == ASSUME IInv, NEW c \in Callers, Settle(c) PROVE IInv'
  <1> DEFINE q == call[c].request
             i == Item(q)
  <1>1. /\ UNCHANGED <<kind, action, consumed, store, failures, expired, lapsed, ran, told>>
        /\ call[c].pc = "settle" /\ q \in Requests /\ i \in Items
        /\ call[c] \in Call /\ DecisionOK(c)
    BY ItemType DEF Settle, history, At, IInv, TypeOK, DecisionOK
  <1>2. PICK p \in IF payment[i] = "none" THEN {"submitted", "settled"} ELSE {payment[i]} :
            payment' = [payment EXCEPT ![i] = p]
    BY DEF Settle
  <1>3. payment' \in [Items -> {"none", "submitted", "settled", "failed"}]
    BY <1>1, <1>2 DEF IInv, TypeOK
  <1>4. \A r \in Items : payment[r] = "settled" => payment'[r] = "settled"
    BY <1>1, <1>2 DEF IInv, TypeOK
  <1>5. Grows
    BY <1>1, <1>4 DEF Grows
  <1>6. CASE Return(c)
    <2>1. TypeOK'
      BY <1>1, <1>3, <1>6, ReturnType DEF IInv, TypeOK
    <2> QED
      BY <1>1, <1>5, <1>6, <2>1, ReturnStep
  <1>7. CASE Goto(c, "recheck") /\ payment'[i] = "settled"
    <2>1. "recheck" \in Pcs /\ "recheck" \notin Claimed
      BY DEF Pcs, Claimed
    <2>2. /\ call'[c].pc = "recheck" /\ call'[c].request = q
          /\ call'[c].decision = call[c].decision /\ call' \in [Callers -> Call]
      BY <1>7, <2>1, GotoFields DEF IInv
    <2>3. TypeOK'
      BY <1>1, <1>3, <2>2 DEF IInv, TypeOK
    <2>4. DecisionOK(c)'
      BY <1>1, <1>7, <2>2 DEF DecisionOK, Decided, Checked, Consumed, Claimed
    <2> QED
      BY <1>1, <1>5, <1>7, <2>1, <2>3, <2>4, GotoStep
  <1> QED
    BY <1>6, <1>7 DEF Settle, EvidenceBinds, IsFinal

LEMMA RecheckKeeps == ASSUME IInv, NEW c \in Callers, Recheck(c) PROVE IInv'
  <1>1. /\ UNCHANGED <<kind, action, consumed, store, failures, expired, lapsed, payment, ran, told>>
        /\ call[c].pc = "recheck" /\ call[c] \in Call /\ DecisionOK(c)
    BY DEF Recheck, external, history, At, IInv, TypeOK
  <1>2. Grows
    BY <1>1 DEF Grows
  <1>3. CASE Return(c)
    <2>1. TypeOK'
      BY <1>1, <1>3, ReturnType DEF IInv, TypeOK
    <2> QED
      BY <1>1, <1>2, <1>3, <2>1, ReturnStep
  <1>4. CASE Goto(c, "consume") /\ StillValid(call[c].request, call[c].decision)
    <2>1. "consume" \in Pcs /\ "consume" \notin Claimed
      BY DEF Pcs, Claimed
    <2>2. /\ call'[c].pc = "consume" /\ call'[c].request = call[c].request
          /\ call'[c].decision = call[c].decision /\ call' \in [Callers -> Call]
      BY <1>4, <2>1, GotoFields DEF IInv
    <2>3. TypeOK'
      BY <1>1, <2>2 DEF IInv, TypeOK
    <2>4. action[call[c].decision] = call[c].request
      BY <1>1, <1>4 DEF DecisionOK, StillValid, Decided
    <2>5. DecisionOK(c)'
      BY <1>1, <2>2, <2>4 DEF DecisionOK, Decided, Checked, Consumed, Claimed
    <2> QED
      BY <1>1, <1>2, <1>4, <2>1, <2>3, <2>5, GotoStep
  <1> QED
    BY <1>3, <1>4 DEF Recheck

LEMMA ConsumeKeeps == ASSUME IInv, NEW c \in Callers, Consume(c) PROVE IInv'
  <1> DEFINE q == call[c].request
             d == call[c].decision
             r == Reference(q, d)
  <1>1. /\ UNCHANGED <<kind, action, store, failures, expired, lapsed, payment, ran>>
        /\ call[c].pc = "consume" /\ call[c] \in Call /\ DecisionOK(c)
        /\ q \in Requests /\ d \in Decisions /\ action[d] = q
    BY DEF Consume, external, At, IInv, TypeOK, DecisionOK, Decided, Checked
  <1>2. r \in References
    BY <1>1, ReferenceType
  <1>3. \/ consumed' = [consumed EXCEPT ![d] = r] /\ consumed[d] = None
        \/ UNCHANGED consumed
    BY DEF Consume
  <1>4. /\ consumed' \in [Decisions -> References \cup {None}]
        /\ \A e \in Decisions : consumed[e] # None => consumed'[e] = consumed[e]
    BY <1>1, <1>2, <1>3 DEF IInv, TypeOK
  <1>5. Grows
    BY <1>1, <1>4 DEF Grows
  <1>6. CASE Answer(c, "refused", None)
    <2>1. call' \in [Callers -> Call]
      BY <1>6, ReturnType DEF IInv, Answer
    <2>2. told' \subseteq Answers
      BY <1>1, <1>6 DEF Answer, Answers, IInv, TypeOK, Call
    <2>3. TypeOK'
      BY <1>1, <1>4, <2>1, <2>2 DEF IInv, TypeOK
    <2> QED
      BY <1>1, <1>5, <1>6, <2>3, AnswerStep
  <1>7. CASE consumed'[d] = r /\ Goto(c, "claim") /\ UNCHANGED told
    <2>1. "claim" \in Pcs /\ "claim" \notin Claimed
      BY DEF Pcs, Claimed
    <2>2. /\ call'[c].pc = "claim" /\ call'[c].request = q
          /\ call'[c].decision = d /\ call' \in [Callers -> Call]
      BY <1>7, <2>1, GotoFields DEF IInv
    <2>3. TypeOK'
      BY <1>1, <1>4, <1>7, <2>2 DEF IInv, TypeOK
    <2>4. consumed'[call'[c].decision] = Reference(call[c].request, call[c].decision)'
      BY <1>1, <1>7, <2>2 DEF Reference
    <2>5. kind = "a2a" => payment[Item(q)] = "settled"
      BY <1>1 DEF DecisionOK, Decided, Checked
    <2>6. DecisionOK(c)'
      BY <1>1, <2>2, <2>4, <2>5 DEF DecisionOK, Decided, Checked, Consumed, Claimed
    <2> QED
      BY <1>1, <1>5, <1>7, <2>1, <2>3, <2>6, GotoStep
  <1> QED
    BY <1>6, <1>7 DEF Consume, ConsumptionSucceeds
-----------------------------------------------------------------------------
(* The claim, the side effect and its completion                           *)

LEMMA ClaimKeeps == ASSUME IInv, NEW c \in Callers, Claim(c) PROVE IInv'
  <1>1. PICK q \in Requests, d \in Decisions :
            /\ q = call[c].request /\ d = call[c].decision /\ call[c].pc = "claim"
            /\ DecisionOK(c) /\ call[c] \in Call
    BY DEF Claim, At, IInv, TypeOK, DecisionOK, Decided, Checked, Consumed
  <1> DEFINE e == store[Key(q)]
             row == [state |-> "in_progress", ref |-> Reference(q, d), decision |-> None]
  <1>2. /\ UNCHANGED <<kind, action, consumed, failures, expired, lapsed, payment, ran>>
        /\ Grows
    BY DEF Claim, external, Grows
  <1>3. Key(q) \in Keys /\ Reference(q, d) \in References /\ row \in Execution /\ row # None
    BY KeyType, ReferenceType, NoneAssumption DEF Execution
  <1>4. ASSUME UNCHANGED store, NEW outcome \in {"replayed", "conflict", "unresolved"},
               NEW by \in Decisions \cup {None}, Answer(c, outcome, by),
               outcome = "replayed" => \E x \in ran : x.request = q /\ x.decision = by
        PROVE  IInv'
    <2>1. call' \in [Callers -> Call]
      BY <1>4, ReturnType DEF IInv, Answer
    <2>2. told' \subseteq Answers
      BY <1>1, <1>4 DEF Answer, Answers, IInv, TypeOK, Call
    <2>3. TypeOK'
      BY <1>2, <1>4, <2>1, <2>2 DEF IInv, TypeOK
    <2> QED
      BY <1>1, <1>2, <1>4, <2>3, AnswerStep
  <1>5. CASE ~Free(e)
    <2>1. e \in Execution
      BY <1>3, <1>5 DEF Free, IInv, TypeOK
    <2>2. SameBinding(e, q, d) /\ e.state = "completed" =>
              \E x \in ran : x.request = q /\ x.decision = e.decision
      BY <1>1, <1>3, <1>5, ReferenceType DEF IInv, StoreOK, SameBinding, Free
    <2>3. e.decision \in Decisions \cup {None}
      BY <2>1 DEF Execution
    <2>4. \/ Answer(c, "conflict", None) \/ Answer(c, "unresolved", None)
          \/ SameBinding(e, q, d) /\ e.state = "completed" /\ Answer(c, "replayed", e.decision)
      BY <1>1, <1>5 DEF Claim
    <2>5. UNCHANGED store
      BY <1>1, <1>5 DEF Claim
    <2> QED
      BY <1>4, <2>2, <2>3, <2>4, <2>5
  <1>6. CASE Free(e)
    <2> DEFINE x == [call[c] EXCEPT !.pc = AfterClaim]
    <2>1. store' = [store EXCEPT ![Key(q)] = row] /\ Goto(c, AfterClaim) /\ UNCHANGED told
      BY <1>1, <1>6 DEF Claim
    <2>2. AfterClaim \in Pcs /\ AfterClaim \in BeforeRun /\ AfterClaim # "broadcast"
      BY DEF AfterClaim, Pcs, BeforeRun
    <2>3. /\ call'[c].pc = AfterClaim /\ call'[c].request = q /\ call'[c].decision = d
          /\ call' \in [Callers -> Call]
      BY <1>1, <2>1, <2>2, GotoFields DEF IInv
    <2>4. \A b \in Callers \ {c} : call'[b] = call[b]
      BY <2>1 DEF Goto, IInv, TypeOK
    <2>5. store'[Key(q)] = row /\ \A k \in Keys \ {Key(q)} : store'[k] = store[k]
      BY <1>3, <2>1 DEF IInv, TypeOK
    <2>6. \A p : Key(p)' = Key(p)
      BY <1>2, SameKind
    <2>7. Reference(q, d)' = Reference(q, d)
      BY <1>2, SameKind
    <2>8. TypeOK'
      <3>1. store' \in [Keys -> Execution \cup {None}]
        BY <1>3, <2>1 DEF IInv, TypeOK
      <3> QED
        BY <1>2, <2>1, <2>3, <3>1 DEF IInv, TypeOK
    <2>9. \A b \in Callers \ {c} : call[b].pc \in Claimed =>
              Key(call[b].request) \in Keys \ {Key(q)}
      BY <1>6, KeyType DEF Free, IInv, ClaimOK, DecisionOK, Claimed
    <2>10. \A b \in Callers : DecisionOK(b)'
      <3>1. DecisionOK(c)'
        BY <1>1, <1>2, <2>2, <2>3, <2>7
        DEF DecisionOK, Decided, Checked, Consumed, Claimed, BeforeRun
      <3> QED
        BY <1>2, <2>4, <3>1, DecisionKept DEF IInv
    <2>11. \A b \in Callers : ClaimOK(b)'
      <3>1. Key(call[c].request)' = Key(q)
        BY <2>3, <2>6
      <3>2. Reference(call[c].request, call[c].decision)' = Reference(q, d)
        BY <2>3, <2>7
      <3>3. ClaimOK(c)'
        BY <1>3, <2>5, <3>1, <3>2 DEF ClaimOK
      <3> QED
        BY <1>2, <2>4, <2>5, <2>9, <3>3, ClaimKept DEF IInv
    <2>12. \A b \in Callers : EffectOK(b)'
      <3>1. \A x1 \in ran : x1.key # Key(q)
        BY <1>6 DEF Free, IInv, RanOK
      <3>2. EffectOK(c)'
        BY <1>2, <2>2, <2>3, <2>6, <3>1 DEF EffectOK, BeforeRun, AfterRun
      <3> QED
        BY <1>2, <2>4, <3>2, EffectKept DEF IInv
    <2>13. SoleClaimer'
      <3> SUFFICES ASSUME NEW a \in Callers, NEW b \in Callers, a # b,
                          call'[a].pc \in Claimed, call'[b].pc \in Claimed
                   PROVE  Key(call'[a].request) # Key(call'[b].request)
        BY <2>6 DEF SoleClaimer
      <3>1. CASE a = c
        BY <2>3, <2>4, <2>9, <3>1
      <3>2. CASE b = c
        BY <2>3, <2>4, <2>9, <3>2
      <3>3. CASE a # c /\ b # c
        BY <2>4, <3>3 DEF IInv, SoleClaimer
      <3> QED
        BY <3>1, <3>2, <3>3
    <2>14. RanOK' /\ PaidBeforeRun'
      BY <1>2, <1>3, <2>5, RanKept, PaidKept DEF IInv
    <2>15. StoreOK'
      BY <1>2, <2>5 DEF IInv, StoreOK
    <2>16. RunsOnce' /\ AnswersMatchRuns'
      BY <1>2, <2>1 DEF IInv, RunsOnce, AnswersMatchRuns
    <2> QED
      BY <2>8, <2>10, <2>11, <2>12, <2>13, <2>14, <2>15, <2>16 DEF IInv
  <1> QED
    BY <1>5, <1>6

(* The side effect of the holder of a key, with nothing run under it yet.  *)
LEMMA RunStep ==
    ASSUME IInv, NEW c \in Callers, call[c].pc \in {"delegate", "broadcast"},
           NEW pc \in AfterRun, Runs(c, call[c].request), Goto(c, pc),
           UNCHANGED <<kind, action, consumed, store, failures, expired, lapsed, payment, told>>
    PROVE  IInv'
  <1>1. PICK q \in Requests, d \in Decisions :
            /\ q = call[c].request /\ d = call[c].decision
            /\ call[c] \in Call /\ call[c].pc \in Claimed /\ call[c].pc \in BeforeRun
            /\ call[c].pc \in Consumed /\ call[c].pc \in Checked /\ call[c].pc \in Decided \ {"settle"}
    BY DEF IInv, TypeOK, DecisionOK, Decided, Checked, Consumed, Claimed, BeforeRun
  <1> DEFINE new == [key |-> Key(q), request |-> q, decision |-> d, number |-> Cardinality(ran) + 1]
  <1>2. Grows
    BY DEF Grows
  <1>3. ran' = ran \cup {new} /\ new \in ran'
    BY <1>1 DEF Runs
  <1>4. /\ IsFiniteSet(ran') /\ Cardinality(ran) \in Nat
    BY <1>3, FS_AddElement, FS_CardinalityType DEF IInv, RanOK
  <1>5. pc \in Pcs /\ pc \in Claimed /\ pc \in Consumed /\ pc \in Checked
        /\ pc \in Decided \ {"settle"} /\ pc # "broadcast" /\ pc # "idle" /\ pc \notin BeforeRun
    BY DEF AfterRun, Pcs, Claimed, Consumed, Checked, Decided, BeforeRun
  <1>6. /\ call'[c].pc = pc /\ call'[c].request = q /\ call'[c].decision = d
        /\ call' \in [Callers -> Call]
    BY <1>1, <1>5, GotoFields DEF IInv
  <1>7. \A b \in Callers \ {c} : call'[b] = call[b]
    BY DEF Goto, IInv, TypeOK
  <1>8. (\A p : Key(p)' = Key(p)) /\ (\A p, e : Reference(p, e)' = Reference(p, e))
    BY SameKind
  <1>9. /\ action[d] = q /\ consumed[d] = Reference(q, d)
        /\ kind = "a2a" => payment[Item(q)] = "settled"
    BY <1>1 DEF IInv, DecisionOK
  <1>10. store[Key(q)] # None /\ \A x \in ran : x.key # Key(q)
    BY <1>1 DEF IInv, ClaimOK, EffectOK
  <1>11. new \in Run /\ new.key = Key(q) /\ new.request = q /\ new.decision = d
    BY <1>1, <1>4, KeyType DEF Run
  <1> HIDE DEF new
  <1>12. TypeOK'
    BY <1>3, <1>6, <1>11 DEF IInv, TypeOK
  <1>13. \A b \in Callers : DecisionOK(b)'
    <2>1. DecisionOK(c)'
      BY <1>5, <1>6, <1>8, <1>9 DEF DecisionOK
    <2> QED
      BY <1>2, <1>7, <2>1, DecisionKept DEF IInv
  <1>14. \A b \in Callers : ClaimOK(b)'
    <2>1. ClaimOK(c)'
      BY <1>1, <1>6, <1>8 DEF ClaimOK, IInv
    <2> QED
      BY <1>7, <2>1, ClaimKept DEF IInv
  <1>15. \A b \in Callers : EffectOK(b)'
    <2>1. EffectOK(c)'
      BY <1>3, <1>5, <1>6, <1>11 DEF EffectOK
    <2>2. ASSUME NEW b \in Callers \ {c}, call[b].pc \in BeforeRun
          PROVE  new.key # Key(call[b].request)
      BY <1>1, <1>11, <2>2 DEF IInv, SoleClaimer, BeforeRun, Claimed
    <2> QED
      BY <1>3, <1>7, <2>1, <2>2, EffectKept DEF IInv
  <1>16. SoleClaimer'
    <2>1. \A b \in Callers : call'[b].pc \in Claimed =>
              call[b].pc \in Claimed /\ call'[b].request = call[b].request
      BY <1>1, <1>6, <1>7
    <2> SUFFICES ASSUME NEW a \in Callers, NEW b \in Callers, a # b,
                        call'[a].pc \in Claimed, call'[b].pc \in Claimed
                 PROVE  Key(call[a].request) # Key(call[b].request)
      BY <1>8, <2>1 DEF SoleClaimer
    <2> QED
      BY <2>1 DEF IInv, SoleClaimer
  <1>17. RanOK' /\ PaidBeforeRun'
    <2>1. RanOK'
      BY <1>3, <1>4, <1>8, <1>9, <1>10, <1>11 DEF IInv, RanOK
    <2>2. PaidBeforeRun'
      BY <1>3, <1>9, <1>11 DEF IInv, PaidBeforeRun
    <2> QED
      BY <2>1, <2>2
  <1>18. StoreOK' /\ AnswersMatchRuns'
    BY <1>3 DEF IInv, StoreOK, AnswersMatchRuns
  <1>19. RunsOnce'
    BY <1>3, <1>10, <1>11 DEF IInv, RunsOnce
  <1> QED
    BY <1>12, <1>13, <1>14, <1>15, <1>16, <1>17, <1>18, <1>19 DEF IInv

LEMMA DelegateKeeps == ASSUME IInv, NEW c \in Callers, Delegate(c) PROVE IInv'
  <1>1. "receipt" \in AfterRun
    BY DEF AfterRun
  <1> QED
    BY <1>1, RunStep DEF Delegate, At, external

LEMMA BroadcastKeeps == ASSUME IInv, NEW c \in Callers, Broadcast(c) PROVE IInv'
  <1>1. "complete" \in AfterRun
    BY DEF AfterRun
  <1>2. call[c].signed = call[c].request
    BY DEF Broadcast, At, IInv, DecisionOK
  <1> QED
    BY <1>1, <1>2, RunStep DEF Broadcast, At, external

(* Past the claim, a call that has not run goes on to sign or broadcast,   *)
(* one that has run goes on to complete.                                   *)
LEMMA SignKeeps == ASSUME IInv, NEW c \in Callers, Sign(c) PROVE IInv'
  <1> DEFINE x == [[call[c] EXCEPT !.pc = "broadcast"] EXCEPT !.signed = call[c].request]
  <1>1. /\ UNCHANGED <<kind, action, consumed, store, failures, expired, lapsed, payment, ran, told>>
        /\ call[c] \in Call /\ call[c].pc = "sign" /\ call[c].request \in Requests
        /\ DecisionOK(c) /\ ClaimOK(c) /\ EffectOK(c)
    BY DEF Sign, external, history, At, IInv, TypeOK, DecisionOK
  <1>2. Grows /\ AnswersMatchRuns'
    BY <1>1 DEF Grows, IInv, AnswersMatchRuns
  <1>3. CASE Return(c)
    <2>1. TypeOK'
      BY <1>1, <1>3, ReturnType DEF IInv, TypeOK
    <2> QED
      BY <1>1, <1>2, <1>3, <2>1, ReturnStep
  <1>4. CASE call' = [call EXCEPT ![c] = x]
    <2>1. /\ x \in Call /\ x.pc = "broadcast" /\ x.request = call[c].request
          /\ x.decision = call[c].decision /\ x.signed = call[c].request
      BY <1>1 DEF Call, Pcs
    <2> HIDE DEF x
    <2>2. call'[c] = x
      BY <1>4 DEF IInv, TypeOK
    <2>3. TypeOK'
      BY <1>1, <1>4, <2>1 DEF IInv, TypeOK
    <2>4. (\A p : Key(p)' = Key(p)) /\ (\A p, e : Reference(p, e)' = Reference(p, e))
      BY <1>1, SameKind
    <2>5. DecisionOK(c)'
      BY <1>1, <2>1, <2>2, <2>4 DEF DecisionOK, Decided, Checked, Consumed, Claimed
    <2>6. ClaimOK(c)' /\ EffectOK(c)'
      BY <1>1, <2>1, <2>2, <2>4 DEF ClaimOK, EffectOK, Claimed, BeforeRun, AfterRun
    <2>7. call[c].pc \in Claimed
      BY <1>1 DEF Claimed
    <2> QED
      BY <1>1, <1>2, <1>4, <2>1, <2>3, <2>5, <2>6, <2>7, CallStep
  <1>5. Return(c) \/ call' = [call EXCEPT ![c] = x]
    BY DEF Sign, SignsExactly
  <1> QED
    BY <1>3, <1>4, <1>5

LEMMA ReceiptKeeps == ASSUME IInv, NEW c \in Callers, SignReceipt(c) PROVE IInv'
  <1> DEFINE x == [call[c] EXCEPT !.pc = "complete"]
  <1>1. /\ UNCHANGED <<kind, action, consumed, store, failures, expired, lapsed, payment, ran, told>>
        /\ call[c] \in Call /\ call[c].pc = "receipt"
        /\ DecisionOK(c) /\ ClaimOK(c) /\ EffectOK(c)
    BY DEF SignReceipt, external, history, At, IInv, TypeOK
  <1>2. Grows /\ AnswersMatchRuns'
    BY <1>1 DEF Grows, IInv, AnswersMatchRuns
  <1>3. call' = [call EXCEPT ![c] = x] /\ call'[c] = x
    BY DEF SignReceipt, Goto, IInv, TypeOK
  <1>4. /\ x \in Call /\ x.pc = "complete" /\ x.request = call[c].request
        /\ x.decision = call[c].decision
    BY <1>1 DEF Call, Pcs
  <1> HIDE DEF x
  <1>5. TypeOK'
    BY <1>1, <1>3, <1>4 DEF IInv, TypeOK
  <1>6. (\A p : Key(p)' = Key(p)) /\ (\A p, e : Reference(p, e)' = Reference(p, e))
    BY <1>1, SameKind
  <1>7. DecisionOK(c)'
    BY <1>1, <1>3, <1>4, <1>6 DEF DecisionOK, Decided, Checked, Consumed, Claimed
  <1>8. ClaimOK(c)' /\ EffectOK(c)'
    BY <1>1, <1>3, <1>4, <1>6 DEF ClaimOK, EffectOK, Claimed, BeforeRun, AfterRun
  <1>9. call[c].pc \in Claimed
    BY <1>1 DEF Claimed
  <1> QED
    BY <1>1, <1>2, <1>3, <1>4, <1>5, <1>7, <1>8, <1>9, CallStep
LEMMA CompleteKeeps == ASSUME IInv, NEW c \in Callers, Complete(c) PROVE IInv'
  <1>1. PICK q \in Requests, d \in Decisions :
            /\ q = call[c].request /\ d = call[c].decision /\ call[c].pc = "complete"
            /\ call[c] \in Call
    BY DEF Complete, At, IInv, TypeOK, DecisionOK, Decided, Checked, Consumed, Claimed
  <1> DEFINE row == StoredExecution(q, d)
  <1>2. /\ UNCHANGED <<kind, action, consumed, failures, expired, lapsed, payment, ran>>
        /\ Grows
    BY DEF Complete, external, Grows
  <1>3. Key(q) \in Keys /\ store[Key(q)] # None /\ store[Key(q)].state = "in_progress"
    BY <1>1, KeyType DEF IInv, ClaimOK, Claimed
  <1>4. /\ row \in Execution /\ row # None /\ row.state = "completed" /\ row.decision = d
        /\ row.ref[1] = q
    BY <1>1, ReferenceType, NoneAssumption DEF StoredExecution, Execution
  <1>5. PICK x \in ran : x.request = q /\ x.decision = d
    BY <1>1 DEF IInv, EffectOK, AfterRun
  <1>6. Return(c)
    BY DEF Complete, Answer
  <1>7. call'[c] = Idle /\ call' \in [Callers -> Call]
    BY <1>6, ReturnType DEF IInv, TypeOK, Return
  <1>8. CASE UNCHANGED <<store, told>>
    <2>1. TypeOK'
      BY <1>2, <1>7, <1>8 DEF IInv, TypeOK
    <2> QED
      BY <1>2, <1>6, <1>8, <2>1, ReturnStep
  <1>9. CASE store' = [store EXCEPT ![Key(q)] = row] /\ Answer(c, "completed", d)
    <2> HIDE DEF row
    <2>1. store'[Key(q)] = row /\ \A k \in Keys \ {Key(q)} : store'[k] = store[k]
      BY <1>3, <1>9 DEF IInv, TypeOK
    <2>2. told' \subseteq Answers
      BY <1>1, <1>9 DEF Answer, Answers, IInv, TypeOK, Call
    <2>3. TypeOK'
      <3>1. store' \in [Keys -> Execution \cup {None}]
        BY <1>4, <1>9 DEF IInv, TypeOK
      <3> QED
        BY <1>2, <1>7, <2>2, <3>1 DEF IInv, TypeOK
    <2>4. \A b \in Callers \ {c} : call'[b] = call[b]
      BY <1>6 DEF Return, IInv, TypeOK
    <2>5. \A b \in Callers \ {c} : call[b].pc \in Claimed => Key(call[b].request) \in Keys \ {Key(q)}
      <3> SUFFICES ASSUME NEW b \in Callers \ {c}, call[b].pc \in Claimed
                   PROVE  Key(call[b].request) \in Keys \ {Key(q)}
        OBVIOUS
      <3>1. call[b].request \in Requests
        BY DEF IInv, DecisionOK, Claimed
      <3>2. Key(call[b].request) # Key(q)
        BY <1>1 DEF IInv, SoleClaimer, Claimed
      <3> QED
        BY <3>1, <3>2, KeyType
    <2>6. DecisionOK(c)' /\ ClaimOK(c)' /\ EffectOK(c)'
      BY <1>7, IdleOK
    <2>7. \A b \in Callers : DecisionOK(b)'
      BY <1>2, <2>4, <2>6, DecisionKept DEF IInv
    <2>8. \A b \in Callers : ClaimOK(b)'
      BY <1>2, <2>1, <2>4, <2>5, <2>6, ClaimKept DEF IInv
    <2>9. \A b \in Callers : EffectOK(b)'
      BY <1>2, <2>4, <2>6, EffectKept DEF IInv
    <2>10. SoleClaimer'
      <3>1. \A p : Key(p)' = Key(p)
        BY <1>2, SameKind
      <3>2. call'[c].pc \notin Claimed
        BY <1>7 DEF Idle, Claimed
      <3> QED
        BY <2>4, <3>1, <3>2 DEF IInv, SoleClaimer
    <2>11. RanOK' /\ PaidBeforeRun'
      BY <1>2, <1>4, <2>1, RanKept, PaidKept DEF IInv
    <2>12. StoreOK'
      BY <1>2, <1>4, <1>5, <2>1 DEF IInv, StoreOK
    <2>13. RunsOnce'
      BY <1>2 DEF IInv, RunsOnce
    <2>14. AnswersMatchRuns'
      BY <1>1, <1>2, <1>5, <1>9 DEF IInv, AnswersMatchRuns, Answer
    <2> QED
      BY <2>3, <2>7, <2>8, <2>9, <2>10, <2>11, <2>12, <2>13, <2>14 DEF IInv
  <1> QED
    BY <1>1, <1>8, <1>9 DEF Complete

-----------------------------------------------------------------------------
(* The environment, failures, and the invariant                            *)

(* A step of the environment moves no call.                                *)
LEMMA EnvironmentStep ==
    ASSUME IInv, TypeOK', Grows, UNCHANGED <<store, call, ran, told>>
    PROVE  IInv'
  <1>1. \A b \in Callers : DecisionOK(b)'
    BY DecisionKept DEF IInv
  <1>2. \A b \in Callers : ClaimOK(b)'
    BY ClaimKept DEF IInv, Grows
  <1>3. \A b \in Callers : EffectOK(b)'
    BY EffectKept DEF IInv, Grows
  <1>4. SoleClaimer'
    BY SameKind DEF Grows, IInv, SoleClaimer
  <1>5. RanOK' /\ PaidBeforeRun'
    BY RanKept, PaidKept DEF IInv
  <1>6. StoreOK' /\ RunsOnce' /\ AnswersMatchRuns'
    BY DEF IInv, StoreOK, RunsOnce, AnswersMatchRuns
  <1> QED
    BY <1>1, <1>2, <1>3, <1>4, <1>5, <1>6 DEF IInv

LEMMA PaymentSettlesKeeps == ASSUME IInv, NEW i \in Items, PaymentSettles(i) PROVE IInv'
  <1>1. TypeOK'
    BY DEF PaymentSettles, IInv, TypeOK, history
  <1>2. Grows
    BY DEF PaymentSettles, IInv, TypeOK, Grows
  <1> QED
    BY <1>1, <1>2, EnvironmentStep DEF PaymentSettles, history

LEMMA ExpireKeeps == ASSUME IInv, Expire PROVE IInv'
  <1>1. UNCHANGED <<kind, action, consumed, payment, store, call, failures, ran, told>>
    BY DEF Expire, history
  <1>2. expired' \subseteq Decisions /\ lapsed' \subseteq Requests
    BY WorkloadAssumption DEF Expire, IInv, TypeOK
  <1>3. TypeOK'
    BY <1>1, <1>2 DEF IInv, TypeOK
  <1> QED
    BY <1>1, <1>3, EnvironmentStep DEF Grows

LEMMA FailKeeps == ASSUME IInv, NEW c \in Callers, Fail(c) PROVE IInv'
  <1>1. /\ Return(c)
        /\ UNCHANGED <<kind, action, consumed, store, expired, lapsed, payment, ran, told>>
    BY DEF Fail, external, history
  <1>2. failures' \in 0..MaxFailures
    BY BoundsAssumption DEF Fail, IInv, TypeOK
  <1>3. TypeOK'
    BY <1>1, <1>2, ReturnType DEF IInv, TypeOK
  <1> QED
    BY <1>1, <1>3, ReturnStep DEF Grows

LEMMA InitIInv == Init => IInv
  <1> SUFFICES ASSUME Init PROVE IInv
    OBVIOUS
  <1>1. TypeOK
    BY IdleInCall, BoundsAssumption DEF Init, TypeOK
  <1>2. \A c \in Callers : DecisionOK(c) /\ ClaimOK(c) /\ EffectOK(c) /\ call[c].pc \notin Claimed
    BY DEF Init, DecisionOK, ClaimOK, EffectOK, Idle, Decided, Checked, Consumed, Claimed,
           BeforeRun, AfterRun
  <1>3. RanOK
    BY FS_EmptySet DEF Init, RanOK
  <1>4. SoleClaimer /\ StoreOK /\ RunsOnce /\ PaidBeforeRun /\ AnswersMatchRuns
    BY <1>2 DEF Init, SoleClaimer, StoreOK, RunsOnce, PaidBeforeRun, AnswersMatchRuns
  <1> QED
    BY <1>1, <1>2, <1>3, <1>4 DEF IInv

LEMMA NextKeeps == IInv /\ [Next]_vars => IInv'
  <1> SUFFICES ASSUME IInv, [Next]_vars PROVE IInv'
    OBVIOUS
  <1>1. CASE UNCHANGED vars
    BY <1>1, EnvironmentStep DEF vars, IInv, TypeOK, Grows
  <1>2. ASSUME NEW c \in Callers, Step(c) PROVE IInv'
    BY <1>2, VerifyKeeps, EvaluateKeeps, SettleKeeps, RecheckKeeps, ConsumeKeeps, ClaimKeeps,
       DelegateKeeps, SignKeeps, BroadcastKeeps, ReceiptKeeps, CompleteKeeps DEF Step
  <1>3. ASSUME NEW c \in Callers, Fail(c) PROVE IInv'
    BY <1>3, FailKeeps
  <1>4. ASSUME NEW c \in Callers, NEW q \in Requests, Begin(c, q) PROVE IInv'
    BY <1>4, BeginKeeps
  <1>5. ASSUME NEW c \in Callers, NEW q \in Requests, NEW d \in Decisions, SignAndBroadcast(c, q, d)
        PROVE  IInv'
    BY <1>5, SignAndBroadcastKeeps
  <1>6. ASSUME NEW i \in Items, PaymentSettles(i) PROVE IInv'
    BY <1>6, PaymentSettlesKeeps
  <1>7. CASE Expire
    BY <1>7, ExpireKeeps
  <1> QED
    BY <1>1, <1>2, <1>3, <1>4, <1>5, <1>6, <1>7 DEF Next

(* Every reachable state of every gate satisfies the inductive invariant:  *)
(* each call knows what its await says, one call holds each claimed key,   *)
(* and what was run and stored agrees with decisions and payments.         *)
THEOREM Invariant == Spec => []IInv
  BY InitIInv, NextKeeps, PTL DEF Spec

(* Calls, execution stores, decisions and payments keep their types.       *)
THEOREM TypeCorrect == Spec => []TypeOK
  <1>1. IInv => TypeOK
    BY DEF IInv
  <1> QED
    BY <1>1, Invariant, PTL

(* Each paid task, Payment Mandate and unsigned transaction has its side   *)
(* effect at most once, whatever calls race, fail and retry.               *)
THEOREM OneEffectPerKey == Spec => []RunsOnce
  <1>1. IInv => RunsOnce
    BY DEF IInv
  <1> QED
    BY <1>1, Invariant, PTL

(* Every side effect has a decision of its own, for exactly its request    *)
(* and consumed with its reference.                                        *)
THEOREM EffectsAreAuthorised == Spec => []RunsWithAuthority
  <1>1. IInv => RunsWithAuthority
    <2> SUFFICES ASSUME IInv PROVE RunsWithAuthority
      OBVIOUS
    <2>1. \A x \in ran : x.request # None
      BY NoneAssumption DEF IInv, RanOK
    <2>2. \A x, y \in ran : x.decision = y.decision => x.key = y.key
      BY DEF IInv, RanOK
    <2> QED
      BY <2>1, <2>2 DEF IInv, RanOK, RunsOnce, RunsWithAuthority
  <1> QED
    BY <1>1, Invariant, PTL

(* The A2A gate's delegate runs only when the payment of its own task and  *)
(* submission is final, and it stays final.                                *)
THEOREM EffectsArePaid == Spec => []PaidBeforeRun
  <1>1. IInv => PaidBeforeRun
    BY DEF IInv
  <1> QED
    BY <1>1, Invariant, PTL

(* Whoever is told its request is completed, now or by replay, is told of  *)
(* a side effect of that request under the decision in the answer.         *)
THEOREM AnswersHold == Spec => []AnswersMatchRuns
  <1>1. IInv => AnswersMatchRuns
    BY DEF IInv
  <1> QED
    BY <1>1, Invariant, PTL
-----------------------------------------------------------------------------
(* The gates implement SingleExecution                                     *)

(* A step that neither consumes nor runs nor answers is invisible.         *)
LEMMA GateStutter ==
    ASSUME UNCHANGED <<kind, consumed, ran, told>> PROVE UNCHANGED Single!vars
  BY DEF Single!vars, Grant, EffectCount, Effects, Reported, Done, Key, Item

LEMMA ConsumeRefines ==
    ASSUME IInv, NEW c \in Callers, Consume(c), consumed' # consumed
    PROVE  Single!Next
  <1>1. PICK q \in Requests, d \in Decisions : q = call[c].request /\ d = call[c].decision
    BY DEF Consume, At, IInv, DecisionOK, Decided, Checked, Consumed, Claimed
  <1>2. /\ consumed[d] = None /\ consumed' = [consumed EXCEPT ![d] = Reference(q, d)]
        /\ d \notin expired /\ UNCHANGED <<kind, ran, told, expired>>
    BY <1>1, ReferenceType DEF Consume, ConsumptionSucceeds, IInv, TypeOK, external
  <1>3. /\ consumed'[d] = Reference(q, d)
        /\ \A e \in Decisions \ {d} : consumed'[e] = consumed[e]
    BY <1>2 DEF IInv, TypeOK
  <1>4. \A p : Key(p)' = Key(p)
    BY <1>2, SameKind
  <1>5. Reference(q, d) # None /\ Reference(q, d)[1] = q
    BY ReferenceType
  <1>6. Grant[d] = None /\ Grant' = [Grant EXCEPT ![d] = Key(q)]
    <2>1. Grant' = [e \in Decisions |-> IF consumed'[e] = None THEN None ELSE Key(consumed'[e][1])]
      BY <1>4 DEF Grant
    <2>2. Grant'[d] = Key(q)
      BY <1>3, <1>5, <2>1
    <2>3. \A e \in Decisions \ {d} : Grant'[e] = Grant[e]
      BY <1>3, <2>1 DEF Grant
    <2>4. Grant = [e \in Decisions |-> Grant[e]] /\ Grant' = [e \in Decisions |-> Grant'[e]]
      BY <2>1 DEF Grant
    <2>5. Grant[d] = None
      BY <1>2 DEF Grant
    <2> QED
      BY <2>2, <2>3, <2>4, <2>5
  <1>7. UNCHANGED <<EffectCount, Reported>>
    BY <1>2 DEF EffectCount, Effects, Reported, Done, Key, Item
  <1>8. Single!Consume(d, Key(q))
    BY <1>6, <1>7 DEF Single!Consume
  <1> QED
    BY <1>8, KeyType DEF Single!Next

(* A delegate call or broadcast is the first side effect under its key, by *)
(* the decision consumed for it.                                           *)
LEMMA RunRefines ==
    ASSUME IInv, NEW c \in Callers, call[c].pc \in {"delegate", "broadcast"},
           Runs(c, call[c].request), UNCHANGED <<kind, consumed, told>>
    PROVE  Single!Next
  <1>1. PICK q \in Requests, d \in Decisions :
            /\ q = call[c].request /\ d = call[c].decision
            /\ consumed[d] = Reference(q, d) /\ \A x \in ran : x.key # Key(q)
    BY DEF IInv, DecisionOK, EffectOK, Decided, Checked, Consumed, Claimed, BeforeRun
  <1> DEFINE new == [key |-> Key(q), request |-> q, decision |-> d, number |-> Cardinality(ran) + 1]
  <1>2. ran' = ran \cup {new} /\ new.key = Key(q) /\ new.decision = d
    BY <1>1 DEF Runs
  <1> HIDE DEF new
  <1>3. Key(q) \in Keys
    BY KeyType
  <1>4. Grant[d] = Key(q)
    BY <1>1, ReferenceType DEF Grant
  <1>5. \A e \in Decisions : Effects(e, Key(q)) = {}
    BY <1>1 DEF Effects
  <1>6. \A e \in Decisions : EffectCount[e][Key(q)] = 0
    BY <1>3, <1>5, FS_EmptySet DEF EffectCount
  <1>7. Effects(d, Key(q))' = {new}
    <2>1. \A p : Key(p)' = Key(p)
      BY SameKind
    <2>2. \A x \in ran' : x.decision = d /\ x.key = Key(q) <=> x = new
      BY <1>1, <1>2
    <2> QED
      BY <1>2, <2>1, <2>2 DEF Effects
  <1>8. \A e \in Decisions, k \in Keys :
            e # d \/ k # Key(q) => {x \in ran' : x.decision = e /\ x.key = k} = Effects(e, k)
    BY <1>2 DEF Effects
  <1>9. Cardinality({new}) = 1
    BY FS_Singleton
  <1>10. EffectCount' = [EffectCount EXCEPT ![d][Key(q)] = 1]
    <2>1. EffectCount' = [e \in Decisions |-> [k \in Keys |->
                              Cardinality({x \in ran' : x.decision = e /\ x.key = k})]]
      BY DEF EffectCount, Effects, Keys
    <2>2. {x \in ran' : x.decision = d /\ x.key = Key(q)} = {new}
      BY <1>7, SameKind DEF Effects
    <2>3. EffectCount'[d][Key(q)] = 1
      BY <1>3, <1>9, <2>1, <2>2
    <2>4. \A e \in Decisions, k \in Keys : e # d \/ k # Key(q) => EffectCount'[e][k] = EffectCount[e][k]
      BY <1>8, <2>1 DEF EffectCount
    <2>5. /\ EffectCount = [e \in Decisions |-> [k \in Keys |-> EffectCount[e][k]]]
          /\ EffectCount' = [e \in Decisions |-> [k \in Keys |-> EffectCount'[e][k]]]
      <3>1. EffectCount = [e \in Decisions |-> [k \in Keys |-> EffectCount[e][k]]]
        BY DEF EffectCount
      <3>2. EffectCount' = [e \in Decisions |-> [k \in Keys |-> EffectCount'[e][k]]]
        BY <2>1
      <3> QED
        BY <3>1, <3>2
    <2> QED
      BY <1>3, <2>3, <2>4, <2>5
  <1>11. UNCHANGED <<Grant, Reported>>
    BY DEF Grant, Reported, Done, Key, Item
  <1>12. Single!Execute(d, Key(q))
    BY <1>4, <1>6, <1>10, <1>11 DEF Single!Execute, Single!Untouched
  <1> QED
    BY <1>3, <1>12 DEF Single!Next

(* Whoever is told its request is done is told after its side effect.      *)
LEMMA AnswerRefines ==
    ASSUME IInv, AnswersMatchRuns', NEW a \in Answers, told' = told \cup {a},
           UNCHANGED <<kind, consumed, ran>>
    PROVE  [Single!Next]_(Single!vars)
  <1> DEFINE q == a.request
  <1>1. q \in Requests /\ Key(q) \in Keys
    BY KeyType DEF Answers
  <1>2. UNCHANGED <<Grant, EffectCount>>
    BY DEF Grant, EffectCount, Effects, Key, Item
  <1>3. CASE Done(a)
    <2>1. PICK x \in ran : x.request = q
      BY <1>3 DEF AnswersMatchRuns, Done
    <2>2. x.key = Key(q) /\ x.decision \in Decisions
      BY <2>1 DEF IInv, TypeOK, Run, RanOK
    <2>3. EffectCount[x.decision][Key(q)] # 0
      <3>1. x \in Effects(x.decision, Key(q)) /\ Effects(x.decision, Key(q)) \in SUBSET ran
        BY <2>2 DEF Effects
      <3>2. IsFiniteSet(Effects(x.decision, Key(q)))
        BY <3>1, FS_Subset DEF IInv, RanOK
      <3>3. Cardinality(Effects(x.decision, Key(q))) # 0
        BY <3>1, <3>2, FS_EmptySet
      <3> QED
        BY <1>1, <2>2, <3>3 DEF EffectCount
    <2>4. Reported' = Reported \cup {Key(q)}
      BY <1>1, <1>3 DEF Reported, Done, Key, Item
    <2>5. Single!Report(Key(q))
      BY <1>2, <2>2, <2>3, <2>4 DEF Single!Report, Single!Untouched
    <2> QED
      BY <1>1, <2>5 DEF Single!Next
  <1>4. CASE ~Done(a)
    <2>1. UNCHANGED Reported
      BY <1>4 DEF Reported, Done, Key, Item
    <2> QED
      BY <1>2, <2>1 DEF Single!vars
  <1> QED
    BY <1>3, <1>4

(* An answer of any kind.                                                  *)
LEMMA AnswerInAnswers ==
    ASSUME IInv, NEW c \in Callers, call[c].pc # "idle",
           NEW outcome \in {"completed", "replayed", "refused", "conflict", "unresolved"},
           NEW d \in Decisions \cup {None}, Answer(c, outcome, d)
    PROVE  \E a \in Answers : told' = told \cup {a}
  BY DEF Answer, Answers, IInv, TypeOK, Call, DecisionOK

LEMMA CallRefines ==
    ASSUME IInv, AnswersMatchRuns', NEW c \in Callers, Step(c)
    PROVE  [Single!Next]_(Single!vars)
  <1>1. CASE UNCHANGED <<kind, consumed, ran, told>>
    BY <1>1, GateStutter
  <1>2. CASE /\ UNCHANGED <<kind, consumed, ran>>
             /\ \E a \in Answers : told' = told \cup {a}
    BY <1>2, AnswerRefines
  <1>3. CASE Evaluate(c)
    BY <1>1, <1>2, <1>3, AnswerInAnswers DEF Evaluate, At
  <1>4. CASE Consume(c)
    <2>1. CASE consumed' # consumed
      BY <1>4, <2>1, ConsumeRefines
    <2>2. CASE consumed' = consumed
      BY <1>1, <1>2, <1>4, <2>2, AnswerInAnswers DEF Consume, At
    <2> QED
      BY <2>1, <2>2
  <1>5. CASE Claim(c)
    <2>1. call[c].request \in Requests
      BY <1>5 DEF Claim, At, IInv, DecisionOK
    <2>2. store[Key(call[c].request)] # None =>
              store[Key(call[c].request)].decision \in Decisions \cup {None}
      BY <2>1, KeyType DEF IInv, TypeOK, Execution
    <2> QED
      BY <1>1, <1>2, <1>5, <2>2, AnswerInAnswers DEF Claim, At, Free
  <1>6. CASE Complete(c)
    <2>1. call[c].decision \in Decisions
      BY <1>6 DEF Complete, At, IInv, DecisionOK, Decided, Checked, Consumed, Claimed
    <2> QED
      BY <1>1, <1>2, <1>6, <2>1, AnswerInAnswers DEF Complete, At
  <1>7. CASE Delegate(c)
    BY <1>7, RunRefines DEF Delegate, At
  <1>8. CASE Broadcast(c)
    <2>1. call[c].signed = call[c].request
      BY <1>8 DEF Broadcast, At, IInv, DecisionOK
    <2> QED
      BY <1>8, <2>1, RunRefines DEF Broadcast, At
  <1>9. CASE VerifyMandates(c) \/ Settle(c) \/ Recheck(c) \/ Sign(c) \/ SignReceipt(c)
    BY <1>1, <1>9 DEF VerifyMandates, Settle, Recheck, Sign, SignReceipt, history
  <1> QED
    BY <1>3, <1>4, <1>5, <1>6, <1>7, <1>8, <1>9 DEF Step

LEMMA StepRefines ==
    ASSUME IInv, [Next]_vars
    PROVE  [Single!Next]_(Single!vars)
  <1>1. AnswersMatchRuns'
    BY NextKeeps DEF IInv
  <1>2. \/ UNCHANGED <<kind, consumed, ran, told>>
        \/ \E c \in Callers : Step(c)
    BY DEF vars, Next, Fail, Begin, SignAndBroadcast, PaymentSettles, Expire, history
  <1> QED
    BY <1>1, <1>2, GateStutter, CallRefines

LEMMA InitRefines == Init => Single!Init
  <1> SUFFICES ASSUME Init PROVE Single!Init
    OBVIOUS
  <1>1. Grant = [d \in Decisions |-> None]
    BY DEF Init, Grant
  <1>2. \A d \in Decisions, k \in Keys : Effects(d, k) = {}
    BY DEF Init, Effects
  <1>3. EffectCount = [d \in Decisions |-> [k \in Keys |-> 0]]
    BY <1>2, FS_EmptySet DEF EffectCount
  <1>4. Reported = {}
    BY DEF Init, Reported
  <1> QED
    BY <1>1, <1>3, <1>4 DEF Single!Init

(* Every behaviour of each of the three gates is one of SingleExecution:   *)
(* a decision is used up for a key, the key has one side effect by it, and *)
(* what callers are told follows it, whatever calls race, fail and retry.  *)
THEOREM GatesImplementExecution == Spec => ImplementsExecution
  <1>1. IInv /\ [Next]_vars => [Single!Next]_(Single!vars)
    BY StepRefines
  <1> QED
    BY <1>1, InitRefines, Invariant, PTL DEF Spec, ImplementsExecution, Single!Spec
=============================================================================
