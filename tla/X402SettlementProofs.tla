------------------------ MODULE X402SettlementProofs ------------------------
(***************************************************************************)
(* Theorems about X402Settlement, for any number of calls, decisions,      *)
(* references and terms, with and without the journal: its type            *)
(* correctness, its safety invariants, its action property and its         *)
(* refinement of SingleExecution, all from one inductive invariant.        *)
(***************************************************************************)
EXTENDS X402Settlement, TLAPS

(* The awaits of a call that has claimed its operation. *)
Owning == {"settle", "await", "markSucceeded", "markFailed", "markUnknown"}

AfterConsume == Owning \cup {"start", "inspect"}
AfterPrepare == AfterConsume \cup {"consume"}
JournalOnly == {"prepare", "start", "inspect", "markSucceeded", "markFailed", "markUnknown"}

(* The operation of reference r is bound to decision d, which no step undoes. *)
Bound(d, r) == journal[r] # None /\ journal[r].decision = d
Unsettled(r) == \A d \in Decisions : settled[d][r] = 0

(* What a call has established by the await it is at: the terms are those  *)
(* the decision covers, the consumption is its own, the operation is bound *)
(* to it and claimed, nothing was settled before its own settle(), and the *)
(* outcome it is about to mark is true.                                    *)
CallerOK(c) ==
    LET x == caller[c]
        d == x.decision
        r == x.ref
    IN  x.pc # "idle" =>
            /\ d \in Decisions /\ r \in ExecRefs /\ x.terms = Covers[d]
            /\ x.pc \in JournalOnly => Journal
            /\ x.pc \in AfterConsume => consumed[d] = r
            /\ Journal =>
                /\ x.pc \in AfterPrepare => Bound(d, r)
                /\ x.pc \in Owning => journal[r].status # "prepared"
                /\ x.pc = "settle" => journal[r].status = "in_progress" /\ Unsettled(r)
                /\ x.pc = "markSucceeded" => PaidRef(r)
                /\ x.pc = "markFailed" => Refused(r)

(* At most one call is past the claim of an execution reference. *)
SoleOwner ==
    Journal => \A b, c \in Callers :
        b # c /\ caller[b].pc \in Owning /\ caller[c].pc \in Owning => caller[b].ref # caller[c].ref

(* Every request and payment is of a settle() call, which followed the     *)
(* consumption and, with the journal, was the only one of the operation.   *)
SettledOK ==
    \A d \in Decisions, r \in ExecRefs :
        /\ pending[d][r] + paid[d][r] <= settled[d][r]
        /\ settled[d][r] > 0 => consumed[d] = r
        /\ Journal /\ settled[d][r] > 0 =>
            settled[d][r] = 1 /\ Bound(d, r) /\ journal[r].status # "prepared"

(* A terminal operation is backed by what the rail did. *)
OperationOK ==
    Journal => \A r \in ExecRefs : journal[r] # None =>
        /\ journal[r].status = "succeeded" => PaidRef(r)
        /\ journal[r].status = "failed_final" => Refused(r)

ToldOK ==
    Journal => \A d \in Decisions, r \in ExecRefs :
        /\ <<d, r, "completed">> \in told => paid[d][r] > 0
        /\ <<d, r, "failed">> \in told => Bound(d, r) /\ journal[r].status = "failed_final"

RailOK ==
    RailIdempotent => \A d, e \in Decisions, r \in ExecRefs :
        paid[d][r] > 0 /\ paid[e][r] > 0 => d = e /\ paid[d][r] = 1

IInv ==
    /\ TypeOK
    /\ \A c \in Callers : CallerOK(c)
    /\ SoleOwner
    /\ SettledOK
    /\ OperationOK
    /\ ToldOK
    /\ RailOK
-----------------------------------------------------------------------------
(* What every step keeps                                                   *)

LEMMA ModeKept ==
    ASSUME UNCHANGED integration
    PROVE  (Journal' <=> Journal) /\ (RailIdempotent' <=> RailIdempotent)
  BY DEF Journal, RailIdempotent

(* A counter of one decision and reference changes, no other does. *)
LEMMA CountUp ==
    ASSUME NEW f \in Counters, NEW d \in Decisions, NEW r \in ExecRefs
    PROVE  /\ Count(f, d, r) \in Counters
           /\ \A e \in Decisions, s \in ExecRefs :
                Count(f, d, r)[e][s] = IF e = d /\ s = r THEN f[d][r] + 1 ELSE f[e][s]
  BY DEF Count, Counters

Less(f, d, r) == [f EXCEPT ![d][r] = @ - 1]

LEMMA CountDown ==
    ASSUME NEW f \in Counters, NEW d \in Decisions, NEW r \in ExecRefs, f[d][r] > 0
    PROVE  /\ Less(f, d, r) \in Counters
           /\ \A e \in Decisions, s \in ExecRefs :
                Less(f, d, r)[e][s] = IF e = d /\ s = r THEN f[d][r] - 1 ELSE f[e][s]
  <1>1. f[d][r] - 1 \in Nat
    BY DEF Counters
  <1> QED
    BY <1>1 DEF Counters, Less

(* Consumptions, bindings, claims and payments are never taken back. *)
Advances ==
    /\ UNCHANGED integration
    /\ \A d \in Decisions : consumed[d] # None => consumed'[d] = consumed[d]
    /\ \A r \in ExecRefs : journal[r] # None =>
        /\ journal'[r] # None /\ journal'[r].decision = journal[r].decision
        /\ journal[r].status # "prepared" => journal'[r].status # "prepared"
    /\ \A d \in Decisions, r \in ExecRefs : paid[d][r] > 0 => paid'[d][r] > 0

(* What a call knows that is not of that kind: before settle() nothing was *)
(* settled, and a refusal it is about to mark still stands.                *)
StillTrue(b) ==
    Journal => \A r \in ExecRefs : caller[b].ref = r =>
        /\ caller[b].pc = "settle" => journal'[r].status = "in_progress" /\ Unsettled(r)'
        /\ caller[b].pc = "markFailed" => Refused(r)'

LEMMA OthersKeep ==
    ASSUME NEW b \in Callers, CallerOK(b), caller'[b] = caller[b], Advances, StillTrue(b),
           consumed \in [Decisions -> ExecRefs \cup {None}]
    PROVE  CallerOK(b)'
  <1> SUFFICES ASSUME caller[b].pc # "idle" PROVE CallerOK(b)'
    BY DEF CallerOK
  <1>1. PICK d \in Decisions, r \in ExecRefs :
          d = caller[b].decision /\ r = caller[b].ref /\ caller[b].terms = Covers[d]
    BY DEF CallerOK
  <1>2. Journal' <=> Journal
    BY ModeKept DEF Advances
  <1>3. caller[b].pc \in JournalOnly => Journal
    BY DEF CallerOK
  <1>4. caller[b].pc \in AfterConsume => consumed'[d] = r
    BY <1>1, NoneAssumption DEF CallerOK, Advances
  <1>5. Journal /\ caller[b].pc \in AfterPrepare => Bound(d, r)'
    BY <1>1 DEF CallerOK, Advances, Bound
  <1>6. Journal /\ caller[b].pc \in Owning => journal'[r].status # "prepared"
    BY <1>1 DEF CallerOK, Advances, Bound, AfterPrepare, AfterConsume
  <1>7. Journal /\ caller[b].pc = "markSucceeded" => PaidRef(r)'
    BY <1>1 DEF CallerOK, Advances, PaidRef
  <1>8. /\ Journal /\ caller[b].pc = "settle" => journal'[r].status = "in_progress" /\ Unsettled(r)'
        /\ Journal /\ caller[b].pc = "markFailed" => Refused(r)'
    BY <1>1 DEF StillTrue
  <1> QED
    BY <1>1, <1>2, <1>3, <1>4, <1>5, <1>6, <1>7, <1>8 DEF CallerOK

LEMMA CallersKeep ==
    ASSUME IInv, NEW c \in Callers, NEW x \in Caller, caller' = [caller EXCEPT ![c] = x],
           CallerOK(c)', Advances, \A b \in Callers \ {c} : StillTrue(b)
    PROVE  \A b \in Callers : CallerOK(b)'
  <1>1. \A b \in Callers \ {c} : caller'[b] = caller[b]
    BY DEF IInv, TypeOK
  <1> QED
    BY <1>1, OthersKeep DEF IInv, TypeOK

LEMMA OwnersKeep ==
    ASSUME IInv, NEW c \in Callers, NEW x \in Caller, caller' = [caller EXCEPT ![c] = x],
           UNCHANGED integration,
           Journal /\ x.pc \in Owning => caller[c].pc \in Owning /\ x.ref = caller[c].ref
    PROVE  SoleOwner'
  <1>1. caller'[c] = x /\ \A b \in Callers \ {c} : caller'[b] = caller[b]
    BY DEF IInv, TypeOK
  <1> QED
    BY <1>1, ModeKept DEF IInv, SoleOwner

(* While the tables stay as they are, a call loses nothing it knows. *)
LEMMA TablesStay ==
    ASSUME IInv, UNCHANGED <<integration, journal, pending, paid, settled>>,
           \A d \in Decisions : consumed[d] # None => consumed'[d] = consumed[d]
    PROVE  Advances /\ \A b \in Callers : StillTrue(b)
  <1>1. Advances
    BY DEF Advances
  <1>2. ASSUME NEW b \in Callers PROVE StillTrue(b)
    <2>1. \A r \in ExecRefs : (Unsettled(r) => Unsettled(r)') /\ (Refused(r) => Refused(r)')
      BY DEF Unsettled, Refused
    <2> QED
      BY <2>1 DEF IInv, CallerOK, StillTrue
  <1> QED
    BY <1>1, <1>2

LEMMA IdleOK == Idle \in Caller /\ \A c \in Callers : caller'[c] = Idle => CallerOK(c)'
  BY DEF Idle, Caller, CallerOK
-----------------------------------------------------------------------------
(* Actions that leave journal and rail alone                               *)

(* The shape of those actions: one call moves on, its decision may be      *)
(* consumed, and what callers are told may grow.                           *)
LEMMA CallStep ==
    ASSUME IInv, NEW c \in Callers, NEW x \in Caller, caller' = [caller EXCEPT ![c] = x],
           CallerOK(c)', Journal /\ x.pc \in Owning => caller[c].pc \in Owning /\ x.ref = caller[c].ref,
           consumed' \in [Decisions -> ExecRefs \cup {None}],
           \A d \in Decisions : consumed[d] # None => consumed'[d] = consumed[d],
           told' \subseteq Decisions \X ExecRefs \X {"completed", "failed"}, ToldOK',
           UNCHANGED <<integration, expired, journal, pending, paid, settled>>
    PROVE  IInv'
  <1>1. TypeOK'
    BY DEF IInv, TypeOK
  <1>2. \A b \in Callers : CallerOK(b)'
    BY TablesStay, CallersKeep
  <1>3. SoleOwner'
    BY OwnersKeep
  <1>4. SettledOK'
    BY NoneAssumption, ModeKept DEF IInv, SettledOK, Bound
  <1>5. OperationOK' /\ RailOK'
    BY ModeKept DEF IInv, OperationOK, RailOK, PaidRef, Refused
  <1> QED
    BY <1>1, <1>2, <1>3, <1>4, <1>5 DEF IInv

LEMMA ToldKept ==
    ASSUME IInv, UNCHANGED <<integration, journal, paid, told>> PROVE ToldOK'
  BY ModeKept DEF IInv, ToldOK, Bound

(* A call ends and changes nothing. *)
LEMMA ReturnStep ==
    ASSUME IInv, NEW c \in Callers, Return(c),
           UNCHANGED <<integration, expired, consumed, journal, pending, paid, settled, told>>
    PROVE  IInv'
  <1>1. caller'[c] = Idle
    BY DEF Return, IInv, TypeOK
  <1> QED
    BY <1>1, IdleOK, ToldKept, CallStep DEF Return, IInv, TypeOK, Idle, Owning

(* A call moves to an await of which it knows nothing more than before. *)
LEMMA GotoStep ==
    ASSUME IInv, NEW c \in Callers, NEW pc, caller[c].pc # "idle", Goto(c, pc),
           [caller[c] EXCEPT !.pc = pc] \in Caller,
           Journal /\ pc \in Owning => caller[c].pc \in Owning /\ pc # "settle",
           pc \in JournalOnly => Journal,
           pc \in AfterConsume => consumed'[caller[c].decision] = caller[c].ref,
           Journal /\ pc \in AfterPrepare => Bound(caller[c].decision, caller[c].ref),
           Journal /\ pc = "markSucceeded" => PaidRef(caller[c].ref),
           Journal /\ pc = "markFailed" => Refused(caller[c].ref),
           consumed' \in [Decisions -> ExecRefs \cup {None}],
           \A d \in Decisions : consumed[d] # None => consumed'[d] = consumed[d],
           UNCHANGED <<integration, expired, journal, pending, paid, settled, told>>
    PROVE  IInv'
  <1> DEFINE x == [caller[c] EXCEPT !.pc = pc]
  <1>1. caller' = [caller EXCEPT ![c] = x] /\ caller'[c] = x
    BY DEF Goto, IInv, TypeOK
  <1>2. PICK d \in Decisions, r \in ExecRefs :
          d = caller[c].decision /\ r = caller[c].ref /\ caller[c].terms = Covers[d]
    BY DEF IInv, CallerOK
  <1>3. x.pc = pc /\ x.decision = d /\ x.ref = r /\ x.terms = Covers[d]
    BY <1>2 DEF IInv, TypeOK, Caller
  <1>4. Journal /\ pc \in Owning => journal'[r].status # "prepared"
    BY <1>2 DEF IInv, CallerOK
  <1>5. Journal' <=> Journal
    BY ModeKept
  <1>6. (Bound(d, r)' <=> Bound(d, r)) /\ (PaidRef(r)' <=> PaidRef(r)) /\ (Refused(r)' <=> Refused(r))
    BY DEF Bound, PaidRef, Refused
  <1> HIDE DEF x
  <1>7. CallerOK(c)'
    BY <1>1, <1>2, <1>3, <1>4, <1>5, <1>6 DEF CallerOK, Owning
  <1>8. Journal /\ x.pc \in Owning => caller[c].pc \in Owning /\ x.ref = caller[c].ref
    BY <1>2, <1>3
  <1> QED
    BY <1>1, <1>7, <1>8, ToldKept, CallStep DEF x, IInv, TypeOK

LEMMA BeginKeeps == ASSUME IInv, NEW c \in Callers, NEW q \in Requests, Begin(c, q) PROVE IInv'
  <1> DEFINE x == [pc |-> IF Journal THEN "prepare" ELSE "consume",
                   decision |-> q.decision, ref |-> q.ref, terms |-> q.requirements]
  <1>1. q.decision \in Decisions /\ q.ref \in ExecRefs /\ q.requirements = Covers[q.decision]
        /\ q.requirements \in Terms
    BY OptionsAssumption DEF Begin, VerifyBeforeSettlement, VerifyDecision, BindsAction
  <1>2. x \in Caller
    BY <1>1 DEF Caller
  <1>3. caller' = [caller EXCEPT ![c] = x] /\ caller'[c] = x
    BY DEF Begin, IInv, TypeOK
  <1>4. x.pc \in {"prepare", "consume"} /\ (x.pc = "prepare" <=> Journal)
    OBVIOUS
  <1>5. x.decision = q.decision /\ x.ref = q.ref /\ x.terms = q.requirements
    OBVIOUS
  <1> HIDE DEF x
  <1>6. UNCHANGED <<integration, expired, consumed, journal, pending, paid, settled, told>>
    BY DEF Begin
  <1>7. CallerOK(c)'
    BY <1>1, <1>3, <1>4, <1>5, <1>6, ModeKept
    DEF CallerOK, JournalOnly, AfterPrepare, AfterConsume, Owning
  <1> QED
    BY <1>2, <1>3, <1>4, <1>6, <1>7, ToldKept, CallStep DEF Owning, IInv, TypeOK

LEMMA FailKeeps == ASSUME IInv, NEW c \in Callers, Fail(c) PROVE IInv'
  BY ReturnStep DEF Fail

LEMMA ConsumeKeeps ==
    ASSUME IInv, NEW c \in Callers, Consume(c) \/ ConsumeUnanswered(c) PROVE IInv'
  <1> DEFINE d == caller[c].decision
             r == caller[c].ref
  <1>1. /\ caller[c].pc = "consume" /\ caller[c] \in Caller /\ d \in Decisions /\ r \in ExecRefs
        /\ Journal => Bound(d, r)
    BY DEF Consume, ConsumeUnanswered, IInv, TypeOK, CallerOK, AfterPrepare
  <1>2. UNCHANGED <<integration, expired, journal, pending, paid, settled, told>>
    BY DEF Consume, ConsumeUnanswered
  <1>3. CASE Return(c) /\ UNCHANGED consumed
    BY <1>2, <1>3, ReturnStep
  <1>4. CASE consumed[d] = None /\ consumed' = [consumed EXCEPT ![d] = r] /\ Return(c)
    <2>1. caller'[c] = Idle
      BY <1>4 DEF Return, IInv, TypeOK
    <2>2. /\ consumed' \in [Decisions -> ExecRefs \cup {None}]
          /\ \A e \in Decisions : consumed[e] # None => consumed'[e] = consumed[e]
      BY <1>1, <1>4 DEF IInv, TypeOK
    <2> QED
      BY <1>2, <1>4, <2>1, <2>2, IdleOK, ToldKept, CallStep DEF Return, IInv, TypeOK, Idle, Owning
  <1>5. CASE /\ consumed' = [consumed EXCEPT ![d] = r]
             /\ consumed[d] \in {None, r}
             /\ Goto(c, AfterConsumption)
    <2>1. /\ consumed' \in [Decisions -> ExecRefs \cup {None}] /\ consumed'[d] = r
          /\ \A e \in Decisions : consumed[e] # None => consumed'[e] = consumed[e]
      BY <1>1, <1>5 DEF IInv, TypeOK
    <2>2. PICK pc \in {"start", "settle"} :
            Goto(c, pc) /\ (pc = "start" <=> Journal) /\ [caller[c] EXCEPT !.pc = pc] \in Caller
      BY <1>1, <1>5 DEF AfterConsumption, Caller
    <2> QED
      BY <1>1, <1>2, <2>1, <2>2, GotoStep DEF Owning, JournalOnly
  <1>6. consumed[d] = r => consumed = [consumed EXCEPT ![d] = r]
    BY DEF IInv, TypeOK
  <1> QED
    BY <1>1, <1>3, <1>4, <1>5, <1>6 DEF Consume, ConsumeUnanswered, Rejoins
-----------------------------------------------------------------------------
(* Answers                                                                 *)

(* With the journal a payment of a reference is one of the decision its    *)
(* operation is bound to.                                                  *)
LEMMA PaidIsOwn ==
    ASSUME IInv, Journal, NEW d \in Decisions, NEW r \in ExecRefs, Bound(d, r), PaidRef(r)
    PROVE  paid[d][r] > 0
  <1>1. PICK e \in Decisions : paid[e][r] > 0
    BY DEF PaidRef
  <1>2. paid[e][r] \in Nat /\ pending[e][r] \in Nat /\ settled[e][r] \in Nat
    BY DEF IInv, TypeOK, Counters
  <1>3. settled[e][r] > 0
    BY <1>1, <1>2 DEF IInv, SettledOK
  <1> QED
    BY <1>1, <1>3 DEF IInv, SettledOK, Bound

(* A call ends with an answer that journal and rail bear out. *)
LEMMA TellStep ==
    ASSUME IInv, NEW c \in Callers, NEW outcome \in {"completed", "failed"},
           caller[c].pc # "idle", Return(c), Tell(c, outcome),
           Journal => /\ Bound(caller[c].decision, caller[c].ref)
                      /\ outcome = "completed" => PaidRef(caller[c].ref)
                      /\ outcome = "failed" => journal[caller[c].ref].status = "failed_final",
           UNCHANGED <<integration, expired, consumed, journal, pending, paid, settled>>
    PROVE  IInv'
  <1>1. PICK d \in Decisions, r \in ExecRefs : d = caller[c].decision /\ r = caller[c].ref
    BY DEF IInv, CallerOK
  <1>2. told' = told \cup {<<d, r, outcome>>}
    BY <1>1 DEF Tell
  <1>3. told' \subseteq Decisions \X ExecRefs \X {"completed", "failed"}
    BY <1>1, <1>2 DEF IInv, TypeOK
  <1>4. ToldOK'
    <2> SUFFICES ASSUME Journal, NEW e \in Decisions, NEW s \in ExecRefs
                 PROVE  /\ <<e, s, "completed">> \in told' => paid[e][s] > 0
                        /\ <<e, s, "failed">> \in told' => Bound(e, s) /\ journal[s].status = "failed_final"
      BY ModeKept DEF ToldOK, Bound
    <2>1. CASE e = d /\ s = r
      BY <1>1, <1>2, <2>1, PaidIsOwn DEF IInv, ToldOK
    <2>2. CASE ~(e = d /\ s = r)
      BY <1>2, <2>2 DEF IInv, ToldOK
    <2> QED
      BY <2>1, <2>2
  <1>5. caller'[c] = Idle
    BY DEF Return, IInv, TypeOK
  <1> QED
    BY <1>3, <1>4, <1>5, IdleOK, CallStep DEF Return, IInv, TypeOK, Idle, Owning

LEMMA InspectKeeps == ASSUME IInv, NEW c \in Callers, Inspect(c) PROVE IInv'
  <1>1. /\ Journal /\ Bound(caller[c].decision, caller[c].ref) /\ caller[c].pc = "inspect"
        /\ caller[c].ref \in ExecRefs
    BY DEF Inspect, IInv, CallerOK, JournalOnly, AfterPrepare, AfterConsume
  <1>2. Return(c) /\ UNCHANGED <<integration, expired, consumed, journal, pending, paid, settled>>
    BY DEF Inspect
  <1>3. CASE UNCHANGED told
    BY <1>2, <1>3, ReturnStep
  <1>4. CASE journal[caller[c].ref].status = "succeeded" /\ Tell(c, "completed")
    BY <1>1, <1>2, <1>4, TellStep DEF IInv, OperationOK, Bound
  <1>5. CASE journal[caller[c].ref].status = "failed_final" /\ Tell(c, "failed")
    BY <1>1, <1>2, <1>5, TellStep
  <1> QED
    BY <1>1, <1>3, <1>4, <1>5 DEF Inspect, Terminal

LEMMA SettleReturnsKeeps == ASSUME IInv, NEW c \in Callers, SettleReturns(c) PROVE IInv'
  <1>1. /\ caller[c].pc = "await" /\ caller[c] \in Caller /\ PaidRef(caller[c].ref)
        /\ consumed[caller[c].decision] = caller[c].ref
        /\ Journal => Bound(caller[c].decision, caller[c].ref)
    BY DEF SettleReturns, IInv, TypeOK, CallerOK, AfterPrepare, AfterConsume, Owning
  <1>2. UNCHANGED <<integration, expired, consumed, journal, pending, paid, settled>>
    BY DEF SettleReturns
  <1>3. CASE Journal
    <2>1. Goto(c, "markSucceeded") /\ UNCHANGED told /\ [caller[c] EXCEPT !.pc = "markSucceeded"] \in Caller
      BY <1>1, <1>3 DEF SettleReturns, Caller
    <2> QED
      BY <1>1, <1>2, <1>3, <2>1, GotoStep DEF Owning, IInv, TypeOK
  <1>4. CASE ~Journal
    BY <1>1, <1>2, <1>4, TellStep DEF SettleReturns
  <1> QED
    BY <1>3, <1>4

LEMMA SettleThrowsKeeps == ASSUME IInv, NEW c \in Callers, SettleThrows(c) PROVE IInv'
  <1>1. /\ caller[c].pc = "await" /\ caller[c] \in Caller
        /\ consumed[caller[c].decision] = caller[c].ref
        /\ Journal => Bound(caller[c].decision, caller[c].ref)
    BY DEF SettleThrows, IInv, TypeOK, CallerOK, AfterPrepare, AfterConsume, Owning
  <1>2. UNCHANGED <<integration, expired, consumed, journal, pending, paid, settled, told>>
    BY DEF SettleThrows
  <1>3. CASE Journal
    <2>1. PICK pc \in {"markFailed", "markUnknown"} :
            Goto(c, pc) /\ (pc = "markFailed" => Refused(caller[c].ref))
      BY <1>3 DEF SettleThrows, Classification
    <2>2. [caller[c] EXCEPT !.pc = pc] \in Caller
      BY <1>1 DEF Caller
    <2> QED
      BY <1>1, <1>2, <1>3, <2>1, <2>2, GotoStep DEF Owning, IInv, TypeOK
  <1>4. CASE ~Journal
    BY <1>2, <1>4, ReturnStep DEF SettleThrows
  <1> QED
    BY <1>3, <1>4

-----------------------------------------------------------------------------
(* Actions that write an operation                                         *)

(* One row changes, keeps its binding and does not go back. *)
LEMMA RowStep ==
    ASSUME IInv, NEW r \in ExecRefs, NEW op \in Operation,
           journal' = [journal EXCEPT ![r] = op],
           journal[r] # None =>
               /\ op.decision = journal[r].decision
               /\ journal[r].status # "prepared" => op.status # "prepared"
               /\ journal[r].status # "failed_final",
           op.status = "succeeded" => PaidRef(r),
           op.status = "failed_final" => Refused(r),
           UNCHANGED <<integration, consumed, pending, paid, settled>>
    PROVE  /\ journal' \in [ExecRefs -> Operation \cup {None}]
           /\ Advances
           /\ \A b \in Callers :
                 (Journal /\ caller[b].pc = "settle" => caller[b].ref # r) => StillTrue(b)
           /\ SettledOK' /\ OperationOK' /\ RailOK'
           /\ Journal => \A d \in Decisions, s \in ExecRefs : <<d, s, "failed">> \in told =>
                  Bound(d, s)' /\ journal'[s].status = "failed_final"
  <1>1. journal'[r] = op /\ op # None /\ \A s \in ExecRefs \ {r} : journal'[s] = journal[s]
    BY NoOperationAssumption DEF IInv, TypeOK
  <1>2. journal' \in [ExecRefs -> Operation \cup {None}]
    BY DEF IInv, TypeOK
  <1>3. Advances
    BY <1>1 DEF Advances
  <1>4. ASSUME NEW b \in Callers, Journal /\ caller[b].pc = "settle" => caller[b].ref # r
        PROVE  StillTrue(b)
    <2>1. \A s \in ExecRefs : (Unsettled(s) => Unsettled(s)') /\ (Refused(s) => Refused(s)')
      BY DEF Unsettled, Refused
    <2> QED
      BY <1>1, <1>4, <2>1 DEF IInv, CallerOK, StillTrue
  <1>5. SettledOK'
    <2> SUFFICES ASSUME NEW d \in Decisions, NEW s \in ExecRefs, settled[d][s] > 0, Journal
                 PROVE  settled[d][s] = 1 /\ Bound(d, s)' /\ journal'[s].status # "prepared"
      BY ModeKept DEF IInv, SettledOK
    <2>1. settled[d][s] = 1 /\ Bound(d, s) /\ journal[s].status # "prepared"
      BY DEF IInv, SettledOK
    <2> QED
      BY <1>1, <2>1 DEF Bound
  <1>6. OperationOK'
    <2>1. \A s \in ExecRefs : (PaidRef(s)' <=> PaidRef(s)) /\ (Refused(s)' <=> Refused(s))
      BY DEF PaidRef, Refused
    <2> QED
      BY <1>1, <2>1, ModeKept DEF IInv, OperationOK
  <1>7. RailOK'
    BY ModeKept DEF IInv, RailOK
  <1>8. Journal => \A d \in Decisions, s \in ExecRefs : <<d, s, "failed">> \in told =>
            Bound(d, s)' /\ journal'[s].status = "failed_final"
    <2> SUFFICES ASSUME Journal, NEW d \in Decisions, NEW s \in ExecRefs, <<d, s, "failed">> \in told
                 PROVE  Bound(d, s)' /\ journal'[s].status = "failed_final"
      OBVIOUS
    <2>1. Bound(d, s) /\ journal[s].status = "failed_final"
      BY DEF IInv, ToldOK
    <2> QED
      BY <1>1, <2>1 DEF Bound
  <1> QED
    BY <1>2, <1>3, <1>4, <1>5, <1>6, <1>7, <1>8

LEMMA PrepareKeeps == ASSUME IInv, NEW c \in Callers, Prepare(c) PROVE IInv'
  <1>1. PICK d \in Decisions, r \in ExecRefs : d = caller[c].decision /\ r = caller[c].ref
    BY DEF Prepare, IInv, CallerOK
  <1>2. /\ caller[c].pc = "prepare" /\ caller[c] \in Caller /\ Journal /\ caller[c].terms = Covers[d]
        /\ [caller[c] EXCEPT !.pc = "consume"] \in Caller
    BY <1>1 DEF Prepare, IInv, TypeOK, CallerOK, JournalOnly, Caller
  <1>3. UNCHANGED <<integration, expired, consumed, pending, paid, settled, told>>
    BY DEF Prepare
  <1>4. CASE Return(c) /\ UNCHANGED journal
    BY <1>3, <1>4, ReturnStep
  <1>5. CASE Bound(d, r) /\ Goto(c, "consume") /\ UNCHANGED journal
    BY <1>1, <1>2, <1>3, <1>5, GotoStep DEF Owning, JournalOnly, AfterConsume, IInv, TypeOK
  <1>6. CASE journal[r] = None /\ journal' = [journal EXCEPT ![r] = NewOperation(d)] /\ Goto(c, "consume")
    <2> DEFINE x == [caller[c] EXCEPT !.pc = "consume"]
               op == NewOperation(d)
    <2>1. caller' = [caller EXCEPT ![c] = x] /\ caller'[c] = x
      BY <1>6 DEF Goto, IInv, TypeOK
    <2>2. x.pc = "consume" /\ x.decision = d /\ x.ref = r /\ x.terms = Covers[d]
      BY <1>1, <1>2 DEF Caller
    <2>3. op \in Operation /\ op.decision = d /\ op.status = "prepared" /\ op # None
      BY NoOperationAssumption DEF NewOperation, Operation, Statuses
    <2> HIDE DEF x, op
    <2>4. /\ journal' \in [ExecRefs -> Operation \cup {None}] /\ Advances
          /\ \A b \in Callers :
                 (Journal /\ caller[b].pc = "settle" => caller[b].ref # r) => StillTrue(b)
          /\ SettledOK' /\ OperationOK' /\ RailOK'
          /\ Journal => \A e \in Decisions, s \in ExecRefs : <<e, s, "failed">> \in told =>
                 Bound(e, s)' /\ journal'[s].status = "failed_final"
      BY <1>2, <1>3, <1>6, <2>3, RowStep DEF op
    <2>5. \A b \in Callers : caller[b].pc = "settle" => caller[b].ref # r
      BY <1>2, <1>6 DEF IInv, CallerOK, Bound, AfterPrepare, AfterConsume, Owning
    <2>6. Bound(d, r)'
      BY <1>6, <2>3 DEF Bound, op, IInv, TypeOK
    <2>7. CallerOK(c)'
      BY <1>2, <2>1, <2>2, <2>6 DEF CallerOK, JournalOnly, AfterConsume, Owning
    <2>8. \A b \in Callers : CallerOK(b)'
      BY <1>2, <2>1, <2>4, <2>5, <2>7, CallersKeep DEF x
    <2>9. SoleOwner'
      BY <1>2, <1>3, <2>1, <2>2, OwnersKeep DEF x, Owning
    <2>10. ToldOK'
      BY <1>2, <1>3, <2>4 DEF IInv, ToldOK
    <2>11. TypeOK'
      BY <1>2, <1>3, <2>1, <2>4 DEF IInv, TypeOK, x
    <2> QED
      BY <2>4, <2>8, <2>9, <2>10, <2>11 DEF IInv
  <1> QED
    BY <1>1, <1>4, <1>5, <1>6 DEF Prepare, SameIdentity, Bound
LEMMA StartKeeps == ASSUME IInv, NEW c \in Callers, Start(c) PROVE IInv'
  <1>1. PICK d \in Decisions, r \in ExecRefs : d = caller[c].decision /\ r = caller[c].ref
    BY DEF Start, IInv, CallerOK
  <1>2. /\ caller[c].pc = "start" /\ caller[c] \in Caller /\ Journal /\ caller[c].terms = Covers[d]
        /\ consumed[d] = r /\ Bound(d, r)
    BY <1>1 DEF Start, IInv, TypeOK, CallerOK, JournalOnly, AfterPrepare, AfterConsume
  <1>3. UNCHANGED <<integration, expired, consumed, pending, paid, settled, told>>
    BY DEF Start
  <1>4. CASE Goto(c, "inspect") /\ UNCHANGED journal
    <2>1. [caller[c] EXCEPT !.pc = "inspect"] \in Caller
      BY <1>2 DEF Caller
    <2> QED
      BY <1>1, <1>2, <1>3, <1>4, <2>1, GotoStep DEF Owning, IInv, TypeOK
  <1>5. CASE /\ journal[r].status = "prepared" /\ Goto(c, "settle")
             /\ journal' = [journal EXCEPT ![r] =
                    [journal[r] EXCEPT !.status = "in_progress", !.attempts = @ + 1]]
    <2> DEFINE x == [caller[c] EXCEPT !.pc = "settle"]
               op == [journal[r] EXCEPT !.status = "in_progress", !.attempts = @ + 1]
    <2>1. caller' = [caller EXCEPT ![c] = x] /\ caller'[c] = x /\ x \in Caller
      BY <1>2, <1>5 DEF Goto, IInv, TypeOK, Caller
    <2>2. x.pc = "settle" /\ x.decision = d /\ x.ref = r /\ x.terms = Covers[d]
      BY <1>1, <1>2 DEF Caller
    <2>3. journal[r] \in Operation
      BY <1>2 DEF Bound, IInv, TypeOK
    <2>4. op \in Operation /\ op.decision = journal[r].decision /\ op.status = "in_progress" /\ op # None
      <3>1. journal[r].attempts + 1 \in Nat
        BY <2>3 DEF Operation
      <3>2. op \in Operation
        BY <2>3, <3>1 DEF Operation, Statuses
      <3>3. op.decision = journal[r].decision /\ op.status = "in_progress"
        BY <2>3 DEF Operation
      <3> QED
        BY <3>2, <3>3, NoOperationAssumption
    <2>5. journal' = [journal EXCEPT ![r] = op]
      BY <1>5
    <2> HIDE DEF x, op
    <2>6. /\ journal' \in [ExecRefs -> Operation \cup {None}] /\ Advances
          /\ \A b \in Callers :
                 (Journal /\ caller[b].pc = "settle" => caller[b].ref # r) => StillTrue(b)
          /\ SettledOK' /\ OperationOK' /\ RailOK'
          /\ Journal => \A e \in Decisions, s \in ExecRefs : <<e, s, "failed">> \in told =>
                 Bound(e, s)' /\ journal'[s].status = "failed_final"
      <3>1. /\ op.decision = journal[r].decision
            /\ op.status # "prepared" /\ op.status # "succeeded" /\ op.status # "failed_final"
            /\ journal[r].status # "failed_final"
        BY <1>5, <2>4
      <3> QED
        BY <1>3, <2>4, <2>5, <3>1, RowStep
    <2>7. \A b \in Callers : caller[b].pc \in Owning => caller[b].ref # r
      BY <1>2, <1>5 DEF IInv, CallerOK, Owning
    <2>8. journal'[r].status = "in_progress" /\ Bound(d, r)'
      BY <1>2, <2>4, <2>5 DEF Bound, IInv, TypeOK
    <2>9. Unsettled(r)'
      <3>1. \A e \in Decisions : settled[e][r] \in Nat
        BY DEF IInv, TypeOK, Counters
      <3> QED
        BY <1>3, <1>2, <1>5, <3>1 DEF IInv, SettledOK, Unsettled
    <2>10. CallerOK(c)'
      BY <1>2, <1>3, <2>1, <2>2, <2>8, <2>9 DEF CallerOK, JournalOnly
    <2>11. \A b \in Callers : CallerOK(b)'
      BY <2>1, <2>6, <2>7, <2>10, CallersKeep DEF Owning
    <2>12. SoleOwner'
      <3>1. \A b \in Callers \ {c} : caller'[b] = caller[b]
        BY <2>1 DEF IInv, TypeOK
      <3> QED
        BY <1>2, <1>3, <2>1, <2>2, <2>7, <3>1, ModeKept DEF IInv, SoleOwner
    <2>13. ToldOK'
      BY <1>2, <1>3, <2>6 DEF IInv, ToldOK
    <2>14. TypeOK'
      BY <1>3, <2>1, <2>6 DEF IInv, TypeOK
    <2> QED
      BY <2>6, <2>11, <2>12, <2>13, <2>14 DEF IInv
  <1> QED
    BY <1>1, <1>4, <1>5 DEF Start, Claimable

(* The executor marks its operation and returns. *)
LEMMA MarkStep ==
    ASSUME IInv, NEW c \in Callers, Return(c),
           caller[c].pc \in {"markSucceeded", "markFailed", "markUnknown"},
           Markable(journal[caller[c].ref]),
           NEW status \in {"succeeded", "failed_final", "outcome_unknown"},
           NEW outcome \in {"none", "guard", "operator"},
           SetStatus(caller[c].ref, status, outcome),
           status = "succeeded" => PaidRef(caller[c].ref),
           status = "failed_final" => Refused(caller[c].ref),
           \/ UNCHANGED told
           \/ status = "succeeded" /\ Tell(c, "completed")
           \/ status = "failed_final" /\ Tell(c, "failed"),
           UNCHANGED <<integration, expired, consumed, pending, paid, settled>>
    PROVE  IInv'
  <1>1. PICK d \in Decisions, r \in ExecRefs : d = caller[c].decision /\ r = caller[c].ref
    BY DEF IInv, CallerOK
  <1>2. Journal /\ Bound(d, r) /\ journal[r] \in Operation /\ caller[c].pc \in Owning
        /\ journal[r].status = "in_progress"
    BY <1>1 DEF IInv, TypeOK, CallerOK, Bound, JournalOnly, AfterPrepare, AfterConsume, Owning, Markable
  <1> DEFINE op == [journal[r] EXCEPT !.status = status, !.outcome = outcome]
  <1>3. op \in Operation /\ op.decision = journal[r].decision /\ op.status = status /\ op # None
    BY <1>2, NoOperationAssumption DEF Operation, Statuses
  <1>4. journal' = [journal EXCEPT ![r] = op]
    BY <1>1 DEF SetStatus
  <1> HIDE DEF op
  <1>5. /\ journal' \in [ExecRefs -> Operation \cup {None}] /\ Advances
        /\ \A b \in Callers :
                 (Journal /\ caller[b].pc = "settle" => caller[b].ref # r) => StillTrue(b)
        /\ SettledOK' /\ OperationOK' /\ RailOK'
        /\ Journal => \A e \in Decisions, s \in ExecRefs : <<e, s, "failed">> \in told =>
               Bound(e, s)' /\ journal'[s].status = "failed_final"
    BY <1>1, <1>2, <1>3, <1>4, RowStep
  <1>6. caller' = [caller EXCEPT ![c] = Idle] /\ caller'[c] = Idle
    BY DEF Return, IInv, TypeOK
  <1>7. \A b \in Callers \ {c} : caller[b].pc = "settle" => caller[b].ref # r
    BY <1>1, <1>2 DEF IInv, SoleOwner, Owning
  <1>8. \A b \in Callers : CallerOK(b)'
    BY <1>5, <1>6, <1>7, IdleOK, CallersKeep
  <1>9. SoleOwner'
    BY <1>6, IdleOK, OwnersKeep DEF Idle, Owning
  <1>10. told' \subseteq Decisions \X ExecRefs \X {"completed", "failed"}
    BY <1>1 DEF IInv, TypeOK, Tell
  <1>11. ToldOK'
    <2> SUFFICES ASSUME NEW e \in Decisions, NEW s \in ExecRefs
                 PROVE  /\ <<e, s, "completed">> \in told' => paid[e][s] > 0
                        /\ <<e, s, "failed">> \in told' => Bound(e, s)' /\ journal'[s].status = "failed_final"
      BY DEF ToldOK
    <2>1. <<e, s, "completed">> \in told' =>
            <<e, s, "completed">> \in told \/ (e = d /\ s = r /\ status = "succeeded")
      BY <1>1 DEF Tell
    <2>2. <<e, s, "failed">> \in told' =>
            <<e, s, "failed">> \in told \/ (e = d /\ s = r /\ status = "failed_final")
      BY <1>1 DEF Tell
    <2>3. status = "succeeded" => paid[d][r] > 0
      BY <1>1, <1>2, PaidIsOwn
    <2>4. Bound(d, r)' /\ journal'[r].status = status
      BY <1>2, <1>3, <1>4 DEF Bound, IInv, TypeOK
    <2>5. <<e, s, "completed">> \in told => paid[e][s] > 0
      BY <1>2 DEF IInv, ToldOK
    <2>6. <<e, s, "failed">> \in told => Bound(e, s)' /\ journal'[s].status = "failed_final"
      BY <1>2, <1>5
    <2>7. CASE e = d /\ s = r
      BY <2>1, <2>2, <2>3, <2>4, <2>5, <2>6, <2>7
    <2>8. CASE ~(e = d /\ s = r)
      BY <2>1, <2>2, <2>5, <2>6, <2>8
    <2> QED
      BY <2>7, <2>8
  <1>12. TypeOK'
    BY <1>5, <1>6, <1>10, IdleOK DEF IInv, TypeOK
  <1> QED
    BY <1>5, <1>8, <1>9, <1>11, <1>12 DEF IInv

LEMMA MarkSucceededKeeps == ASSUME IInv, NEW c \in Callers, MarkSucceeded(c) PROVE IInv'
  <1>1. /\ caller[c].pc = "markSucceeded" /\ Journal /\ PaidRef(caller[c].ref)
        /\ Bound(caller[c].decision, caller[c].ref)
    BY DEF MarkSucceeded, IInv, CallerOK, JournalOnly, AfterPrepare, AfterConsume, Owning
  <1>2. Return(c) /\ UNCHANGED <<integration, expired, consumed, pending, paid, settled>>
    BY DEF MarkSucceeded
  <1>3. CASE /\ Markable(journal[caller[c].ref]) /\ SetStatus(caller[c].ref, "succeeded", "guard")
             /\ Tell(c, "completed")
    BY <1>1, <1>2, <1>3, MarkStep
  <1>4. CASE UNCHANGED journal /\ Tell(c, "completed")
    BY <1>1, <1>2, <1>4, TellStep
  <1>5. CASE UNCHANGED <<journal, told>>
    BY <1>2, <1>5, ReturnStep
  <1> QED
    BY <1>3, <1>4, <1>5 DEF MarkSucceeded

LEMMA MarkFailedFinalKeeps == ASSUME IInv, NEW c \in Callers, MarkFailedFinal(c) PROVE IInv'
  <1>1. /\ caller[c].pc = "markFailed" /\ Journal /\ Refused(caller[c].ref)
        /\ Bound(caller[c].decision, caller[c].ref)
    BY DEF MarkFailedFinal, IInv, CallerOK, JournalOnly, AfterPrepare, AfterConsume, Owning
  <1>2. Return(c) /\ UNCHANGED <<integration, expired, consumed, pending, paid, settled>>
    BY DEF MarkFailedFinal
  <1>3. CASE /\ Markable(journal[caller[c].ref]) /\ SetStatus(caller[c].ref, "failed_final", "none")
             /\ Tell(c, "failed")
    BY <1>1, <1>2, <1>3, MarkStep
  <1>4. CASE UNCHANGED journal /\ journal[caller[c].ref].status = "failed_final" /\ Tell(c, "failed")
    BY <1>1, <1>2, <1>4, TellStep
  <1>5. CASE UNCHANGED <<journal, told>>
    BY <1>2, <1>5, ReturnStep
  <1> QED
    BY <1>3, <1>4, <1>5 DEF MarkFailedFinal

LEMMA MarkOutcomeUnknownKeeps == ASSUME IInv, NEW c \in Callers, MarkOutcomeUnknown(c) PROVE IInv'
  <1>1. /\ caller[c].pc = "markUnknown" /\ caller[c].ref \in ExecRefs
        /\ Bound(caller[c].decision, caller[c].ref)
    BY DEF MarkOutcomeUnknown, IInv, CallerOK, JournalOnly, AfterPrepare, AfterConsume, Owning
  <1>2. Return(c) /\ UNCHANGED <<integration, expired, consumed, pending, paid, settled, told>>
    BY DEF MarkOutcomeUnknown
  <1>3. CASE Markable(journal[caller[c].ref])
    <2>1. journal[caller[c].ref].outcome \in {"none", "guard", "operator"}
      BY <1>1 DEF IInv, TypeOK, Bound, Operation
    <2>2. SetStatus(caller[c].ref, "outcome_unknown", journal[caller[c].ref].outcome)
      BY <1>3 DEF MarkOutcomeUnknown
    <2> QED
      BY <1>1, <1>2, <1>3, <2>1, <2>2, MarkStep
  <1>4. CASE UNCHANGED journal
    BY <1>2, <1>4, ReturnStep
  <1> QED
    BY <1>3, <1>4 DEF MarkOutcomeUnknown
-----------------------------------------------------------------------------
(* The rail, the operator and time                                         *)

LEMMA SettleKeeps == ASSUME IInv, NEW c \in Callers, Settle(c) PROVE IInv'
  <1>1. PICK d \in Decisions, r \in ExecRefs : d = caller[c].decision /\ r = caller[c].ref
    BY DEF Settle, IInv, CallerOK
  <1>2. /\ caller[c].pc = "settle" /\ caller[c] \in Caller /\ caller[c].terms = Covers[d]
        /\ consumed[d] = r
        /\ Journal => Bound(d, r) /\ Unsettled(r) /\ journal[r].status = "in_progress"
    BY <1>1 DEF Settle, IInv, TypeOK, CallerOK, AfterPrepare, AfterConsume, Owning
  <1>3. UNCHANGED <<integration, expired, consumed, journal, paid, told>>
    BY DEF Settle
  <1> DEFINE x == [caller[c] EXCEPT !.pc = "await"]
  <1>4. caller' = [caller EXCEPT ![c] = x] /\ caller'[c] = x /\ x \in Caller
    BY <1>2 DEF Settle, Goto, IInv, TypeOK, Caller
  <1>5. x.pc = "await" /\ x.decision = d /\ x.ref = r /\ x.terms = Covers[d]
    BY <1>1, <1>2 DEF Caller
  <1> HIDE DEF x
  <1>6. \A e \in Decisions, s \in ExecRefs :
          settled[e][s] \in Nat /\ pending[e][s] \in Nat /\ paid[e][s] \in Nat
    BY DEF IInv, TypeOK, Counters
  <1>7. /\ settled' \in Counters
        /\ \A e \in Decisions, s \in ExecRefs :
             settled'[e][s] = IF e = d /\ s = r THEN settled[d][r] + 1 ELSE settled[e][s]
    <2>1. settled' = Count(settled, d, r) /\ settled \in Counters
      BY <1>1 DEF Settle, IInv, TypeOK
    <2> QED
      BY <2>1, CountUp
  <1>8. /\ pending' \in Counters
        /\ \A e \in Decisions, s \in ExecRefs :
             pending'[e][s] = IF e = d /\ s = r THEN pending[d][r] + 1 ELSE pending[e][s]
    <2>1. pending' = Count(pending, d, r) /\ pending \in Counters
      BY <1>1 DEF Settle, IInv, TypeOK
    <2> QED
      BY <2>1, CountUp
  <1>9. Advances
    BY <1>3 DEF Advances
  <1>10. \A b \in Callers \ {c} : Journal /\ caller[b].pc \in Owning => caller[b].ref # r
    BY <1>1, <1>2 DEF IInv, SoleOwner, Owning
  <1>11. \A b \in Callers \ {c} : StillTrue(b)
    <2>1. \A s \in ExecRefs \ {r} : (Unsettled(s) => Unsettled(s)') /\ (Refused(s) => Refused(s)')
      BY <1>3, <1>7, <1>8 DEF Unsettled, Refused
    <2> QED
      BY <1>3, <1>10, <2>1 DEF IInv, CallerOK, StillTrue, Owning
  <1>12. Bound(d, r)' <=> Bound(d, r)
    BY <1>3 DEF Bound
  <1>13. CallerOK(c)'
    BY <1>2, <1>3, <1>4, <1>5, <1>12, ModeKept DEF CallerOK, JournalOnly
  <1>14. \A b \in Callers : CallerOK(b)'
    BY <1>4, <1>9, <1>11, <1>13, CallersKeep
  <1>15. SoleOwner'
    BY <1>1, <1>2, <1>3, <1>4, <1>5, OwnersKeep DEF Owning
  <1>16. SettledOK'
    <2> SUFFICES ASSUME NEW e \in Decisions, NEW s \in ExecRefs
                 PROVE  /\ pending'[e][s] + paid[e][s] <= settled'[e][s]
                        /\ settled'[e][s] > 0 => consumed[e] = s
                        /\ Journal /\ settled'[e][s] > 0 =>
                            settled'[e][s] = 1 /\ Bound(e, s) /\ journal[s].status # "prepared"
      BY <1>3, ModeKept DEF SettledOK, Bound
    <2>1. /\ pending[e][s] + paid[e][s] <= settled[e][s]
          /\ settled[e][s] > 0 => consumed[e] = s
          /\ Journal /\ settled[e][s] > 0 =>
              settled[e][s] = 1 /\ Bound(e, s) /\ journal[s].status # "prepared"
      BY DEF IInv, SettledOK
    <2>2. CASE e = d /\ s = r
      BY <1>2, <1>6, <1>7, <1>8, <2>1, <2>2 DEF Unsettled
    <2>3. CASE ~(e = d /\ s = r)
      BY <1>7, <1>8, <2>1, <2>3
    <2> QED
      BY <2>2, <2>3
  <1>17. OperationOK'
    <2>1. \A s \in ExecRefs : PaidRef(s)' <=> PaidRef(s)
      BY <1>3 DEF PaidRef
    <2>2. \A s \in ExecRefs \ {r} : Refused(s)' <=> Refused(s)
      BY <1>3, <1>8 DEF Refused
    <2> QED
      BY <1>2, <1>3, <2>1, <2>2, ModeKept DEF IInv, OperationOK
  <1>18. ToldOK' /\ RailOK'
    BY <1>3, ToldKept, ModeKept DEF IInv, RailOK
  <1>19. TypeOK'
    BY <1>3, <1>4, <1>7, <1>8 DEF IInv, TypeOK
  <1> QED
    BY <1>14, <1>15, <1>16, <1>17, <1>18, <1>19 DEF IInv

(* The rail decides a request: it disappears, and may become a payment. *)
LEMMA RailStep ==
    ASSUME IInv, NEW d \in Decisions, NEW r \in ExecRefs, pending[d][r] > 0,
           pending' = [pending EXCEPT ![d][r] = @ - 1],
           \/ UNCHANGED paid
           \/ ~(RailIdempotent /\ PaidRef(r)) /\ paid' = Count(paid, d, r),
           UNCHANGED <<integration, expired, consumed, journal, caller, settled, told>>
    PROVE  IInv'
  <1>1. \A e \in Decisions, s \in ExecRefs :
          settled[e][s] \in Nat /\ pending[e][s] \in Nat /\ paid[e][s] \in Nat
    BY DEF IInv, TypeOK, Counters
  <1>2. /\ pending' \in Counters
        /\ \A e \in Decisions, s \in ExecRefs :
             pending'[e][s] = IF e = d /\ s = r THEN pending[d][r] - 1 ELSE pending[e][s]
    <2>1. pending \in Counters /\ pending' = Less(pending, d, r)
      BY DEF IInv, TypeOK, Less
    <2>2. /\ Less(pending, d, r) \in Counters
          /\ \A e \in Decisions, s \in ExecRefs :
               Less(pending, d, r)[e][s] = IF e = d /\ s = r THEN pending[d][r] - 1 ELSE pending[e][s]
      BY <2>1, CountDown
    <2> QED
      BY <2>1, <2>2
  <1>3. /\ paid' \in Counters
        /\ \A e \in Decisions, s \in ExecRefs : ~(e = d /\ s = r) => paid'[e][s] = paid[e][s]
        /\ \/ paid'[d][r] = paid[d][r]
           \/ ~(RailIdempotent /\ PaidRef(r)) /\ paid'[d][r] = paid[d][r] + 1
    <2>1. CASE UNCHANGED paid
      BY <2>1 DEF IInv, TypeOK
    <2>2. CASE ~(RailIdempotent /\ PaidRef(r)) /\ paid' = Count(paid, d, r)
      <3>1. paid \in Counters
        BY DEF IInv, TypeOK
      <3> QED
        BY <2>2, <3>1, CountUp
    <2> QED
      BY <2>1, <2>2
  <1>4. Advances
    BY <1>1, <1>3 DEF Advances
  <1>5. ~Refused(r)
    BY <1>1 DEF Refused
  <1>6. \A s \in ExecRefs : (PaidRef(s) => PaidRef(s)') /\ (Refused(s) => Refused(s)')
    <2>1. \A s \in ExecRefs : PaidRef(s) => PaidRef(s)'
      BY <1>1, <1>3 DEF PaidRef
    <2>2. \A s \in ExecRefs : Refused(s) => Refused(s)'
      BY <1>2, <1>3, <1>5 DEF Refused
    <2> QED
      BY <2>1, <2>2
  <1>7. \A b \in Callers : StillTrue(b)
    <2>1. \A s \in ExecRefs : Unsettled(s)' <=> Unsettled(s)
      BY DEF Unsettled
    <2> QED
      BY <1>6, <2>1 DEF IInv, CallerOK, StillTrue
  <1>8. \A b \in Callers : CallerOK(b)'
    BY <1>4, <1>7, OthersKeep DEF IInv, TypeOK
  <1>9. SoleOwner'
    BY ModeKept DEF IInv, SoleOwner
  <1>10. SettledOK'
    <2>1. \A e \in Decisions, s \in ExecRefs : pending'[e][s] + paid'[e][s] <= settled[e][s]
      BY <1>1, <1>2, <1>3 DEF IInv, SettledOK
    <2> QED
      BY <2>1, ModeKept DEF IInv, SettledOK, Bound
  <1>11. OperationOK'
    BY <1>6, ModeKept DEF IInv, OperationOK
  <1>12. ToldOK'
    <2>1. \A e \in Decisions, s \in ExecRefs : paid[e][s] > 0 => paid'[e][s] > 0
      BY <1>1, <1>3
    <2>2. \A e \in Decisions, s \in ExecRefs : Bound(e, s) => Bound(e, s)'
      BY DEF Bound
    <2> QED
      BY <2>1, <2>2, ModeKept DEF IInv, ToldOK
  <1>13. RailOK'
    <2> SUFFICES ASSUME RailIdempotent, NEW e \in Decisions, NEW f \in Decisions, NEW s \in ExecRefs,
                        paid'[e][s] > 0, paid'[f][s] > 0
                 PROVE  e = f /\ paid'[e][s] = 1
      BY ModeKept DEF RailOK
    <2>1. CASE paid'[d][r] = paid[d][r]
      BY <1>3, <2>1 DEF IInv, RailOK
    <2>2. CASE ~PaidRef(r) /\ paid'[d][r] = paid[d][r] + 1
      <3>1. \A g \in Decisions : paid[g][r] = 0
        BY <1>1, <2>2 DEF PaidRef
      <3> QED
        BY <1>3, <2>2, <3>1 DEF IInv, RailOK
    <2> QED
      BY <1>3, <2>1, <2>2
  <1>14. TypeOK'
    BY <1>2, <1>3 DEF IInv, TypeOK
  <1> QED
    BY <1>8, <1>9, <1>10, <1>11, <1>12, <1>13, <1>14 DEF IInv

LEMMA RailKeeps == ASSUME IInv, NEW d \in Decisions, NEW r \in ExecRefs, Rail(d, r) PROVE IInv'
  <1>1. CASE RailPays(d, r)
    BY <1>1, RailStep DEF RailPays
  <1>2. CASE RailRefuses(d, r)
    BY <1>2, RailStep DEF RailRefuses
  <1> QED
    BY <1>1, <1>2 DEF Rail

LEMMA ResolveKeeps ==
    ASSUME IInv, NEW r \in ExecRefs, NEW status \in Terminal, NEW outcome \in {"guard", "operator"},
           Resolve(r, status, outcome)
    PROVE  IInv'
  <1> DEFINE op == [journal[r] EXCEPT !.status = status, !.outcome = outcome]
  <1>1. journal[r] \in Operation /\ journal[r] # None /\ journal[r].status \in Unresolved
    BY DEF Resolve, Resolvable, IInv, TypeOK
  <1>2. op \in Operation /\ op.decision = journal[r].decision /\ op.status = status
    BY <1>1 DEF Operation, Statuses, Terminal
  <1>3. journal' = [journal EXCEPT ![r] = op]
    BY DEF Resolve, SetStatus
  <1> HIDE DEF op
  <1>4. UNCHANGED <<integration, expired, consumed, caller, pending, paid, settled, told>>
    BY DEF Resolve
  <1>5. /\ status = "succeeded" => PaidRef(r)
        /\ status = "failed_final" => Refused(r) /\ GraceElapsed(r)
    BY DEF Resolve
  <1>6. /\ journal' \in [ExecRefs -> Operation \cup {None}] /\ Advances
        /\ \A b \in Callers :
                 (Journal /\ caller[b].pc = "settle" => caller[b].ref # r) => StillTrue(b)
        /\ SettledOK' /\ OperationOK' /\ RailOK'
        /\ Journal => \A e \in Decisions, s \in ExecRefs : <<e, s, "failed">> \in told =>
               Bound(e, s)' /\ journal'[s].status = "failed_final"
    BY <1>1, <1>2, <1>3, <1>4, <1>5, RowStep DEF Unresolved, Terminal
  <1>7. \A b \in Callers : Journal /\ caller[b].pc = "settle" => caller[b].ref # r
    <2> SUFFICES ASSUME NEW b \in Callers, Journal, caller[b].pc = "settle", caller[b].ref = r PROVE FALSE
      OBVIOUS
    <2>1. Unsettled(r)
      BY DEF IInv, CallerOK
    <2>2. \A d \in Decisions : settled[d][r] \in Nat /\ pending[d][r] \in Nat /\ paid[d][r] \in Nat
      BY DEF IInv, TypeOK, Counters
    <2>3. ~PaidRef(r)
      BY <2>1, <2>2 DEF IInv, SettledOK, Unsettled, PaidRef
    <2> QED
      BY <1>5, <2>3 DEF GraceElapsed, Terminal
  <1>8. \A b \in Callers : CallerOK(b)'
    BY <1>4, <1>6, <1>7, OthersKeep DEF IInv, TypeOK
  <1>9. SoleOwner'
    BY <1>4, ModeKept DEF IInv, SoleOwner
  <1>10. ToldOK'
    BY <1>4, <1>6, ModeKept DEF IInv, ToldOK
  <1>11. TypeOK'
    BY <1>4, <1>6 DEF IInv, TypeOK
  <1> QED
    BY <1>6, <1>8, <1>9, <1>10, <1>11 DEF IInv

(* A decision expires, or nothing happens. *)
LEMMA IdleStep ==
    ASSUME IInv, expired' \subseteq Decisions,
           UNCHANGED <<integration, consumed, journal, caller, pending, paid, settled, told>>
    PROVE  IInv'
  <1>1. TypeOK'
    BY DEF IInv, TypeOK
  <1>2. \A b \in Callers : CallerOK(b)'
    BY TablesStay, OthersKeep DEF IInv, TypeOK
  <1>3. SoleOwner' /\ SettledOK'
    BY ModeKept DEF IInv, SoleOwner, SettledOK, Bound
  <1>4. OperationOK' /\ RailOK'
    BY ModeKept DEF IInv, OperationOK, RailOK, PaidRef, Refused
  <1>5. ToldOK'
    BY ToldKept
  <1> QED
    BY <1>1, <1>2, <1>3, <1>4, <1>5 DEF IInv
-----------------------------------------------------------------------------
(* The invariant                                                           *)

LEMMA InitIInv == Init => IInv
  <1> SUFFICES ASSUME Init PROVE IInv
    OBVIOUS
  <1>1. NoneYet \in Counters /\ \A d \in Decisions, r \in ExecRefs : NoneYet[d][r] = 0
    BY DEF NoneYet, Counters
  <1>2. TypeOK
    BY <1>1, IdleOK DEF Init, TypeOK
  <1>3. \A c \in Callers : caller[c].pc = "idle"
    BY DEF Init, Idle
  <1>4. (\A c \in Callers : CallerOK(c)) /\ SoleOwner
    BY <1>3 DEF CallerOK, SoleOwner, Owning
  <1>5. SettledOK /\ RailOK
    BY <1>1 DEF Init, SettledOK, RailOK
  <1>6. OperationOK /\ ToldOK
    BY DEF Init, OperationOK, ToldOK
  <1> QED
    BY <1>2, <1>4, <1>5, <1>6 DEF IInv

LEMMA NextKeeps == IInv /\ [Next]_vars => IInv'
  <1> SUFFICES ASSUME IInv, [Next]_vars PROVE IInv'
    OBVIOUS
  <1>1. CASE UNCHANGED vars
    BY <1>1, IdleStep DEF vars, IInv, TypeOK
  <1>2. ASSUME NEW c \in Callers, Progress(c) PROVE IInv'
    BY <1>2, PrepareKeeps, ConsumeKeeps, StartKeeps, InspectKeeps, SettleKeeps, SettleReturnsKeeps,
       SettleThrowsKeeps, MarkSucceededKeeps, MarkFailedFinalKeeps, MarkOutcomeUnknownKeeps, FailKeeps
    DEF Progress
  <1>3. ASSUME NEW c \in Callers, NEW q \in Requests, Begin(c, q) PROVE IInv'
    BY <1>3, BeginKeeps
  <1>4. ASSUME NEW d \in Decisions, NEW r \in ExecRefs, Rail(d, r) PROVE IInv'
    BY <1>4, RailKeeps
  <1>5. ASSUME NEW r \in ExecRefs, Operator(r) PROVE IInv'
    BY <1>5, ResolveKeeps DEF Operator
  <1>6. ASSUME NEW d \in Decisions, Expire(d) PROVE IInv'
    BY <1>6, IdleStep DEF Expire, IInv, TypeOK
  <1> QED
    BY <1>1, <1>2, <1>3, <1>4, <1>5, <1>6 DEF Next

(* Every reachable state satisfies the inductive invariant, with and       *)
(* without the journal, whatever calls race, fail and are answered late.   *)
THEOREM Invariant == Spec => []IInv
  BY InitIInv, NextKeeps, PTL DEF Spec

(* The journal, the rail, the provider and the calls keep their types.     *)
THEOREM TypeCorrect == Spec => []TypeOK
  <1>1. IInv => TypeOK
    BY DEF IInv
  <1> QED
    BY <1>1, Invariant, PTL

(* With the journal settle() is called once for a decision and once for an *)
(* execution reference (guard.ts, docs/RECONCILIATION.md:42).              *)
THEOREM SettlesOnce == Spec => []SettledOnce
  <1>1. IInv => SettledOnce
    BY DEF IInv, SettledOK, SettledOnce, Bound
  <1> QED
    BY <1>1, Invariant, PTL

(* Nothing is settled without a consumption by the same reference, on the  *)
(* terms the decision covers, and with the journal without a claim.        *)
THEOREM ConsumedBeforeSettlement == Spec => []SettleNeedsConsumption
  <1>1. IInv => SettleNeedsConsumption
    <2> SUFFICES ASSUME IInv PROVE SettleNeedsConsumption
      OBVIOUS
    <2>1. \A c \in Callers : caller[c].pc \in {"settle", "await"} =>
            /\ caller[c].terms = Covers[caller[c].decision]
            /\ consumed[caller[c].decision] = caller[c].ref
      BY DEF IInv, CallerOK, AfterConsume, Owning
    <2> QED
      BY <2>1 DEF IInv, SettledOK, Bound, SettleNeedsConsumption
  <1> QED
    BY <1>1, Invariant, PTL

(* What is paid was settled. *)
LEMMA PaidIsSettled ==
    ASSUME IInv, NEW d \in Decisions, NEW r \in ExecRefs
    PROVE  /\ pending[d][r] \in Nat /\ paid[d][r] \in Nat /\ settled[d][r] \in Nat
           /\ pending[d][r] > 0 \/ paid[d][r] > 0 => settled[d][r] > 0
           /\ paid[d][r] <= settled[d][r]
  <1>1. pending[d][r] \in Nat /\ paid[d][r] \in Nat /\ settled[d][r] \in Nat
    BY DEF IInv, TypeOK, Counters
  <1> QED
    BY <1>1 DEF IInv, SettledOK

(* A terminal operation states what the rail did, and no payment or open   *)
(* request is missing from the journal.                                    *)
THEOREM JournalIsTrue == Spec => []JournalAgreesWithRail
  <1>1. IInv => JournalAgreesWithRail
    <2> SUFFICES ASSUME IInv, Journal, NEW r \in ExecRefs
                 PROVE  /\ (\E d \in Decisions : pending[d][r] > 0 \/ paid[d][r] > 0) =>
                              journal[r] # None /\ journal[r].status \notin {"prepared", "failed_final"}
                        /\ journal[r] # None =>
                              /\ journal[r].status = "succeeded" => paid[journal[r].decision][r] > 0
                              /\ journal[r].status = "failed_final" => Refused(r)
      BY DEF JournalAgreesWithRail
    <2>1. ASSUME NEW d \in Decisions, pending[d][r] > 0 \/ paid[d][r] > 0
          PROVE  journal[r] # None /\ journal[r].status \notin {"prepared", "failed_final"}
      <3>1. settled[d][r] > 0
        BY <2>1, PaidIsSettled
      <3>2. Bound(d, r) /\ journal[r].status # "prepared"
        BY <3>1 DEF IInv, SettledOK
      <3>3. ~Refused(r)
        BY <2>1, PaidIsSettled DEF Refused
      <3> QED
        BY <3>2, <3>3 DEF IInv, OperationOK, Bound
    <2>2. ASSUME journal[r] # None, journal[r].status = "succeeded" PROVE paid[journal[r].decision][r] > 0
      <3>1. journal[r].decision \in Decisions /\ PaidRef(r)
        BY <2>2 DEF IInv, TypeOK, Operation, OperationOK
      <3> QED
        BY <2>2, <3>1, PaidIsOwn DEF Bound
    <2> QED
      BY <2>1, <2>2 DEF IInv, OperationOK
  <1> QED
    BY <1>1, Invariant, PTL

(* What callers are told of a settlement is and stays true.                *)
THEOREM AnswersHold == Spec => []AnswersAreTrue
  <1>1. IInv => AnswersAreTrue
    <2> SUFFICES ASSUME IInv, Journal, NEW d \in Decisions, NEW r \in ExecRefs
                 PROVE  /\ <<d, r, "completed">> \in told => paid[d][r] > 0
                        /\ <<d, r, "failed">> \in told =>
                              /\ pending[d][r] = 0 /\ paid[d][r] = 0
                              /\ journal[r].status = "failed_final"
      BY DEF AnswersAreTrue
    <2>1. <<d, r, "failed">> \in told => Refused(r) /\ journal[r].status = "failed_final"
      BY DEF IInv, ToldOK, OperationOK, Bound
    <2> QED
      BY <2>1 DEF IInv, ToldOK, Refused
  <1> QED
    BY <1>1, Invariant, PTL

(* A decision and an execution reference are paid for once: by the journal *)
(* where there is one, by the idempotent rail where there is none.         *)
THEOREM PaysOnce == Spec => []PaidOnce
  <1>1. IInv => PaidOnce
    <2> SUFFICES ASSUME IInv, NEW d \in Decisions, NEW e \in Decisions, NEW r \in ExecRefs,
                        NEW s \in ExecRefs, paid[d][r] > 0, paid[e][s] > 0, d = e \/ r = s
                 PROVE  d = e /\ r = s /\ paid[d][r] = 1
      BY DEF PaidOnce
    <2>1. settled[d][r] > 0 /\ settled[e][s] > 0
      BY PaidIsSettled
    <2>2. r = s
      BY <2>1 DEF IInv, SettledOK
    <2>3. CASE Journal
      <3>1. d = e /\ settled[d][r] = 1
        BY <2>1, <2>2, <2>3 DEF IInv, SettledOK, Bound
      <3> QED
        BY <2>2, <3>1, PaidIsSettled
    <2>4. CASE ~Journal
      <3>1. RailIdempotent
        BY <2>4, OptionsAssumption DEF IInv, TypeOK, Journal, RailIdempotent
      <3> QED
        BY <2>2, <3>1 DEF IInv, RailOK
    <2> QED
      BY <2>3, <2>4
  <1> QED
    BY <1>1, Invariant, PTL
-----------------------------------------------------------------------------
(* Operations only advance                                                 *)

Forward(r) ==
    journal[r] # None =>
        /\ journal'[r] # None /\ journal'[r].decision = journal[r].decision
        /\ journal[r].status \in Terminal => journal'[r] = journal[r]
        /\ journal[r].status \in Unresolved => journal'[r].status \notin {"prepared"}
        /\ journal[r].status = "outcome_unknown" => journal'[r].status # "in_progress"

LEMMA RowForward ==
    ASSUME IInv, NEW r \in ExecRefs, NEW op \in Operation, journal' = [journal EXCEPT ![r] = op],
           journal[r] # None =>
               /\ op.decision = journal[r].decision
               /\ \/ journal[r].status = "prepared"
                  \/ journal[r].status \in Unresolved /\ op.status \notin {"prepared", "in_progress"}
    PROVE  \A s \in ExecRefs : Forward(s)
  <1>1. journal'[r] = op /\ op # None /\ \A s \in ExecRefs \ {r} : journal'[s] = journal[s]
    BY NoOperationAssumption DEF IInv, TypeOK
  <1>2. Forward(r)
    BY <1>1 DEF Forward, Terminal, Unresolved
  <1>3. ASSUME NEW s \in ExecRefs \ {r} PROVE Forward(s)
    BY <1>1 DEF Forward, Terminal, Unresolved
  <1> QED
    BY <1>2, <1>3

LEMMA SetStatusForward ==
    ASSUME IInv, NEW r \in ExecRefs, NEW status \in Terminal \cup {"outcome_unknown"},
           NEW outcome \in {"none", "guard", "operator"}, SetStatus(r, status, outcome),
           journal[r] # None, journal[r].status \in Unresolved
    PROVE  \A s \in ExecRefs : Forward(s)
  <1> DEFINE op == [journal[r] EXCEPT !.status = status, !.outcome = outcome]
  <1>1. journal[r] \in Operation
    BY DEF IInv, TypeOK
  <1>2. op \in Operation /\ op.decision = journal[r].decision /\ op.status = status
    BY <1>1 DEF Operation, Statuses, Terminal
  <1>3. journal' = [journal EXCEPT ![r] = op]
    BY DEF SetStatus
  <1> HIDE DEF op
  <1> QED
    BY <1>2, <1>3, RowForward DEF Terminal

LEMMA UnchangedForward == ASSUME UNCHANGED journal PROVE \A r \in ExecRefs : Forward(r)
  BY DEF Forward, Terminal, Unresolved

LEMMA CallerForward ==
    ASSUME IInv, NEW c \in Callers, Progress(c) PROVE \A r \in ExecRefs : Forward(r)
  <1>1. PICK d \in Decisions, r \in ExecRefs : d = caller[c].decision /\ r = caller[c].ref
    BY DEF IInv, CallerOK, Progress, Prepare, Consume, ConsumeUnanswered, Start, Inspect, Settle,
           SettleReturns, SettleThrows, MarkSucceeded, MarkFailedFinal, MarkOutcomeUnknown, Fail
  <1>2. journal[r] # None => journal[r] \in Operation
    BY DEF IInv, TypeOK
  <1>3. caller[c].pc \in {"markSucceeded", "markFailed", "markUnknown"} => journal[r] # None
    BY <1>1 DEF IInv, CallerOK, Bound, JournalOnly, AfterPrepare, AfterConsume, Owning
  <1>4. CASE Prepare(c)
    <2>1. CASE journal[r] = None /\ journal' = [journal EXCEPT ![r] = NewOperation(d)]
      <3>1. NewOperation(d) \in Operation
        BY DEF NewOperation, Operation, Statuses
      <3> QED
        BY <2>1, <3>1, RowForward
    <2> QED
      BY <1>1, <1>4, <2>1, UnchangedForward DEF Prepare
  <1>5. CASE Start(c)
    <2> DEFINE op == [journal[r] EXCEPT !.status = "in_progress", !.attempts = @ + 1]
    <2>1. CASE journal[r] # None /\ journal[r].status = "prepared" /\ journal' = [journal EXCEPT ![r] = op]
      <3>1. journal[r].attempts + 1 \in Nat
        BY <1>2, <2>1 DEF Operation
      <3>2. op \in Operation
        BY <1>2, <2>1, <3>1 DEF Operation, Statuses
      <3>3. op.decision = journal[r].decision
        BY <1>2, <2>1 DEF Operation
      <3> HIDE DEF op
      <3> QED
        BY <2>1, <3>2, <3>3, RowForward
    <2> QED
      BY <1>1, <1>5, <2>1, UnchangedForward DEF Start, Claimable
  <1>6. CASE MarkSucceeded(c)
    <2>1. \/ UNCHANGED journal
          \/ journal[r].status \in Unresolved /\ SetStatus(r, "succeeded", "guard")
      BY <1>1, <1>6 DEF MarkSucceeded, Markable, Unresolved
    <2> QED
      BY <1>3, <1>6, <2>1, UnchangedForward, SetStatusForward DEF MarkSucceeded, Terminal
  <1>7. CASE MarkFailedFinal(c)
    <2>1. \/ UNCHANGED journal
          \/ journal[r].status \in Unresolved /\ SetStatus(r, "failed_final", "none")
      BY <1>1, <1>7 DEF MarkFailedFinal, Markable, Unresolved
    <2> QED
      BY <1>3, <1>7, <2>1, UnchangedForward, SetStatusForward DEF MarkFailedFinal, Terminal
  <1>8. CASE MarkOutcomeUnknown(c)
    <2>1. \/ UNCHANGED journal
          \/ journal[r].status \in Unresolved /\ SetStatus(r, "outcome_unknown", journal[r].outcome)
      BY <1>1, <1>8 DEF MarkOutcomeUnknown, Markable, Unresolved
    <2>2. journal[r].outcome \in {"none", "guard", "operator"}
      BY <1>2, <1>3, <1>8 DEF MarkOutcomeUnknown, Operation
    <2> QED
      BY <1>3, <1>8, <2>1, <2>2, UnchangedForward, SetStatusForward DEF MarkOutcomeUnknown
  <1>9. CASE Consume(c) \/ ConsumeUnanswered(c) \/ Inspect(c) \/ Settle(c) \/ SettleReturns(c)
             \/ SettleThrows(c) \/ Fail(c)
    BY <1>9, UnchangedForward
    DEF Consume, ConsumeUnanswered, Inspect, Settle, SettleReturns, SettleThrows, Fail
  <1> QED
    BY <1>4, <1>5, <1>6, <1>7, <1>8, <1>9 DEF Progress

LEMMA NextForward == ASSUME IInv, [Next]_vars PROVE \A r \in ExecRefs : Forward(r)
  <1>1. CASE \E c \in Callers : Progress(c)
    BY <1>1, CallerForward
  <1>2. CASE \E r \in ExecRefs : Operator(r)
    <2>1. PICK r \in ExecRefs, status \in Terminal, outcome \in {"guard", "operator"} :
            Resolve(r, status, outcome)
      BY <1>2 DEF Operator
    <2> QED
      BY <2>1, SetStatusForward DEF Resolve, Resolvable
  <1>3. CASE UNCHANGED journal
    BY <1>3, UnchangedForward
  <1> QED
    BY <1>1, <1>2, <1>3 DEF Next, vars, Begin, Rail, RailPays, RailRefuses, Expire

(* An operation keeps its decision, is claimed once and never leaves a     *)
(* terminal state, whichever of executor and operator comes last.          *)
THEOREM OperationsAdvance == Spec => OperationsOnlyAdvance
  <1>1. IInv /\ [Next]_vars =>
          [\A r \in ExecRefs : journal[r] # None =>
              /\ journal'[r] # None /\ journal'[r].decision = journal[r].decision
              /\ journal[r].status \in Terminal => journal'[r] = journal[r]
              /\ journal[r].status \in Unresolved => journal'[r].status \notin {"prepared"}
              /\ journal[r].status = "outcome_unknown" => journal'[r].status # "in_progress"]_vars
    BY NextForward DEF Forward
  <1> QED
    BY <1>1, Invariant, PTL DEF Spec, OperationsOnlyAdvance
-----------------------------------------------------------------------------
(* The guard implements SingleExecution                                    *)

(* A caller is told of final failure by the journal only: without it a     *)
(* settlement that throws has no known outcome.                            *)
JournalFails == ~Journal => \A d \in Decisions, r \in ExecRefs : <<d, r, "failed">> \notin told

LEMMA FailureToldByJournal ==
    ASSUME IInv, JournalFails, [Next]_vars
    PROVE  JournalFails'
  <1>1. Journal' <=> Journal
    BY ModeKept DEF vars, Next, Progress, Prepare, Consume, ConsumeUnanswered, Start, Inspect, Settle,
       SettleReturns, SettleThrows, MarkSucceeded, MarkFailedFinal, MarkOutcomeUnknown, Fail, Begin,
       Rail, RailPays, RailRefuses, Operator, Resolve, Expire
  <1>2. CASE UNCHANGED told
    BY <1>1, <1>2 DEF JournalFails
  <1>3. ASSUME NEW c \in Callers, Inspect(c) \/ MarkSucceeded(c) \/ MarkFailedFinal(c) PROVE Journal
    BY <1>3 DEF Inspect, MarkSucceeded, MarkFailedFinal, IInv, CallerOK, JournalOnly
  <1>4. ASSUME NEW c \in Callers, SettleReturns(c) PROVE JournalFails'
    <2>1. UNCHANGED told \/ Tell(c, "completed")
      BY <1>4 DEF SettleReturns
    <2>2. CASE Tell(c, "completed")
      <3>1. told' = told \cup {<<caller[c].decision, caller[c].ref, "completed">>}
        BY <2>2 DEF Tell
      <3>2. \A d \in Decisions, r \in ExecRefs :
              <<d, r, "failed">> \in told' => <<d, r, "failed">> \in told
        BY <3>1
      <3> QED
        BY <1>1, <3>2 DEF JournalFails
    <2> QED
      BY <1>2, <2>1, <2>2
  <1>5. \/ UNCHANGED told
        \/ \E c \in Callers :
              Inspect(c) \/ MarkSucceeded(c) \/ MarkFailedFinal(c) \/ SettleReturns(c)
    BY DEF vars, Next, Progress, Prepare, Consume, ConsumeUnanswered, Start, Settle,
       SettleThrows, MarkOutcomeUnknown, Fail, Begin,
       Rail, RailPays, RailRefuses, Operator, Resolve, Expire
  <1>6. CASE Journal
    BY <1>1, <1>6 DEF JournalFails
  <1> QED
    BY <1>2, <1>3, <1>4, <1>5, <1>6

(* A step that neither consumes nor pays nor tells is invisible.           *)
LEMMA SettlementStutter ==
    ASSUME UNCHANGED <<consumed, paid, told>> PROVE UNCHANGED Single!vars
  BY DEF Single!vars, Answered

LEMMA ConsumeRefines ==
    ASSUME IInv, NEW c \in Callers, Consume(c) \/ ConsumeUnanswered(c)
    PROVE  [Single!Next]_(Single!vars)
  <1>1. PICK d \in Decisions, r \in ExecRefs : d = caller[c].decision /\ r = caller[c].ref
    BY DEF Consume, ConsumeUnanswered, IInv, CallerOK
  <1>2. UNCHANGED <<paid, told>>
    BY DEF Consume, ConsumeUnanswered
  <1>3. CASE UNCHANGED consumed
    BY <1>2, <1>3, SettlementStutter
  <1>4. CASE consumed[d] = None /\ consumed' = [consumed EXCEPT ![d] = r]
    <2>1. Single!Consume(d, r)
      BY <1>2, <1>4 DEF Single!Consume, Answered
    <2> QED
      BY <2>1 DEF Single!Next
  <1> QED
    BY <1>1, <1>3, <1>4 DEF Consume, ConsumeUnanswered

(* Before the rail pays a reference, nothing was paid under it: by the     *)
(* journal there is one request for it, without the journal the idempotent *)
(* rail pays no second time.                                               *)
LEMMA FirstPayment ==
    ASSUME IInv, NEW d \in Decisions, NEW r \in ExecRefs, pending[d][r] > 0,
           ~(RailIdempotent /\ PaidRef(r))
    PROVE  \A e \in Decisions : paid[e][r] = 0
  <1>1. \A e \in Decisions :
          pending[e][r] \in Nat /\ paid[e][r] \in Nat /\ settled[e][r] \in Nat
    BY DEF IInv, TypeOK, Counters
  <1>2. CASE Journal
    <2> SUFFICES ASSUME NEW e \in Decisions, paid[e][r] > 0 PROVE FALSE
      BY <1>1
    <2>1. settled[d][r] > 0 /\ settled[e][r] > 0
      BY PaidIsSettled
    <2>2. e = d /\ settled[d][r] = 1
      BY <1>2, <2>1 DEF IInv, SettledOK, Bound
    <2>3. pending[d][r] + paid[d][r] <= 1
      BY <2>2 DEF IInv, SettledOK
    <2> QED
      BY <1>1, <2>2, <2>3
  <1>3. CASE ~Journal
    <2>1. RailIdempotent
      BY <1>3, OptionsAssumption DEF IInv, TypeOK, Journal, RailIdempotent
    <2> QED
      BY <1>1, <2>1 DEF PaidRef
  <1> QED
    BY <1>2, <1>3

LEMMA RailRefines ==
    ASSUME IInv, JournalFails, NEW d \in Decisions, NEW r \in ExecRefs, Rail(d, r)
    PROVE  [Single!Next]_(Single!vars)
  <1>1. UNCHANGED <<consumed, told>> /\ pending[d][r] > 0
    BY DEF Rail, RailPays, RailRefuses
  <1>2. CASE UNCHANGED paid
    BY <1>1, <1>2, SettlementStutter
  <1>3. CASE ~(RailIdempotent /\ PaidRef(r)) /\ paid' = Count(paid, d, r)
    <2>1. \A e \in Decisions : paid[e][r] = 0
      BY <1>1, <1>3, FirstPayment
    <2>2. paid' = [paid EXCEPT ![d][r] = 1]
      <3>1. paid[d][r] + 1 = 1
        BY <2>1
      <3> QED
        BY <1>3, <3>1 DEF Count
    <2>3. consumed[d] = r
      BY <1>1, PaidIsSettled DEF IInv, SettledOK
    <2>4. r \notin Answered("failed")
      <3> SUFFICES ASSUME NEW e \in Decisions, <<e, r, "failed">> \in told PROVE FALSE
        BY DEF Answered
      <3>1. Journal
        BY DEF JournalFails
      <3>2. Refused(r)
        BY <3>1 DEF IInv, ToldOK, OperationOK, Bound
      <3> QED
        BY <1>1, <3>2 DEF Refused
    <2>5. Single!Execute(d, r)
      BY <1>1, <2>1, <2>2, <2>3, <2>4 DEF Single!Execute, Single!Untouched, Answered
    <2> QED
      BY <2>5 DEF Single!Next
  <1> QED
    BY <1>2, <1>3 DEF Rail, RailPays, RailRefuses

(* What a caller is told is a Report of a payment or rules one out.        *)
LEMMA TellRefines ==
    ASSUME IInv, NEW c \in Callers, NEW r \in ExecRefs, r = caller[c].ref,
           caller[c].decision \in Decisions, UNCHANGED <<consumed, paid>>,
           \/ Tell(c, "completed") /\ PaidRef(r)
           \/ Tell(c, "failed") /\ Refused(r)
    PROVE  Single!Next
  <1>1. CASE Tell(c, "completed") /\ PaidRef(r)
    <2>1. /\ Answered("completed")' = Answered("completed") \cup {r}
          /\ UNCHANGED Answered("failed")
      BY <1>1 DEF Answered, Tell
    <2>2. Single!Report(r)
      BY <1>1, <2>1 DEF Single!Report, Single!Untouched, PaidRef
    <2> QED
      BY <2>2 DEF Single!Next
  <1>2. CASE Tell(c, "failed") /\ Refused(r)
    <2>1. /\ Answered("failed")' = Answered("failed") \cup {r}
          /\ UNCHANGED Answered("completed")
      BY <1>2 DEF Answered, Tell
    <2>2. Single!RuleOut(r)
      BY <1>2, <2>1 DEF Single!RuleOut, Single!Untouched, Refused
    <2> QED
      BY <2>2 DEF Single!Next
  <1> QED
    BY <1>1, <1>2

LEMMA AnswerRefines ==
    ASSUME IInv, NEW c \in Callers,
           Inspect(c) \/ SettleReturns(c) \/ MarkSucceeded(c) \/ MarkFailedFinal(c)
    PROVE  [Single!Next]_(Single!vars)
  <1>1. PICK d \in Decisions, r \in ExecRefs : d = caller[c].decision /\ r = caller[c].ref
    BY DEF Inspect, SettleReturns, MarkSucceeded, MarkFailedFinal, IInv, CallerOK
  <1>2. UNCHANGED <<consumed, paid>>
    BY DEF Inspect, SettleReturns, MarkSucceeded, MarkFailedFinal
  <1>3. \/ UNCHANGED told
        \/ Tell(c, "completed") /\ PaidRef(r)
        \/ Tell(c, "failed") /\ Refused(r)
    <2>1. CASE Inspect(c)
      <3>1. Journal
        BY <2>1 DEF Inspect, IInv, CallerOK, JournalOnly
      <3> QED
        BY <1>1, <2>1, <3>1 DEF Inspect, Terminal, IInv, OperationOK
    <2>2. CASE SettleReturns(c)
      BY <1>1, <2>2 DEF SettleReturns
    <2>3. CASE MarkSucceeded(c)
      BY <1>1, <2>3 DEF MarkSucceeded, IInv, CallerOK, JournalOnly
    <2>4. CASE MarkFailedFinal(c)
      BY <1>1, <2>4 DEF MarkFailedFinal, IInv, CallerOK, JournalOnly
    <2> QED
      BY <2>1, <2>2, <2>3, <2>4
  <1> QED
    BY <1>1, <1>2, <1>3, SettlementStutter, TellRefines

LEMMA StepRefines ==
    ASSUME IInv, JournalFails, [Next]_vars
    PROVE  [Single!Next]_(Single!vars)
  <1>1. CASE UNCHANGED <<consumed, paid, told>>
    BY <1>1, SettlementStutter
  <1>2. ASSUME NEW d \in Decisions, NEW r \in ExecRefs, Rail(d, r)
        PROVE  [Single!Next]_(Single!vars)
    BY <1>2, RailRefines
  <1>3. \/ UNCHANGED <<consumed, paid, told>>
        \/ \E c \in Callers :
             \/ Consume(c) \/ ConsumeUnanswered(c)
             \/ Inspect(c) \/ SettleReturns(c) \/ MarkSucceeded(c) \/ MarkFailedFinal(c)
        \/ \E d \in Decisions, r \in ExecRefs : Rail(d, r)
    BY DEF vars, Next, Progress, Prepare, Start, Settle, SettleThrows, MarkOutcomeUnknown, Fail,
       Begin, Operator, Resolve, Expire
  <1> QED
    BY <1>1, <1>2, <1>3, ConsumeRefines, AnswerRefines

LEMMA InitRefines == Init => JournalFails /\ Single!Init
  BY DEF Init, JournalFails, Single!Init, Answered, NoneYet

(* In either deployment every behaviour of the guard, its journal and its  *)
(* rail is one of SingleExecution: one payment per execution reference by  *)
(* the decision consumed for it, told to callers truly and for good.       *)
THEOREM SettlementImplementsExecution == Spec => ImplementsExecution
  <1>1. IInv /\ JournalFails /\ [Next]_vars => JournalFails' /\ [Single!Next]_(Single!vars)
    BY FailureToldByJournal, StepRefines
  <1> QED
    BY <1>1, InitRefines, Invariant, PTL DEF Spec, ImplementsExecution, Single!Spec
=============================================================================
