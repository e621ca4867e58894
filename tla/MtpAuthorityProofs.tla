------------------------- MODULE MtpAuthorityProofs -------------------------
(***************************************************************************)
(* Theorems about MtpAuthority, for any number of calls, decisions,        *)
(* references and failures: its type correctness, its safety invariants,   *)
(* its action property and its refinement of SingleExecution, all from one *)
(* inductive invariant.                                                    *)
(***************************************************************************)
EXTENDS MtpAuthority, TLAPS

(* The row of d is claimed for r, which no step undoes. *)
Holds(d, r) == record[d] # None /\ record[d].ref = r

AfterClaimed == {"reread", "mtp", "mark", "local", "complete"}

(* What a call has established by the await it is at: that it holds the    *)
(* claim, that MTP consumed for it, that the receipt is stored, that the   *)
(* local provider consumed for it; and that a resumed call found a receipt.*)
CallOK(c) ==
    LET x == call[c]
        d == call[c].decision
    IN  /\ x.pc # "idle" => d \in Decisions
        /\ x.pc \notin {"idle", "authorize", "save"} => x.ref \in ExecRefs
        /\ x.pc \in {"claim", "claimRead"} => record[d] # None
        /\ x.pc \in AfterClaimed => Holds(d, x.ref)
        /\ x.pc = "mark" => mtp[d] = x.ref /\ x.status # None
        /\ x.pc \in {"local", "complete"} => mtp[d] = x.ref /\ record[d].audit # None
        /\ x.pc = "complete" => local[d] = x.ref
        /\ x.resumed => d \in Decisions /\ record[d] # None /\ record[d].audit # None
        /\ x.pc = "mtp" => ~x.resumed

(* A request whose sender is gone was sent by the holder of the claim. *)
LateOK == \A d \in Decisions, r \in ExecRefs : <<d, r>> \in late => Holds(d, r)

(* The unique index of migration 002. *)
RefsUnique ==
    \A d, e \in Decisions :
        d # e /\ record[d] # None /\ record[e] # None /\ record[d].ref # None
            => record[d].ref # record[e].ref

(* A receipt is stored only in a claimed row. *)
ReceiptsClaimed ==
    \A d \in Decisions : record[d] # None /\ record[d].audit # None => record[d].ref # None

IInv ==
    /\ TypeOK
    /\ \A c \in Callers : CallOK(c)
    /\ LateOK
    /\ RefsUnique
    /\ ReceiptsClaimed
    /\ RecordAgreesWithMtp
    /\ LocalNeedsMtp
    /\ SuccessIsTrue
-----------------------------------------------------------------------------
(* What every step keeps                                                   *)

(* Rows, claims, receipts and consumptions are never taken back.           *)
Grows ==
    \A d \in Decisions :
        /\ record[d] # None =>
            /\ record'[d] # None
            /\ record[d].ref # None => record'[d].ref = record[d].ref
            /\ record[d].audit # None => record'[d].audit # None
        /\ mtp[d] # None => mtp'[d] = mtp[d]
        /\ local[d] # None => local'[d] = local[d]

LEMMA OthersKeep ==
    ASSUME NEW b \in Callers, CallOK(b), call'[b] = call[b], Grows
    PROVE  CallOK(b)'
  BY NoneAssumption DEF CallOK, Grows, Holds, AfterClaimed

LEMMA LateKeeps ==
    ASSUME LateOK, late' = late, Grows
    PROVE  LateOK'
  BY NoneAssumption DEF LateOK, Grows, Holds

LEMMA IdleOK == ASSUME NEW c \in Callers, call'[c] = Idle PROVE CallOK(c)'
  BY DEF CallOK, Idle, AfterClaimed

LEMMA IdleInCall == Idle \in Call
  BY DEF Idle, Call

(* An action that only moves its call leaves the tables' invariants alone. *)
LEMMA CallStep ==
    ASSUME IInv, NEW c \in Callers, NEW x \in Call,
           call' = [call EXCEPT ![c] = x],
           CallOK(c)', LateOK', late' \subseteq Decisions \X ExecRefs, failures' \in 0..MaxFailures,
           issued' \subseteq Decisions, UNCHANGED <<lapsed, record, mtp, local, told>>
    PROVE  IInv'
  <1>1. TypeOK'
    BY DEF IInv, TypeOK
  <1>2. Grows
    BY DEF Grows
  <1>3. \A b \in Callers \ {c} : call'[b] = call[b]
    BY DEF IInv, TypeOK
  <1>4. \A b \in Callers : CallOK(b)'
    BY <1>2, <1>3, OthersKeep DEF IInv
  <1>5. RefsUnique' /\ ReceiptsClaimed' /\ RecordAgreesWithMtp' /\ LocalNeedsMtp' /\ SuccessIsTrue'
    BY DEF IInv, RefsUnique, ReceiptsClaimed, RecordAgreesWithMtp, LocalNeedsMtp, SuccessIsTrue
  <1> QED
    BY <1>1, <1>4, <1>5 DEF IInv

(* A call that ends without an effect. *)
LEMMA ReturnStep ==
    ASSUME IInv, NEW c \in Callers, Return(c),
           LateOK', late' \subseteq Decisions \X ExecRefs, failures' \in 0..MaxFailures,
           UNCHANGED <<issued, lapsed, record, mtp, local, told>>
    PROVE  IInv'
  <1>1. call'[c] = Idle
    BY DEF Return, IInv, TypeOK
  <1>2. CallOK(c)'
    BY <1>1, IdleOK
  <1> QED
    BY <1>2, IdleInCall, CallStep DEF Return, IInv, TypeOK

(* A call goes on with its record changed as x says. *)
LEMMA MoveStep ==
    ASSUME IInv, NEW c \in Callers, NEW x \in Call,
           call' = [call EXCEPT ![c] = x], CallOK(c)', issued' \subseteq Decisions,
           UNCHANGED <<lapsed, record, mtp, local, late, failures, told>>
    PROVE  IInv'
  <1>1. LateOK'
    BY DEF IInv, LateOK, Holds
  <1> QED
    BY <1>1, CallStep DEF IInv, TypeOK

-----------------------------------------------------------------------------
(* Actions that only move a call                                           *)

LEMMA IssueKeeps == ASSUME IInv, NEW c \in Callers, NEW d \in Decisions, Issue(c, d) PROVE IInv'
  <1> DEFINE x == [Idle EXCEPT !.pc = "authorize", !.decision = d]
  <1>1. x \in Call /\ issued' \subseteq Decisions
    BY DEF Issue, Idle, Call, IInv, TypeOK
  <1>2. call' = [call EXCEPT ![c] = x] /\ call'[c] = x
    BY DEF Issue, IInv, TypeOK
  <1>3. call'[c].pc = "authorize" /\ call'[c].decision = d
    BY <1>2 DEF Idle
  <1>4. call'[c].resumed = FALSE
    BY <1>2 DEF Idle
  <1>5. CallOK(c)'
    BY <1>3, <1>4 DEF CallOK, AfterClaimed
  <1> QED
    BY <1>1, <1>2, <1>5, MoveStep DEF Issue

LEMMA BeginKeeps ==
    ASSUME IInv, NEW c \in Callers, NEW d \in Decisions, NEW r \in ExecRefs, Begin(c, d, r)
    PROVE  IInv'
  <1> DEFINE x == [Idle EXCEPT !.pc = "get", !.decision = d, !.ref = r]
  <1>1. x \in Call /\ issued' \subseteq Decisions
    BY DEF Begin, Idle, Call, IInv, TypeOK
  <1>2. call' = [call EXCEPT ![c] = x] /\ call'[c] = x
    BY DEF Begin, IInv, TypeOK
  <1>3. call'[c].pc = "get" /\ call'[c].decision = d /\ call'[c].ref = r
    BY <1>2 DEF Idle
  <1>4. call'[c].resumed = FALSE
    BY <1>2 DEF Idle
  <1>5. CallOK(c)'
    BY <1>3, <1>4 DEF CallOK, AfterClaimed
  <1> QED
    BY <1>1, <1>2, <1>5, MoveStep DEF Begin

LEMMA ReadsKeep ==
    ASSUME IInv, NEW c \in Callers,
           Authorize(c) \/ GetAuthorization(c) \/ ClaimRead(c) \/ Reread(c)
    PROVE  IInv'
  <1>1. call[c] \in Call /\ CallOK(c) /\ issued' \subseteq Decisions
    BY DEF IInv, TypeOK, Authorize, GetAuthorization, ClaimRead, Reread
  <1>2. UNCHANGED <<lapsed, record, mtp, local, late, failures, told, issued>>
    BY DEF Authorize, GetAuthorization, ClaimRead, Reread
  <1>3. CASE Return(c)
    BY <1>2, <1>3, ReturnStep DEF IInv, TypeOK, LateOK, Holds
  <1>4. ASSUME NEW pc \in {"save", "reread", "local", "mtp"}, Goto(c, pc),
               pc \in {"reread", "local", "mtp"} => Holds(call[c].decision, call[c].ref),
               pc \in {"reread", "local", "mtp"} => call[c].ref \in ExecRefs,
               pc = "local" => record[call[c].decision].audit # None,
               pc = "mtp" => record[call[c].decision].audit = None,
               call[c].pc # "idle"
        PROVE  IInv'
    <2> DEFINE x == [call[c] EXCEPT !.pc = pc]
    <2>1. x \in Call
      BY <1>1 DEF Call
    <2>2. call' = [call EXCEPT ![c] = x] /\ call'[c] = x
      BY <1>4 DEF Goto, IInv, TypeOK
    <2>3. pc = "local" => mtp[call[c].decision] = call[c].ref
      BY <1>1, <1>4 DEF CallOK, IInv, RecordAgreesWithMtp, Holds
    <2>4. CallOK(c)'
      BY <1>1, <1>2, <1>4, <2>1, <2>2, <2>3 DEF CallOK, Call, Holds, AfterClaimed
    <2> QED
      BY <1>1, <1>2, <2>1, <2>2, <2>4, MoveStep
  <1>5. CASE Authorize(c)
    BY <1>3, <1>4, <1>5 DEF Authorize, At
  <1>6. CASE GetAuthorization(c)
    <2>1. CASE Return(c)
      BY <1>3, <2>1
    <2>2. CASE ~Return(c)
      <3> DEFINE x == [call[c] EXCEPT !.pc = "claim", !.resumed = record[call[c].decision].audit # None]
      <3>1. /\ At(c, "get") /\ record[call[c].decision] # None
            /\ call' = [call EXCEPT ![c].pc = "claim", ![c].resumed = record[call[c].decision].audit # None]
        BY <1>6, <2>2 DEF GetAuthorization
      <3>2. x \in Call
        BY <1>1 DEF Call
      <3>3. call' = [call EXCEPT ![c] = x] /\ call'[c] = x
        BY <3>1 DEF IInv, TypeOK
      <3>4. CallOK(c)'
        BY <1>1, <1>2, <3>1, <3>2, <3>3 DEF CallOK, Call, At, AfterClaimed
      <3> QED
        BY <1>1, <1>2, <3>2, <3>3, <3>4, MoveStep
    <2> QED
      BY <2>1, <2>2
  <1>7. CASE ClaimRead(c)
    <2>1. CASE Return(c)
      BY <1>3, <2>1
    <2>2. CASE ~Return(c)
      <3>1. call[c].pc = "claimRead" /\ Goto(c, "reread") /\ Holds(call[c].decision, call[c].ref)
        BY <1>1, <1>7, <2>2 DEF ClaimRead, SameClaim, At, CallOK, Holds
      <3> QED
        BY <1>1, <1>4, <3>1 DEF CallOK
    <2> QED
      BY <2>1, <2>2
  <1>8. CASE Reread(c)
    <2>1. call[c].pc = "reread" /\ Holds(call[c].decision, call[c].ref) /\ call[c].ref \in ExecRefs
      BY <1>1, <1>8 DEF Reread, At, CallOK, AfterClaimed
    <2>2. CASE Checkpointed(call[c].decision)
      BY <1>4, <1>8, <2>1, <2>2 DEF Reread, Checkpointed
    <2>3. CASE ~Checkpointed(call[c].decision)
      BY <1>4, <1>8, <2>1, <2>3 DEF Reread, Checkpointed
    <2> QED
      BY <2>2, <2>3
  <1> QED
    BY <1>5, <1>6, <1>7, <1>8

-----------------------------------------------------------------------------
(* Actions that change a table                                             *)

LEMMA TableStep ==
    ASSUME IInv, NEW c \in Callers, NEW x \in Call,
           call' = [call EXCEPT ![c] = x], CallOK(c)', Grows,
           record' \in [Decisions -> Record \cup {None}],
           mtp' \in [Decisions -> ExecRefs \cup {None}],
           local' \in [Decisions -> ExecRefs \cup {None}],
           told' \subseteq Decisions \X ExecRefs \X {"success", "refused"},
           UNCHANGED <<issued, lapsed, late, failures>>,
           RefsUnique', ReceiptsClaimed', RecordAgreesWithMtp', LocalNeedsMtp', SuccessIsTrue'
    PROVE  IInv'
  <1>1. TypeOK'
    BY DEF IInv, TypeOK
  <1>2. \A b \in Callers \ {c} : call'[b] = call[b]
    BY DEF IInv, TypeOK
  <1>3. \A b \in Callers : CallOK(b)'
    BY <1>2, OthersKeep DEF IInv
  <1>4. LateOK'
    BY LateKeeps DEF IInv
  <1> QED
    BY <1>1, <1>3, <1>4 DEF IInv

LEMMA SaveKeeps == ASSUME IInv, NEW c \in Callers, SaveAuthorization(c) PROVE IInv'
  <1> DEFINE d == call[c].decision
             new == [ref |-> None, audit |-> None, complete |-> FALSE]
  <1>1. d \in Decisions /\ call'[c] = Idle
    BY DEF SaveAuthorization, At, Return, IInv, TypeOK, CallOK
  <1>2. CASE record[d] # None
    <2>1. record' = record
      BY <1>1, <1>2 DEF SaveAuthorization, IInv, TypeOK
    <2> QED
      BY <2>1, ReturnStep DEF SaveAuthorization, IInv, TypeOK, LateOK, Holds
  <1>3. CASE record[d] = None
    <2>1. record' = [record EXCEPT ![d] = new] /\ new \in Record
      BY <1>1, <1>3 DEF SaveAuthorization, IInv, TypeOK, Record
    <2>2. record'[d] = new /\ \A e \in Decisions \ {d} : record'[e] = record[e]
      BY <1>1, <2>1 DEF IInv, TypeOK
    <2>3. Grows
      BY <1>3, <2>2 DEF SaveAuthorization, Grows
    <2>4. mtp[d] = None /\ local[d] = None /\ \A r \in ExecRefs : <<d, r, "success">> \notin told
      BY <1>1, <1>3, NoneAssumption DEF IInv, RecordAgreesWithMtp, LocalNeedsMtp, SuccessIsTrue
    <2>5. RefsUnique' /\ ReceiptsClaimed' /\ RecordAgreesWithMtp'
      BY <1>1, <2>2, <2>4 DEF SaveAuthorization, IInv, RefsUnique, ReceiptsClaimed, RecordAgreesWithMtp
    <2>7. LocalNeedsMtp' /\ SuccessIsTrue'
      BY <1>1, <2>2, <2>4 DEF SaveAuthorization, IInv, LocalNeedsMtp, SuccessIsTrue
    <2>8. record' \in [Decisions -> Record \cup {None}]
      BY <2>1 DEF IInv, TypeOK
    <2>6. CallOK(c)'
      BY <1>1, IdleOK
    <2> QED
      BY <2>3, <2>5, <2>6, <2>7, <2>8, IdleInCall, TableStep DEF SaveAuthorization, Return, IInv, TypeOK
  <1> QED
    BY <1>2, <1>3

LEMMA ClaimKeeps == ASSUME IInv, NEW c \in Callers, ClaimExecution(c) PROVE IInv'
  <1> DEFINE d == call[c].decision
             r == call[c].ref
  <1>1. /\ call[c].pc = "claim" /\ call[c] \in Call /\ CallOK(c)
        /\ d \in Decisions /\ r \in ExecRefs /\ record[d] \in Record
    BY DEF ClaimExecution, At, IInv, TypeOK, CallOK
  <1>2. UNCHANGED <<issued, lapsed, mtp, local, late, failures, told>>
    BY DEF ClaimExecution
  <1>3. CASE Return(c) /\ UNCHANGED record
    BY <1>2, <1>3, ReturnStep DEF IInv, TypeOK, LateOK, Holds
  <1>4. CASE Goto(c, "claimRead") /\ UNCHANGED record
    <2> DEFINE x == [call[c] EXCEPT !.pc = "claimRead"]
    <2>1. x \in Call
      BY <1>1 DEF Call
    <2>2. call' = [call EXCEPT ![c] = x] /\ call'[c] = x
      BY <1>4 DEF Goto, IInv, TypeOK
    <2>3. CallOK(c)'
      BY <1>1, <1>2, <1>4, <2>2 DEF CallOK, AfterClaimed, Call
    <2> QED
      BY <1>2, <1>4, <2>1, <2>2, <2>3, MoveStep DEF IInv, TypeOK
  <1>5. CASE /\ Unclaimed(d) /\ ~RefTaken(d, r)
             /\ record' = [record EXCEPT ![d].ref = r] /\ Goto(c, "reread")
    <2> DEFINE x == [call[c] EXCEPT !.pc = "reread"]
               new == [record[d] EXCEPT !.ref = r]
    <2>1. x \in Call /\ new \in Record
      BY <1>1 DEF Call, Record
    <2>2. call' = [call EXCEPT ![c] = x] /\ call'[c] = x
      BY <1>5 DEF Goto, IInv, TypeOK
    <2>3. record' = [record EXCEPT ![d] = new]
      BY <1>5
    <2>4. record'[d] = new /\ \A e \in Decisions \ {d} : record'[e] = record[e]
      BY <1>1, <2>3 DEF IInv, TypeOK
    <2>5. /\ new.ref = r /\ new.audit = record[d].audit /\ record[d].ref = None
          /\ record[d] # None /\ new # None
      BY <1>1, <1>5, <2>1, NoRecordAssumption DEF Unclaimed, Record
    <2>6. Grows
      BY <1>2, <2>4, <2>5 DEF Grows
    <2>7. mtp[d] = None /\ record[d].audit = None /\ local[d] = None
      BY <1>1, <2>5 DEF IInv, ReceiptsClaimed, RecordAgreesWithMtp, LocalNeedsMtp
    <2>8. CallOK(c)'
      <3>1. call[c].resumed = FALSE
        BY <1>1, <2>7 DEF CallOK, Call
      <3>2. /\ call'[c].pc = "reread" /\ call'[c].decision = d /\ call'[c].ref = r
            /\ call'[c].resumed = FALSE
        BY <1>1, <2>2, <3>1 DEF Call
      <3>3. record'[d] # None /\ record'[d].ref = r
        BY <2>4, <2>5
      <3> QED
        BY <1>1, <3>2, <3>3 DEF CallOK, Holds, AfterClaimed
    <2>9. RefsUnique'
      BY <1>5, <2>4, <2>5, NoneAssumption, <1>1 DEF RefsUnique, RefTaken, IInv
    <2>10. ReceiptsClaimed' /\ RecordAgreesWithMtp' /\ LocalNeedsMtp'
      <3>1. ReceiptsClaimed' /\ RecordAgreesWithMtp'
        BY <1>1, <1>2, <2>4, <2>5, <2>7 DEF ReceiptsClaimed, RecordAgreesWithMtp, IInv
      <3>2. LocalNeedsMtp'
        BY <1>1, <1>2, <2>4, <2>7 DEF LocalNeedsMtp, IInv
      <3> QED
        BY <3>1, <3>2
    <2>11. SuccessIsTrue'
      BY <1>1, <1>2, <2>4, <2>7, NoneAssumption DEF SuccessIsTrue, IInv
    <2>12. record' \in [Decisions -> Record \cup {None}]
      BY <2>1, <2>3 DEF IInv, TypeOK
    <2> QED
      BY <1>2, <2>1, <2>2, <2>6, <2>8, <2>9, <2>10, <2>11, <2>12, TableStep DEF IInv, TypeOK
  <1> QED
    BY <1>3, <1>4, <1>5 DEF ClaimExecution

LEMMA MtpAcceptsKeeps == ASSUME IInv, NEW c \in Callers, MtpAccepts(c) PROVE IInv'
  <1> DEFINE d == call[c].decision
             r == call[c].ref
  <1>1. /\ call[c].pc = "mtp" /\ call[c] \in Call /\ CallOK(c)
        /\ d \in Decisions /\ r \in ExecRefs /\ Holds(d, r) /\ call[c].resumed = FALSE
    BY DEF MtpAccepts, At, IInv, TypeOK, CallOK, AfterClaimed, Call
  <1>2. UNCHANGED <<issued, lapsed, record, local, late, failures, told>>
    BY DEF MtpAccepts
  <1>3. PICK s \in {"consumed", "idempotent"} : call' = [call EXCEPT ![c].pc = "mark", ![c].status = s]
    BY DEF MtpAccepts
  <1> DEFINE x == [call[c] EXCEPT !.pc = "mark", !.status = s]
  <1>4. x \in Call
    BY <1>1 DEF Call
  <1>5. call' = [call EXCEPT ![c] = x] /\ call'[c] = x
    BY <1>3 DEF IInv, TypeOK
  <1>6. mtp'[d] = r /\ (mtp[d] # None => mtp[d] = r) /\ \A e \in Decisions \ {d} : mtp'[e] = mtp[e]
    BY <1>1 DEF MtpAccepts, MtpConsumes, MtpRepeats, IInv, TypeOK
  <1>7. mtp' \in [Decisions -> ExecRefs \cup {None}]
    BY <1>1 DEF MtpAccepts, IInv, TypeOK
  <1>8. Grows
    BY <1>2, <1>6 DEF Grows
  <1>9. CallOK(c)'
    <2>1. /\ call'[c].pc = "mark" /\ call'[c].decision = d /\ call'[c].ref = r
          /\ call'[c].status = s /\ call'[c].resumed = FALSE
      BY <1>1, <1>5 DEF Call
    <2>2. s # None
      BY NoRecordAssumption
    <2> QED
      BY <1>1, <1>2, <1>6, <2>1, <2>2 DEF CallOK, Holds, AfterClaimed
  <1>10. RefsUnique' /\ ReceiptsClaimed'
    BY <1>2 DEF IInv, RefsUnique, ReceiptsClaimed
  <1>11. RecordAgreesWithMtp' /\ LocalNeedsMtp' /\ SuccessIsTrue'
    BY <1>1, <1>2, <1>6, NoneAssumption
    DEF IInv, Holds, RecordAgreesWithMtp, LocalNeedsMtp, SuccessIsTrue
  <1> QED
    BY <1>2, <1>4, <1>5, <1>7, <1>8, <1>9, <1>10, <1>11, TableStep DEF IInv, TypeOK

LEMMA MtpRejectsKeeps == ASSUME IInv, NEW c \in Callers, MtpRejects(c) PROVE IInv'
  <1>1. /\ Holds(call[c].decision, call[c].ref)
        /\ call[c].decision \in Decisions /\ call[c].ref \in ExecRefs
    BY DEF MtpRejects, At, IInv, CallOK, AfterClaimed
  <1>2. late' \subseteq Decisions \X ExecRefs /\ LateOK'
    BY <1>1 DEF MtpRejects, IInv, TypeOK, LateOK, Holds
  <1>3. failures' \in 0..MaxFailures
    BY BoundAssumption DEF MtpRejects, IInv, TypeOK
  <1> QED
    BY <1>2, <1>3, ReturnStep DEF MtpRejects, RejectConsumption

LEMMA FailKeeps == ASSUME IInv, NEW c \in Callers, Fail(c) PROVE IInv'
  <1>1. At(c, "mtp") =>
        /\ Holds(call[c].decision, call[c].ref)
        /\ call[c].decision \in Decisions /\ call[c].ref \in ExecRefs
    BY DEF At, IInv, CallOK, AfterClaimed
  <1>2. late' \subseteq Decisions \X ExecRefs /\ LateOK'
    BY <1>1 DEF Fail, IInv, TypeOK, LateOK, Holds
  <1>3. failures' \in 0..MaxFailures
    BY BoundAssumption DEF Fail, IInv, TypeOK
  <1> QED
    BY <1>2, <1>3, ReturnStep DEF Fail

LEMMA MtpServesLateKeeps ==
    ASSUME IInv, NEW d \in Decisions, NEW r \in ExecRefs, MtpServesLate(d, r)
    PROVE  IInv'
  <1>1. UNCHANGED <<issued, lapsed, record, local, call, late, failures, told>>
    BY DEF MtpServesLate
  <1>2. Holds(d, r) /\ mtp[d] = None
    BY DEF MtpServesLate, MtpConsumes, IInv, LateOK
  <1>3. mtp' \in [Decisions -> ExecRefs \cup {None}]
    BY DEF MtpServesLate, IInv, TypeOK
  <1>4. mtp'[d] = r /\ \A e \in Decisions \ {d} : mtp'[e] = mtp[e]
    BY DEF MtpServesLate, IInv, TypeOK
  <1>5. Grows
    BY <1>1, <1>2, <1>4 DEF Grows
  <1>6. TypeOK'
    BY <1>1, <1>3 DEF IInv, TypeOK
  <1>7. (\A c \in Callers : CallOK(c)') /\ LateOK'
    BY <1>1, <1>5, OthersKeep, LateKeeps DEF IInv
  <1>8. RefsUnique' /\ ReceiptsClaimed'
    BY <1>1 DEF IInv, RefsUnique, ReceiptsClaimed
  <1>9. RecordAgreesWithMtp' /\ LocalNeedsMtp' /\ SuccessIsTrue'
    <2>1. RecordAgreesWithMtp'
      BY <1>1, <1>2, <1>4, NoneAssumption DEF IInv, Holds, RecordAgreesWithMtp
    <2>2. LocalNeedsMtp'
      BY <1>1, <1>2, <1>4, NoneAssumption DEF IInv, Holds, LocalNeedsMtp
    <2>3. SuccessIsTrue'
      BY <1>1, <1>2, <1>4, NoneAssumption DEF IInv, SuccessIsTrue
    <2> QED
      BY <2>1, <2>2, <2>3
  <1> QED
    BY <1>6, <1>7, <1>8, <1>9 DEF IInv

LEMMA MarkKeeps == ASSUME IInv, NEW c \in Callers, MarkMtpConsumed(c) PROVE IInv'
  <1> DEFINE d == call[c].decision
             r == call[c].ref
             t == call[c].status
  <1>1. /\ call[c].pc = "mark" /\ call[c] \in Call /\ CallOK(c)
        /\ d \in Decisions /\ r \in ExecRefs /\ Holds(d, r) /\ mtp[d] = r
        /\ t \in {"consumed", "idempotent"} /\ record[d] \in Record
    BY DEF MarkMtpConsumed, At, IInv, TypeOK, CallOK, AfterClaimed, Call, Holds
  <1>2. UNCHANGED <<issued, lapsed, mtp, local, late, failures, told>>
    BY DEF MarkMtpConsumed
  <1>3. CASE Return(c) /\ UNCHANGED record
    BY <1>2, <1>3, ReturnStep DEF IInv, TypeOK, LateOK, Holds
  <1>4. CASE record' = [record EXCEPT ![d].audit = t] /\ Goto(c, "local")
    <2> DEFINE x == [call[c] EXCEPT !.pc = "local"]
               new == [record[d] EXCEPT !.audit = t]
    <2>1. x \in Call /\ new \in Record
      BY <1>1 DEF Call, Record
    <2>2. call' = [call EXCEPT ![c] = x] /\ call'[c] = x
      BY <1>4 DEF Goto, IInv, TypeOK
    <2>3. record' = [record EXCEPT ![d] = new]
      BY <1>4
    <2>4. record'[d] = new /\ \A e \in Decisions \ {d} : record'[e] = record[e]
      BY <1>1, <2>3 DEF IInv, TypeOK
    <2>5. /\ new.ref = r /\ new.audit = t /\ new.complete = record[d].complete
          /\ t # None /\ new # None /\ record[d].ref = r /\ record[d] # None
      BY <1>1, <2>1, NoRecordAssumption DEF Holds, Record
    <2>6. Grows
      BY <1>2, <2>4, <2>5 DEF Grows
    <2>7. CallOK(c)'
      <3>1. call'[c].pc = "local" /\ call'[c].decision = d /\ call'[c].ref = r
        BY <1>1, <2>2 DEF Call
      <3>2. record'[d] # None /\ record'[d].ref = r /\ record'[d].audit # None
        BY <2>4, <2>5
      <3> QED
        BY <1>1, <1>2, <3>1, <3>2 DEF CallOK, Holds, AfterClaimed
    <2> HIDE DEF new
    <2>14. \A e \in Decisions :
             /\ record'[e] # None <=> record[e] # None
             /\ record'[e].ref = record[e].ref /\ record'[e].complete = record[e].complete
             /\ record[e].audit # None => record'[e].audit # None
      BY <2>4, <2>5
    <2>8. RefsUnique'
      BY <2>14 DEF RefsUnique, IInv
    <2>9. ReceiptsClaimed'
      BY <2>4, <2>5, <1>1, NoneAssumption DEF ReceiptsClaimed, IInv
    <2>10. RecordAgreesWithMtp'
      BY <1>1, <1>2, <2>4, <2>5 DEF RecordAgreesWithMtp, IInv
    <2>11. LocalNeedsMtp'
      BY <1>2, <2>14 DEF LocalNeedsMtp, IInv
    <2>12. SuccessIsTrue'
      BY <1>2, <2>14 DEF SuccessIsTrue, IInv
    <2>13. record' \in [Decisions -> Record \cup {None}]
      BY <2>1, <2>3 DEF IInv, TypeOK
    <2> QED
      BY <1>2, <2>1, <2>2, <2>6, <2>7, <2>8, <2>9, <2>10, <2>11, <2>12, <2>13, TableStep
      DEF IInv, TypeOK
  <1> QED
    BY <1>3, <1>4 DEF MarkMtpConsumed

LEMMA LocalKeeps == ASSUME IInv, NEW c \in Callers, LocalConsume(c) PROVE IInv'
  <1> DEFINE d == call[c].decision
             r == call[c].ref
  <1>1. /\ call[c].pc = "local" /\ call[c] \in Call /\ CallOK(c)
        /\ d \in Decisions /\ r \in ExecRefs /\ Holds(d, r) /\ mtp[d] = r
        /\ record[d].audit # None
    BY DEF LocalConsume, At, IInv, CallOK, AfterClaimed, TypeOK
  <1>2. UNCHANGED <<issued, lapsed, record, mtp, late, failures>>
    BY DEF LocalConsume
  <1>3. RefsUnique' /\ ReceiptsClaimed' /\ RecordAgreesWithMtp'
    BY <1>2 DEF IInv, RefsUnique, ReceiptsClaimed, RecordAgreesWithMtp
  <1>4. CASE Return(c) /\ UNCHANGED <<local, told>>
    BY <1>2, <1>4, ReturnStep DEF IInv, TypeOK, LateOK, Holds
  <1>5. CASE Answer(c, "refused") /\ UNCHANGED local
    <2>1. call' = [call EXCEPT ![c] = Idle] /\ call'[c] = Idle
      BY <1>5 DEF Answer, Return, IInv, TypeOK
    <2>2. told' = told \cup {<<d, r, "refused">>}
      BY <1>5 DEF Answer
    <2>3. told' \subseteq Decisions \X ExecRefs \X {"success", "refused"}
      BY <1>1, <2>2 DEF IInv, TypeOK
    <2>4. CallOK(c)'
      BY <2>1, IdleOK
    <2>5. Grows
      BY <1>2, <1>5 DEF Grows
    <2>6. \A e \in Decisions, q \in ExecRefs :
            <<e, q, "success">> \in told' => <<e, q, "success">> \in told
      BY <2>2
    <2>7. LocalNeedsMtp' /\ SuccessIsTrue'
      BY <1>2, <1>5, <2>6 DEF IInv, LocalNeedsMtp, SuccessIsTrue
    <2> QED
      BY <1>2, <1>3, <1>5, <2>1, <2>3, <2>4, <2>5, <2>7, IdleInCall, TableStep DEF IInv, TypeOK
  <1>6. CASE /\ local[d] = None \/ local[d] = r
             /\ local' = [local EXCEPT ![d] = r]
             /\ Goto(c, "complete") /\ UNCHANGED told
    <2> DEFINE x == [call[c] EXCEPT !.pc = "complete"]
    <2>1. x \in Call
      BY <1>1 DEF Call
    <2>2. call' = [call EXCEPT ![c] = x] /\ call'[c] = x
      BY <1>6 DEF Goto, IInv, TypeOK
    <2>3. local'[d] = r /\ \A e \in Decisions \ {d} : local'[e] = local[e]
      BY <1>1, <1>6 DEF IInv, TypeOK
    <2>4. local' \in [Decisions -> ExecRefs \cup {None}]
      BY <1>1, <1>6 DEF IInv, TypeOK
    <2>5. Grows
      BY <1>2, <1>6, <2>3 DEF Grows
    <2>6. CallOK(c)'
      <3>1. call'[c].pc = "complete" /\ call'[c].decision = d /\ call'[c].ref = r
        BY <1>1, <2>2 DEF Call
      <3> QED
        BY <1>1, <1>2, <2>3, <3>1 DEF CallOK, Holds, AfterClaimed
    <2>7. LocalNeedsMtp' /\ SuccessIsTrue'
      <3>1. LocalNeedsMtp'
        BY <1>1, <1>2, <2>3 DEF IInv, Holds, LocalNeedsMtp
      <3>2. SuccessIsTrue'
        BY <1>1, <1>2, <1>6, <2>3, NoneAssumption DEF IInv, SuccessIsTrue
      <3> QED
        BY <3>1, <3>2
    <2> QED
      BY <1>2, <1>3, <1>6, <2>1, <2>2, <2>4, <2>5, <2>6, <2>7, TableStep DEF IInv, TypeOK
  <1>7. local[d] = r => local = [local EXCEPT ![d] = r]
    BY <1>1 DEF IInv, TypeOK
  <1> QED
    BY <1>4, <1>5, <1>6, <1>7 DEF LocalConsume

LEMMA CompleteKeeps == ASSUME IInv, NEW c \in Callers, MarkComplete(c) PROVE IInv'
  <1> DEFINE d == call[c].decision
             r == call[c].ref
             new == [record[d] EXCEPT !.complete = TRUE]
  <1>1. /\ call[c].pc = "complete" /\ CallOK(c) /\ d \in Decisions /\ r \in ExecRefs
        /\ Holds(d, r) /\ mtp[d] = r /\ local[d] = r /\ record[d] \in Record
    BY DEF MarkComplete, At, IInv, CallOK, AfterClaimed, TypeOK, Holds
  <1>2. UNCHANGED <<issued, lapsed, mtp, local, late, failures>>
    BY DEF MarkComplete
  <1>3. record' = [record EXCEPT ![d] = new] /\ new \in Record
    BY <1>1 DEF MarkComplete, Completed, Record
  <1>4. record'[d] = new /\ \A e \in Decisions \ {d} : record'[e] = record[e]
    BY <1>1, <1>3 DEF IInv, TypeOK
  <1>5. /\ new # None /\ new.ref = record[d].ref /\ new.audit = record[d].audit
        /\ new.complete = TRUE /\ record[d].ref = r /\ record[d] # None
    BY <1>1, <1>3, NoRecordAssumption DEF Record, Holds
  <1>6. call' = [call EXCEPT ![c] = Idle] /\ call'[c] = Idle
    BY DEF MarkComplete, Answer, Return, IInv, TypeOK
  <1>7. told' = told \cup {<<d, r, "success">>}
    BY DEF MarkComplete, Answer
  <1>8. told' \subseteq Decisions \X ExecRefs \X {"success", "refused"}
    BY <1>1, <1>7 DEF IInv, TypeOK
  <1>9. Grows
    BY <1>2, <1>4, <1>5 DEF Grows
  <1>10. CallOK(c)'
    BY <1>6, IdleOK
  <1> HIDE DEF new
  <1>15. \A e \in Decisions :
           /\ record'[e] # None <=> record[e] # None
           /\ record'[e].ref = record[e].ref /\ record'[e].audit = record[e].audit
           /\ record[e].complete => record'[e].complete
    BY <1>4, <1>5
  <1>11. RefsUnique' /\ ReceiptsClaimed'
    <2>1. RefsUnique'
      BY <1>15 DEF IInv, RefsUnique
    <2>2. ReceiptsClaimed'
      BY <1>15 DEF IInv, ReceiptsClaimed
    <2> QED
      BY <2>1, <2>2
  <1>12. RecordAgreesWithMtp' /\ LocalNeedsMtp'
    <2>1. RecordAgreesWithMtp'
      BY <1>2, <1>15 DEF IInv, RecordAgreesWithMtp
    <2>2. LocalNeedsMtp'
      BY <1>2, <1>15 DEF IInv, LocalNeedsMtp
    <2> QED
      BY <2>1, <2>2
  <1>13. SuccessIsTrue'
    <2> SUFFICES ASSUME NEW e \in Decisions, NEW q \in ExecRefs, <<e, q, "success">> \in told'
                 PROVE  mtp'[e] = q /\ local'[e] = q /\ record'[e].ref = q /\ record'[e].complete
      BY DEF SuccessIsTrue
    <2>1. CASE e = d /\ q = r
      BY <1>1, <1>2, <1>4, <1>5, <2>1
    <2>2. CASE <<e, q, "success">> \in told
      BY <1>2, <1>15, <2>2 DEF IInv, SuccessIsTrue
    <2> QED
      BY <1>7, <2>1, <2>2
  <1>14. record' \in [Decisions -> Record \cup {None}]
    BY <1>3 DEF IInv, TypeOK
  <1> QED
    BY <1>2, <1>6, <1>8, <1>9, <1>10, <1>11, <1>12, <1>13, <1>14, IdleInCall, TableStep
    DEF IInv, TypeOK

-----------------------------------------------------------------------------
(* The invariant                                                           *)

LEMMA StutterKeeps ==
    ASSUME IInv, UNCHANGED <<issued, record, mtp, local, call, late, failures, told>>,
           lapsed' \subseteq Authorities \X Decisions
    PROVE  IInv'
  <1>1. TypeOK'
    BY DEF IInv, TypeOK
  <1>2. Grows
    BY DEF Grows
  <1>3. (\A c \in Callers : CallOK(c)') /\ LateOK'
    BY <1>2, OthersKeep, LateKeeps DEF IInv
  <1>4. RefsUnique' /\ ReceiptsClaimed' /\ RecordAgreesWithMtp' /\ LocalNeedsMtp' /\ SuccessIsTrue'
    BY DEF IInv, RefsUnique, ReceiptsClaimed, RecordAgreesWithMtp, LocalNeedsMtp, SuccessIsTrue
  <1> QED
    BY <1>1, <1>3, <1>4 DEF IInv

LEMMA InitIInv == Init => IInv
  <1> SUFFICES ASSUME Init PROVE IInv
    OBVIOUS
  <1>1. TypeOK
    BY IdleInCall, BoundAssumption DEF Init, TypeOK
  <1>2. \A c \in Callers : CallOK(c)
    BY DEF Init, CallOK, Idle, AfterClaimed
  <1>3. LateOK /\ RefsUnique /\ ReceiptsClaimed /\ RecordAgreesWithMtp /\ LocalNeedsMtp /\ SuccessIsTrue
    BY DEF Init, LateOK, RefsUnique, ReceiptsClaimed, RecordAgreesWithMtp, LocalNeedsMtp, SuccessIsTrue
  <1> QED
    BY <1>1, <1>2, <1>3 DEF IInv

LEMMA NextKeeps == IInv /\ [Next]_vars => IInv'
  <1> SUFFICES ASSUME IInv, [Next]_vars PROVE IInv'
    OBVIOUS
  <1>1. CASE UNCHANGED vars
    BY <1>1, StutterKeeps DEF vars, IInv, TypeOK
  <1>2. ASSUME NEW c \in Callers, Step(c) PROVE IInv'
    BY <1>2, ReadsKeep, SaveKeeps, ClaimKeeps, MtpAcceptsKeeps, MtpRejectsKeeps, MarkKeeps,
       LocalKeeps, CompleteKeeps DEF Step
  <1>3. ASSUME NEW c \in Callers, Fail(c) PROVE IInv'
    BY <1>3, FailKeeps
  <1>4. ASSUME NEW c \in Callers, NEW d \in Decisions, Issue(c, d) PROVE IInv'
    BY <1>4, IssueKeeps
  <1>5. ASSUME NEW c \in Callers, NEW d \in Decisions, NEW r \in ExecRefs, Begin(c, d, r)
        PROVE  IInv'
    BY <1>5, BeginKeeps
  <1>6. ASSUME NEW d \in Decisions, NEW r \in ExecRefs, MtpServesLate(d, r) PROVE IInv'
    BY <1>6, MtpServesLateKeeps
  <1>7. ASSUME NEW a \in Authorities, NEW d \in Decisions, Lapse(a, d) PROVE IInv'
    BY <1>7, StutterKeeps DEF Lapse, IInv, TypeOK
  <1> QED
    BY <1>1, <1>2, <1>3, <1>4, <1>5, <1>6, <1>7 DEF Next

(* Every reachable state satisfies the inductive invariant: whatever calls *)
(* run, fail or are answered late, each call knows what its await says and *)
(* the row agrees with what both authorities did.                          *)
THEOREM Invariant == Spec => []IInv
  BY InitIInv, NextKeeps, PTL DEF Spec

(* The calls, the rows and both authorities keep their types.              *)
THEOREM TypeCorrect == Spec => []TypeOK
  <1>1. IInv => TypeOK
    BY DEF IInv
  <1> QED
    BY <1>1, Invariant, PTL

(* The local provider consumes, and counts spend, only for the reference   *)
(* MTP consumed and whose receipt is stored (provider.ts:142-156).         *)
THEOREM LocalOnlyAfterMtp == Spec => []LocalNeedsMtp
  <1>1. IInv => LocalNeedsMtp
    BY DEF IInv
  <1> QED
    BY <1>1, Invariant, PTL

(* The row agrees with the MTP service, requests answered after their      *)
(* sender stopped waiting included.                                        *)
THEOREM RowAgrees == Spec => []RecordAgreesWithMtp
  <1>1. IInv => RecordAgreesWithMtp
    BY DEF IInv
  <1> QED
    BY <1>1, Invariant, PTL

(* No two decisions are consumed for one execution reference, at MTP or    *)
(* locally: the unique index on the claim reaches both authorities.        *)
THEOREM OneDecision == Spec => []OneDecisionPerReference
  <1>1. IInv => OneDecisionPerReference
    <2> SUFFICES ASSUME IInv, NEW d \in Decisions, NEW e \in Decisions, d # e
                 PROVE  /\ mtp[d] # None => mtp[d] # mtp[e]
                        /\ local[d] # None => local[d] # local[e]
      BY DEF OneDecisionPerReference
    <2>1. mtp[d] # None => mtp[d] # mtp[e]
      BY DEF IInv, RefsUnique, RecordAgreesWithMtp
    <2>2. local[d] # None /\ local[d] = local[e] => mtp[d] # None /\ mtp[d] = mtp[e]
      BY DEF IInv, LocalNeedsMtp
    <2> QED
      BY <2>1, <2>2
  <1> QED
    BY <1>1, Invariant, PTL

(* Who is told of success holds both authorities for its reference, and no *)
(* later call takes that away.                                             *)
THEOREM SuccessHolds == Spec => []SuccessIsTrue
  <1>1. IInv => SuccessIsTrue
    BY DEF IInv
  <1> QED
    BY <1>1, Invariant, PTL

(* A call that found a stored receipt never asks MTP again, although it    *)
(* decides on a second read of the row.                                    *)
THEOREM NeverAsksTwice == Spec => ResumesLocally
  <1>1. IInv' => \A c \in Callers : call'[c].pc = "mtp" => ~call'[c].resumed
    BY DEF IInv, CallOK
  <1>2. IInv /\ [Next]_vars => [\A c \in Callers : call'[c].pc = "mtp" => ~call'[c].resumed]_vars
    BY <1>1, NextKeeps
  <1> QED
    BY <1>2, Invariant, PTL DEF Spec, ResumesLocally
-----------------------------------------------------------------------------
(* The composite implements SingleExecution                                *)

(* A step of which neither authority and no successful caller knows.       *)
LEMMA CompositeStutter ==
    ASSUME UNCHANGED <<mtp, local, told>> PROVE UNCHANGED Single!vars
  BY DEF Single!vars, Executed, Successful

(* MTP consumes a token, for a caller that waits or for one that is gone.  *)
LEMMA TokenRefines ==
    ASSUME NEW d \in Decisions, NEW r \in ExecRefs, mtp[d] = None,
           mtp' = [mtp EXCEPT ![d] = r], UNCHANGED <<local, told>>
    PROVE  Single!Next
  <1>1. Single!Consume(d, r)
    BY DEF Single!Consume, Executed, Successful
  <1> QED
    BY <1>1 DEF Single!Next

LEMMA MtpAcceptsRefines ==
    ASSUME IInv, NEW c \in Callers, MtpAccepts(c) PROVE [Single!Next]_(Single!vars)
  <1>1. PICK d \in Decisions, r \in ExecRefs : d = call[c].decision /\ r = call[c].ref
    BY DEF MtpAccepts, At, IInv, CallOK
  <1>2. UNCHANGED <<local, told>>
    BY DEF MtpAccepts
  <1>3. \/ mtp[d] = None /\ mtp' = [mtp EXCEPT ![d] = r]
        \/ UNCHANGED mtp
    BY <1>1 DEF MtpAccepts, MtpConsumes
  <1> QED
    BY <1>2, <1>3, TokenRefines, CompositeStutter

(* The first local consumption is the only one for its reference, since    *)
(* the claim index lets no other decision hold it.                         *)
LEMMA LocalRefines ==
    ASSUME IInv, NEW c \in Callers, LocalConsume(c) PROVE [Single!Next]_(Single!vars)
  <1>1. PICK d \in Decisions, r \in ExecRefs :
            /\ d = call[c].decision /\ r = call[c].ref
            /\ mtp[d] = r /\ Holds(d, r)
    BY DEF LocalConsume, At, IInv, CallOK, AfterClaimed
  <1>2. UNCHANGED mtp
    BY DEF LocalConsume
  <1>3. CASE local[d] = None /\ local' = [local EXCEPT ![d] = r] /\ UNCHANGED told
    <2>1. ASSUME NEW e \in Decisions PROVE local[e] # r
      BY <1>1, <1>3, NoneAssumption DEF IInv, LocalNeedsMtp, RefsUnique, Holds
    <2>2. local'[d] = r /\ \A e \in Decisions \ {d} : local'[e] = local[e]
      BY <1>3 DEF IInv, TypeOK
    <2>3. \A s \in ExecRefs : local[d] # s
      BY <1>3, NoneAssumption
    <2>4. Executed' = [Executed EXCEPT ![d][r] = 1]
      <3>1. \A e \in Decisions, s \in ExecRefs :
                Executed'[e][s] = IF e = d /\ s = r THEN 1 ELSE Executed[e][s]
        BY <2>2, <2>3 DEF Executed
      <3>2. /\ Executed = [e \in Decisions |-> [s \in ExecRefs |-> Executed[e][s]]]
            /\ Executed' = [e \in Decisions |-> [s \in ExecRefs |-> Executed'[e][s]]]
        BY DEF Executed
      <3> QED
        BY <3>1, <3>2
    <2>5. Single!Execute(d, r)
      BY <1>1, <1>2, <1>3, <2>1, <2>4 DEF Single!Execute, Single!Untouched, Executed, Successful
    <2> QED
      BY <2>5 DEF Single!Next
  <1>4. CASE UNCHANGED <<local, told>>
    BY <1>2, <1>4, CompositeStutter
  <1>5. CASE Answer(c, "refused") /\ UNCHANGED local
    <2>1. UNCHANGED Successful
      BY <1>5 DEF Answer, Successful
    <2> QED
      BY <1>2, <1>5, <2>1 DEF Single!vars, Executed
  <1> QED
    BY <1>1, <1>3, <1>4, <1>5 DEF LocalConsume

LEMMA SuccessRefines ==
    ASSUME IInv, NEW c \in Callers, MarkComplete(c) PROVE Single!Next
  <1>1. PICK d \in Decisions, r \in ExecRefs :
            d = call[c].decision /\ r = call[c].ref /\ local[d] = r
    BY DEF MarkComplete, At, IInv, CallOK
  <1>2. UNCHANGED <<mtp, local>> /\ told' = told \cup {<<d, r, "success">>}
    BY <1>1 DEF MarkComplete, Answer
  <1>3. Successful' = Successful \cup {r}
    BY <1>2 DEF Successful
  <1>4. Executed[d][r] = 1 /\ UNCHANGED Executed
    BY <1>1, <1>2 DEF Executed
  <1>5. Single!Report(r)
    BY <1>2, <1>3, <1>4 DEF Single!Report, Single!Untouched
  <1> QED
    BY <1>5 DEF Single!Next

LEMMA StepRefines ==
    ASSUME IInv, [Next]_vars PROVE [Single!Next]_(Single!vars)
  <1>1. CASE UNCHANGED <<mtp, local, told>>
    BY <1>1, CompositeStutter
  <1>2. ASSUME NEW d \in Decisions, NEW r \in ExecRefs, MtpServesLate(d, r)
        PROVE  [Single!Next]_(Single!vars)
    BY <1>2, TokenRefines DEF MtpServesLate, MtpConsumes
  <1>3. \/ UNCHANGED <<mtp, local, told>>
        \/ \E c \in Callers : MtpAccepts(c) \/ LocalConsume(c) \/ MarkComplete(c)
        \/ \E d \in Decisions, r \in ExecRefs : MtpServesLate(d, r)
    BY DEF vars, Next, Step, Issue, Authorize, SaveAuthorization, Begin, GetAuthorization,
       ClaimExecution, ClaimRead, Reread, MtpRejects, MarkMtpConsumed, Lapse, Fail
  <1> QED
    BY <1>1, <1>2, <1>3, MtpAcceptsRefines, LocalRefines, SuccessRefines

LEMMA InitRefines == Init => Single!Init
  BY NoneAssumption DEF Init, Single!Init, Executed, Successful

(* Every behaviour of the composite is one of SingleExecution: the token   *)
(* is used up for a reference, the reference has one local consumption by  *)
(* it, and success is told after it - races, lost answers, crashes and     *)
(* requests that MTP serves late included.                                 *)
THEOREM CompositeImplementsExecution == Spec => ImplementsExecution
  <1>1. IInv /\ [Next]_vars => [Single!Next]_(Single!vars)
    BY StepRefines
  <1> QED
    BY <1>1, InitRefines, Invariant, PTL DEF Spec, ImplementsExecution, Single!Spec
=============================================================================
