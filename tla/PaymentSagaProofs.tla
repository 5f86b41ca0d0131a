-------------------------- MODULE PaymentSagaProofs --------------------------
(***************************************************************************)
(* Proofs about PaymentSaga for any set of payments and threads and any    *)
(* bounds: type correctness, the inductive invariant SagaInv with the      *)
(* safety properties it implies, the consumer's commit rule, and the       *)
(* refinement of PaymentOutcome.                                           *)
(***************************************************************************)
EXTENDS PaymentSaga, TLAPS

\* The part of TypeOK about the variables that Goto, Begin and the returns set.
ControlType ==
    /\ mode \in {"down", "booting", "serving"}
    /\ pc \in [Threads -> Labels]
    /\ pay \in [Threads -> Payments \cup {NoPayment}]
    /\ cur \in [Threads -> Saga]
    /\ topic \in Topics \cup {"none"}
    /\ position \in [Topics -> Nat]

\* The rest of TypeOK.
DataType ==
    /\ todo \in [{"boot", "reaper"} -> SUBSET Payments]
    /\ committed \in [Topics -> Nat]
    /\ log \in [Topics -> Seq(Payments)]
    /\ row \in [Payments -> Saga]
    /\ outbox \subseteq {"payment.execute", "fraud.score.requested",
                         "tx.completed", "tx.failed"} \X Payments
    /\ paused \in [Payments -> Nat]
    /\ audit \subseteq Payments \X AuditEvents \X AuditKinds
    /\ verification \in [Payments -> {"pending", "verified"}]
    /\ debited \subseteq Payments
    /\ refunded \subseteq Payments
    /\ ledger \in [Payments -> {"none", "RESERVED", "CONFIRMED", "CANCELED"}]
    /\ result \in [Payments -> Results \cup {"none"}]
    /\ crashes \in Nat
    /\ errors \in Nat

\* TypeOK in two halves.
LEMMA TypeHalves == TypeOK <=> ControlType /\ DataType
  BY Zenon DEF TypeOK, ControlType, DataType

\* An absent row, and the row that store.Create writes, are saga rows.
LEMMA NoSagaType == NoSaga \in Saga /\ StartedSaga \in Saga
  BY Zenon DEF NoSaga, StartedSaga, Saga, States, Results

\* NextCall is a label or "return", and a label tells the state it is for.
LEMMA NextCallFacts ==
    ASSUME NEW s
    PROVE  /\ NextCall(s) \in Labels \cup {"return"}
           /\ NextCall(s) # "idle"
           /\ NextCall(s) = "reserve" => s = "WALLET_DEBITED"
           /\ NextCall(s) = "execute" => s = "LEDGER_RESERVED"
           /\ NextCall(s) = "publish_completed" => s = "LEDGER_CONFIRMED"
           /\ NextCall(s) = "compensate" => s = "COMPENSATING_WALLET"
           /\ NextCall(s) = "publish_failed" => s = "FAILED"
           /\ NextCall(s) \notin {"update", "completed", "confirm", "failed", "defer"}
  BY Zenon DEF NextCall, Labels

\* A thread that goes on inside its handler leaves the control state typed.
LEMMA GotoType ==
    ASSUME ControlType, NEW t \in Threads, NEW l \in Labels, NEW s \in Saga,
           Goto(t, l, s)
    PROVE  ControlType'
  BY Zenon DEF ControlType, Goto

\* A thread that is done with its payment leaves its own control state typed.
LEMMA ReleaseType ==
    ASSUME ControlType, NEW t \in Threads, Release(t)
    PROVE  /\ pc' \in [Threads -> Labels]
           /\ pay' \in [Threads -> Payments \cup {NoPayment}]
           /\ cur' \in [Threads -> Saga]
           /\ topic' \in Topics \cup {"none"}
  BY Zenon, NoSagaType DEF ControlType, Release, Labels

\* A handler that returns nil leaves the control state typed.
LEMMA ReturnOKType ==
    ASSUME ControlType, NEW t \in Threads, ReturnOK(t)
    PROVE  ControlType'
  <1>1. CASE Goto(t, "commit", NoSaga)
    <2>1. "commit" \in Labels
      BY Zenon DEF Labels
    <2> QED
      BY Zenon, <1>1, <2>1, GotoType, NoSagaType
  <1>2. CASE Release(t) /\ UNCHANGED <<mode, position>>
    BY Zenon, <1>2, ReleaseType DEF ControlType
  <1> QED
    BY Zenon, <1>1, <1>2 DEF ReturnOK

\* A handler that returns an error leaves the control state typed, also when
\* the consumer passes over the record or the boot loop ends the process.
LEMMA ReturnErrorType ==
    ASSUME ControlType, NEW t \in Threads, ReturnError(t)
    PROVE  ControlType'
  <1>1. position' \in [Topics -> Nat]
    <2>1. CASE topic \in Topics
      BY <2>1 DEF ControlType, ReturnError
    <2>2. CASE topic \notin Topics
      BY Zenon, <2>2 DEF ControlType, ReturnError
    <2> QED
      BY Zenon, <2>1, <2>2
  <1>2. mode' \in {"down", "booting", "serving"}
    BY Zenon DEF ControlType, ReturnError
  <1> QED
    BY Zenon, <1>1, <1>2, ReleaseType DEF ControlType, ReturnError

\* A thread that takes up a payment leaves the control state typed.
LEMMA BeginType ==
    ASSUME ControlType, NEW t \in Threads, NEW l \in Labels, NEW p \in Payments,
           NEW s \in Saga, Begin(t, l, p, s), topic' \in Topics \cup {"none"}
    PROVE  ControlType'
  BY Zenon DEF ControlType, Begin

\* A thread that has saved its copy and goes on leaves the control state typed.
LEMMA ProceedType ==
    ASSUME ControlType, NEW t \in Threads, NEW s \in Saga, Proceed(t, s)
    PROVE  ControlType'
  BY Zenon, NextCallFacts, ReturnOKType, GotoType DEF Proceed

\* insertFraudAudit adds at most the new record and removes none.
LEMMA RecordedType ==
    ASSUME DataType, NEW p \in Payments, NEW e \in AuditEvents,
           NEW k \in AuditKinds
    PROVE  /\ Recorded(p, e, k) \subseteq Payments \X AuditEvents \X AuditKinds
           /\ audit \subseteq Recorded(p, e, k)
           /\ \E other \in AuditKinds : <<p, e, other>> \in Recorded(p, e, k)
  <1> DEFINE S == Payments \X AuditEvents \X AuditKinds
  <1>1. audit \subseteq S
    BY Zenon DEF DataType
  <1>2. <<p, e, k>> \in S
    OBVIOUS
  <1>3. CASE e # "review" /\ \E other \in AuditKinds : <<p, e, other>> \in audit
    <2>1. Recorded(p, e, k) = audit
      BY Zenon, <1>3 DEF Recorded
    <2> QED
      BY Zenon, <1>1, <1>3, <2>1
  <1>4. CASE ~(e # "review" /\ \E other \in AuditKinds : <<p, e, other>> \in audit)
    <2>1. Recorded(p, e, k) = audit \cup {<<p, e, k>>}
      BY Zenon, <1>4, Zenon DEF Recorded
    <2> HIDE DEF S
    <2>2. Recorded(p, e, k) \subseteq S /\ audit \subseteq Recorded(p, e, k)
      BY Zenon, <1>1, <1>2, <2>1
    <2> QED
      BY Zenon, <2>1, <2>2 DEF S
  <1> QED
    BY Zenon, <1>3, <1>4

-----------------------------------------------------------------------------
(* Facts are never taken back.                                             *)

Grown(f, g) ==
    /\ f.debited \subseteq g.debited
    /\ f.refunded \subseteq g.refunded
    /\ f.outbox \subseteq g.outbox
    /\ \A p \in Payments :
          /\ f.ledger[p] # "none" => g.ledger[p] # "none"
          /\ f.ledger[p] \in {"CONFIRMED", "CANCELED"} => g.ledger[p] = f.ledger[p]
          /\ f.result[p] # "none" => g.result[p] = f.result[p]

\* A claim that is borne out stays borne out while the facts grow.
LEMMA JustifiedGrows ==
    ASSUME NEW f, NEW g, Grown(f, g), NEW p \in Payments, NEW s,
           s.deferred # "none" => f.result[p] # "none",
           Justified(p, s, f)
    PROVE  Justified(p, s, g)
  BY Zenon DEF Grown, Justified

\* What a label claims stays true while the facts grow.
LEMMA LabelGrows ==
    ASSUME NEW f, NEW g, Grown(f, g), NEW p \in Payments, NEW s, NEW l,
           LabelJustified(l, p, s, f)
    PROVE  LabelJustified(l, p, s, g)
  BY Zenon DEF Grown, LabelJustified

\* The empty copy claims nothing, and so do the labels of a return.
LEMMA NothingClaimed ==
    ASSUME NEW f, NEW p
    PROVE  Justified(p, NoSaga, f) /\ LabelJustified("commit", p, NoSaga, f)
  BY Zenon DEF Justified, LabelJustified, NoSaga

-----------------------------------------------------------------------------
(* The shape all steps of a thread share.                                  *)

SafeControl(t) ==
    \/ \E l \in Labels, s \in Saga :
          /\ Goto(t, l, s)
          /\ Justified(pay[t], s, Facts')
          /\ LabelJustified(l, pay[t], s, Facts')
    \/ ReturnOK(t)
    \/ ReturnError(t)

SafeRow(t) ==
    \/ row' = row
    \/ \E s \in Saga : /\ row' = [row EXCEPT ![pay[t]] = s]
                       /\ Justified(pay[t], s, Facts')

SafeFacts == Grown(Facts, Facts') /\ FactsInv'

SafeStep(t) == SafeControl(t) /\ SafeRow(t) /\ SafeFacts /\ DataType'

\* A deferred result is never claimed before the rail has answered.
LEMMA DeferredKnown ==
    ASSUME NEW f, NEW p, NEW s, Justified(p, s, f), s.deferred # "none"
    PROVE  f.result[p] # "none"
  BY Zenon DEF Justified

\* A write of a justified copy leaves every row of the table sagas justified.
LEMMA RowsStaySafe ==
    ASSUME SagaInv, NEW t \in Threads, pay[t] \in Payments, SafeRow(t), SafeFacts
    PROVE  \A p \in Payments : Justified(p, row'[p], Facts')
  <1> TAKE p \in Payments
  <1>1. Justified(p, row[p], Facts')
    BY Zenon, JustifiedGrows, DeferredKnown DEF SagaInv, SafeFacts
  <1>2. row \in [Payments -> Saga]
    BY Zenon DEF SagaInv, TypeOK
  <1> QED
    BY Zenon, <1>1, <1>2 DEF SafeRow

\* A step of t that leaves t justified leaves every other thread justified,
\* whose copy it cannot touch.
LEMMA ThreadsStaySafe ==
    ASSUME SagaInv, NEW t \in Threads, pay[t] \in Payments, SafeControl(t), SafeFacts
    PROVE  \A u \in Threads : ThreadJustified(u)'
  <1> SUFFICES ASSUME NEW u \in Threads, pc'[u] # "idle"
               PROVE  /\ pay'[u] \in Payments
                      /\ Justified(pay'[u], cur'[u], Facts')
                      /\ LabelJustified(pc'[u], pay'[u], cur'[u], Facts')
    BY Zenon DEF ThreadJustified
  <1>0. /\ pc \in [Threads -> Labels]
        /\ pay \in [Threads -> Payments \cup {NoPayment}]
        /\ cur \in [Threads -> Saga]
    BY Zenon DEF SagaInv, TypeOK
  <1>1. ASSUME u # t, pc'[u] = pc[u], pay'[u] = pay[u], cur'[u] = cur[u]
        PROVE  /\ pay'[u] \in Payments
               /\ Justified(pay'[u], cur'[u], Facts')
               /\ LabelJustified(pc'[u], pay'[u], cur'[u], Facts')
    <2>1. /\ pay[u] \in Payments
          /\ Justified(pay[u], cur[u], Facts)
          /\ LabelJustified(pc[u], pay[u], cur[u], Facts)
      BY Zenon, <1>1 DEF SagaInv, ThreadJustified
    <2> QED
      BY Zenon, <1>1, <2>1, JustifiedGrows, LabelGrows, DeferredKnown DEF SafeFacts
  <1>2. ASSUME NEW l \in Labels, NEW s \in Saga, Goto(t, l, s),
               Justified(pay[t], s, Facts'), LabelJustified(l, pay[t], s, Facts')
        PROVE  /\ pay'[u] \in Payments
               /\ Justified(pay'[u], cur'[u], Facts')
               /\ LabelJustified(pc'[u], pay'[u], cur'[u], Facts')
    <2>1. CASE u = t
      BY Zenon, <1>0, <1>2, <2>1 DEF Goto
    <2>2. CASE u # t
      BY Zenon, <1>0, <1>1, <1>2, <2>2 DEF Goto
    <2> QED
      BY Zenon, <2>1, <2>2
  <1>3. CASE Release(t)
    BY Zenon, <1>0, <1>1, <1>3 DEF Release
  <1>4. CASE ReturnOK(t)
    <2>1. CASE Goto(t, "commit", NoSaga)
      <3>1. "commit" \in Labels
        BY Zenon DEF Labels
      <3> QED
        BY Zenon, <1>2, <2>1, <3>1, NoSagaType, NothingClaimed
    <2> QED
      BY Zenon, <1>3, <1>4, <2>1 DEF ReturnOK
  <1> QED
    BY Zenon, <1>2, <1>3, <1>4 DEF SafeControl, ReturnError

\* A step of the shared shape leaves the control state typed.
LEMMA ControlStaysTyped ==
    ASSUME ControlType, NEW t \in Threads, SafeControl(t)
    PROVE  ControlType'
  BY Zenon, GotoType, ReturnOKType, ReturnErrorType DEF SafeControl

\* A thread inside a handler leaves the consumer a record, or none to handle.
LEMMA ConsumerKeepsRecord ==
    ASSUME SagaInv, NEW t \in Threads, pc[t] # "idle", SafeControl(t)
    PROVE  ConsumerHasRecord'
  <1>1. /\ pc \in [Threads -> Labels]
        /\ "consumer" \in Threads
        /\ pc["consumer"] # "idle" => topic \in Topics
    BY Zenon DEF SagaInv, TypeOK, Threads, ConsumerHasRecord
  <1>2. ASSUME NEW l, NEW s, Goto(t, l, s)
        PROVE  ConsumerHasRecord'
    BY Zenon, <1>1, <1>2 DEF Goto, ConsumerHasRecord
  <1>3. CASE Release(t)
    BY Zenon, <1>1, <1>3 DEF Release, ConsumerHasRecord
  <1> QED
    BY Zenon, <1>2, <1>3 DEF SafeControl, ReturnOK, ReturnError

\* A step of the shared shape preserves the invariant.
LEMMA SafeStepPreserves ==
    ASSUME SagaInv, NEW t \in Threads, pc[t] # "idle", pay[t] \in Payments,
           SafeStep(t)
    PROVE  SagaInv'
  <1>1. ControlType'
    BY Zenon, TypeHalves, ControlStaysTyped DEF SagaInv, SafeStep
  <1>2. TypeOK'
    BY Zenon, <1>1 DEF SafeStep, TypeOK, ControlType, DataType
  <1> QED
    BY Zenon, <1>2, RowsStaySafe, ThreadsStaySafe, ConsumerKeepsRecord
       DEF SagaInv, SafeStep, SafeFacts

-----------------------------------------------------------------------------
(* Each step of a thread has that shape.                                   *)

\* A step that touches no other service and no outbox row changes no fact.
LEMMA SameFacts ==
    ASSUME SagaInv,
           UNCHANGED <<debited, refunded, ledger, outbox, result, log>>
    PROVE  Facts' = Facts /\ SafeFacts
  <1>1. Facts' = Facts
    BY Zenon DEF Facts
  <1>2. Grown(Facts, Facts)
    BY Zenon DEF Grown
  <1>3. FactsInv'
    BY Zenon DEF SagaInv, FactsInv, ResultsLogged, AnnouncedIsTrue, RefundOnlyAfterCancel,
           ConfirmOnlyIfCharged, ExecuteOnlyIfReserved
  <1> QED
    BY Zenon, <1>1, <1>2, <1>3 DEF SafeFacts

\* What is known of the thread that takes the step.
LEMMA ThreadKnown ==
    ASSUME SagaInv, NEW t \in Threads, pc[t] # "idle"
    PROVE  /\ pay[t] \in Payments
           /\ cur[t] \in Saga
           /\ row[pay[t]] \in Saga
           /\ Justified(pay[t], cur[t], Facts)
           /\ LabelJustified(pc[t], pay[t], cur[t], Facts)
           /\ Justified(pay[t], row[pay[t]], Facts)
           /\ ControlType
           /\ DataType
  BY Zenon DEF SagaInv, ThreadJustified, TypeOK, ControlType, DataType

\* The data keep their types in a step that leaves them alone.
LEMMA SameData ==
    ASSUME DataType, UNCHANGED <<todo, store, services, result, bus>>,
           crashes' \in Nat, errors' \in Nat
    PROVE  DataType' /\ row' = row
  BY Zenon DEF DataType, store, services, bus

\* The verification check of advance is a safe step.
LEMMA CheckVerificationSafe ==
    ASSUME SagaInv, NEW t \in Threads, CheckVerification(t)
    PROVE  SafeStep(t)
  <1>1. pc[t] # "idle"
    BY Zenon DEF CheckVerification
  <1>2. Facts' = Facts /\ SafeFacts
    BY Zenon, SameFacts DEF CheckVerification, store, services, bus
  <1>3. SafeControl(t)
    <2> DEFINE next == [cur[t] EXCEPT !.state = "VERIFICATION_CHECKED"]
    <2>1. next \in Saga
      BY <1>1, ThreadKnown DEF Saga, States
    <2>2. /\ Justified(pay[t], next, Facts)
          /\ LabelJustified("update", pay[t], next, Facts)
          /\ LabelJustified("fail_unverified", pay[t], cur[t], Facts)
      BY ZenonT(60), <1>1, ThreadKnown DEF Justified, LabelJustified, Saga
    <2>3. "update" \in Labels /\ "fail_unverified" \in Labels
      BY Zenon DEF Labels
    <2> QED
      BY Zenon, <1>1, <1>2, <2>1, <2>2, <2>3, ThreadKnown DEF CheckVerification, SafeControl
  <1>4. SafeRow(t) /\ DataType'
    BY Zenon, <1>1, ThreadKnown DEF CheckVerification, SafeRow, DataType, store, services, bus, faults
  <1> QED
    BY Zenon, <1>2, <1>3, <1>4 DEF SafeStep

\* failUnverified is a safe step: an unverified FAILED claims no refund.
LEMMA FailUnverifiedSafe ==
    ASSUME SagaInv, NEW t \in Threads, FailUnverified(t)
    PROVE  SafeStep(t)
  <1> DEFINE failed == [cur[t] EXCEPT !.state = "FAILED", !.failure = "unverified"]
  <1>1. pc[t] # "idle"
    BY Zenon DEF FailUnverified
  <1>2. Facts' = Facts /\ SafeFacts
    BY Zenon, SameFacts DEF FailUnverified, services, bus
  <1>3. failed \in Saga
    BY ZenonT(60), <1>1, ThreadKnown DEF Saga, States
  <1>4. Justified(pay[t], failed, Facts)
    BY ZenonT(60), <1>1, ThreadKnown DEF Justified, Saga
  <1>5. row' = [row EXCEPT ![pay[t]] = failed]
    BY Zenon DEF FailUnverified
  <1>6. DataType'
    <2> HIDE DEF failed
    <2> QED
      BY SMTT(60), <1>1, <1>3, <1>5, ThreadKnown
         DEF FailUnverified, DataType, services, bus, faults
  <1> QED
    BY Zenon, <1>2, <1>3, <1>4, <1>5, <1>6 DEF SafeStep, SafeControl, SafeRow, FailUnverified

\* store.Update is a safe step, however old the copy it writes back.
LEMMA UpdateSafe ==
    ASSUME SagaInv, NEW t \in Threads, Update(t)
    PROVE  SafeStep(t)
  <1>1. pc[t] # "idle" /\ pc[t] = "update"
    BY Zenon DEF Update
  <1>2. Facts' = Facts /\ SafeFacts
    BY Zenon, SameFacts DEF Update, services, bus
  <1>3. SafeControl(t)
    <2>1. CASE ReturnOK(t)
      BY Zenon, <2>1 DEF SafeControl
    <2>2. CASE /\ NextCall(cur[t].state) # "return"
               /\ Goto(t, NextCall(cur[t].state), cur[t])
      <3>1. LabelJustified(NextCall(cur[t].state), pay[t], cur[t], Facts)
        BY Zenon, <1>1, ThreadKnown, NextCallFacts DEF LabelJustified
      <3>2. NextCall(cur[t].state) \in Labels
        BY Zenon, <2>2, NextCallFacts
      <3> QED
        BY Zenon, <1>1, <1>2, <2>2, <3>1, <3>2, ThreadKnown DEF SafeControl
    <2> QED
      BY Zenon, <2>1, <2>2 DEF Update, Proceed
  <1>4. SafeRow(t)
    BY Zenon, <1>1, <1>2, ThreadKnown DEF SafeRow, Update
  <1>5. DataType'
    BY Zenon, <1>1, ThreadKnown DEF Update, DataType, services, bus, faults
  <1> QED
    BY Zenon, <1>2, <1>3, <1>4, <1>5 DEF SafeStep

\* The wallet debit is a safe step, whether it books or finds the operation.
LEMMA DebitForSagaSafe ==
    ASSUME SagaInv, NEW t \in Threads, DebitForSaga(t)
    PROVE  SafeStep(t)
  <1> DEFINE next == [cur[t] EXCEPT !.state = "WALLET_DEBITED", !.debit = "set"]
             accepted == pay[t] \in Funded \cup debited
  <1>1. pc[t] = "debit" /\ pc[t] # "idle"
    BY Zenon DEF DebitForSaga
  <1>2. SafeRow(t) /\ DataType'
    BY Zenon, <1>1, ThreadKnown DEF DebitForSaga, SafeRow, DataType, store, bus, faults
  <1>3. CASE ~accepted
    <2>1. ReturnError(t) /\ UNCHANGED <<debited, refunded, ledger, outbox, result, log>>
      BY Zenon, <1>3 DEF DebitForSaga, store, bus
    <2> QED
      BY Zenon, <1>2, <2>1, SameFacts DEF SafeStep, SafeControl
  <1>4. CASE accepted
    <2>1. Goto(t, "update", next) /\ debited' = debited \cup {pay[t]}
          /\ UNCHANGED <<refunded, ledger, outbox, result, log>>
      BY Zenon, <1>4 DEF DebitForSaga, store, bus
    <2>2. Grown(Facts, Facts')
      BY Zenon, <1>1, <1>4, <2>1, ThreadKnown DEF Grown, Facts, DataType
    <2>3. pay[t] \in debited'
      BY Zenon, <1>1, <1>4, <2>1, ThreadKnown DEF DataType, Justified, LabelJustified, Facts
    <2>4. FactsInv'
      <3>1. FactsInv /\ pay[t] \in Payments
        BY Zenon, <1>1, ThreadKnown DEF SagaInv
      <3>2. ledger \in [Payments -> {"none", "RESERVED", "CONFIRMED", "CANCELED"}]
        BY Zenon, <1>1, ThreadKnown DEF DataType
      <3>3. ResultsLogged'
        BY Zenon, <2>1, <3>1 DEF FactsInv, ResultsLogged
      <3>4. (AnnouncedIsTrue /\ RefundOnlyAfterCancel)'
        BY Zenon, <1>4, <2>1, <2>3, <3>1, <3>2 DEF FactsInv, AnnouncedIsTrue, RefundOnlyAfterCancel,
           ConfirmOnlyIfCharged
      <3>5. (ConfirmOnlyIfCharged /\ ExecuteOnlyIfReserved)'
        BY Zenon, <1>4, <2>1, <2>3, <3>1, <3>2 DEF FactsInv, ConfirmOnlyIfCharged, ExecuteOnlyIfReserved
      <3> QED BY Zenon, <3>3, <3>4, <3>5 DEF FactsInv
    <2>5. Justified(pay[t], cur[t], Facts')
      BY Zenon, <1>1, <2>2, ThreadKnown, JustifiedGrows, DeferredKnown
    <2>6. /\ next \in Saga
          /\ "update" \in Labels
      BY ZenonT(60), <1>1, ThreadKnown DEF Saga, States, Labels
    <2>7. /\ Justified(pay[t], next, Facts')
          /\ LabelJustified("update", pay[t], next, Facts')
      BY <1>1, <2>3, <2>5, ThreadKnown DEF Justified, LabelJustified, Facts, Saga
    <2> HIDE DEF next
    <2> QED
      BY Zenon, <1>2, <2>1, <2>2, <2>4, <2>6, <2>7 DEF SafeStep, SafeControl, SafeFacts
  <1> QED
    BY Zenon, <1>3, <1>4

\* The ledger reservation is a safe step, also when one exists already.
LEMMA ReserveTransferSafe ==
    ASSUME SagaInv, NEW t \in Threads, ReserveTransfer(t)
    PROVE  SafeStep(t)
  <1> DEFINE next == [cur[t] EXCEPT !.state = "LEDGER_RESERVED", !.reservation = "set"]
  <1>1. pc[t] = "reserve" /\ pc[t] # "idle"
    BY Zenon DEF ReserveTransfer
  <1>2. SafeRow(t) /\ DataType'
    BY Zenon, <1>1, ThreadKnown DEF ReserveTransfer, SafeRow, DataType, store, bus, faults
  <1>3. /\ Goto(t, "update", next)
        /\ ledger' = [ledger EXCEPT ![pay[t]] = IF @ = "none" THEN "RESERVED" ELSE @]
        /\ UNCHANGED <<debited, refunded, outbox, result, log>>
    BY Zenon DEF ReserveTransfer, store, bus
  <1>4. Grown(Facts, Facts')
    BY <1>1, <1>3, ThreadKnown DEF Grown, Facts, DataType
  <1>5. pay[t] \in debited' /\ ledger'[pay[t]] # "none"
    BY ZenonT(60), <1>1, <1>3, ThreadKnown DEF DataType, Justified, LabelJustified, Facts
  <1>6. FactsInv'
    BY SMTT(60), <1>1, <1>3, <1>5, ThreadKnown
       DEF SagaInv, FactsInv, ResultsLogged, AnnouncedIsTrue, RefundOnlyAfterCancel,
           ConfirmOnlyIfCharged, ExecuteOnlyIfReserved, DataType
  <1>7. Justified(pay[t], cur[t], Facts')
    BY Zenon, <1>1, <1>4, ThreadKnown, JustifiedGrows, DeferredKnown
  <1>8. next \in Saga /\ "update" \in Labels
    BY ZenonT(60), <1>1, ThreadKnown DEF Saga, States, Labels
  <1>9. /\ Justified(pay[t], next, Facts')
        /\ LabelJustified("update", pay[t], next, Facts')
    BY <1>1, <1>5, <1>7, ThreadKnown DEF Justified, LabelJustified, Facts, Saga
  <1> HIDE DEF next
  <1> QED
    BY Zenon, <1>2, <1>3, <1>4, <1>6, <1>8, <1>9 DEF SafeStep, SafeControl, SafeFacts

\* ConfirmTransfer is a safe step: the status check keeps a canceled
\* reservation canceled.
LEMMA ConfirmTransferSafe ==
    ASSUME SagaInv, NEW t \in Threads, ConfirmTransfer(t)
    PROVE  SafeStep(t)
  <1> DEFINE next == [cur[t] EXCEPT !.state = "LEDGER_CONFIRMED"]
             accepted == /\ cur[t].debit = "set"
                         /\ cur[t].reservation = "set"
                         /\ ledger[pay[t]] \in {"RESERVED", "CONFIRMED"}
  <1>1. pc[t] = "confirm" /\ pc[t] # "idle"
    BY Zenon DEF ConfirmTransfer
  <1>2. SafeRow(t) /\ DataType'
    BY Zenon, <1>1, ThreadKnown DEF ConfirmTransfer, SafeRow, DataType, store, bus, faults
  <1>3. CASE ~accepted
    <2>1. ReturnError(t) /\ UNCHANGED <<debited, refunded, ledger, outbox, result, log>>
      BY Zenon, <1>3 DEF ConfirmTransfer, store, bus
    <2> QED
      BY Zenon, <1>2, <2>1, SameFacts DEF SafeStep, SafeControl
  <1>4. CASE accepted
    <2>1. Goto(t, "update", next) /\ ledger' = [ledger EXCEPT ![pay[t]] = "CONFIRMED"]
          /\ UNCHANGED <<debited, refunded, outbox, result, log>>
      BY Zenon, <1>4 DEF ConfirmTransfer, store, bus
    <2>2. Grown(Facts, Facts')
      BY <1>1, <1>4, <2>1, ThreadKnown DEF Grown, Facts, DataType
    <2>3. pay[t] \in debited /\ ledger'[pay[t]] = "CONFIRMED" /\ result[pay[t]] = "completed"
      BY ZenonT(60), <1>1, <1>4, <2>1, ThreadKnown DEF DataType, Justified, LabelJustified, Facts
    <2>4. FactsInv'
      <3>1. FactsInv /\ pay[t] \in Payments
        BY Zenon, <1>1, ThreadKnown DEF SagaInv
      <3>2. ledger \in [Payments -> {"none", "RESERVED", "CONFIRMED", "CANCELED"}]
        BY Zenon, <1>1, ThreadKnown DEF DataType
      <3>3. ResultsLogged'
        BY Zenon, <2>1, <3>1 DEF FactsInv, ResultsLogged
      <3>4. (AnnouncedIsTrue /\ RefundOnlyAfterCancel)'
        BY <1>4, <2>1, <2>3, <3>1, <3>2 DEF FactsInv, AnnouncedIsTrue, RefundOnlyAfterCancel,
           ConfirmOnlyIfCharged
      <3>5. (ConfirmOnlyIfCharged /\ ExecuteOnlyIfReserved)'
        BY Zenon, <1>4, <2>1, <2>3, <3>1, <3>2 DEF FactsInv, ConfirmOnlyIfCharged, ExecuteOnlyIfReserved
      <3> QED BY Zenon, <3>3, <3>4, <3>5 DEF FactsInv
    <2>5. Justified(pay[t], cur[t], Facts')
      BY Zenon, <1>1, <2>2, ThreadKnown, JustifiedGrows, DeferredKnown
    <2>6. /\ next \in Saga
          /\ "update" \in Labels
      BY SMTT(60), <1>1, ThreadKnown DEF Saga, States, Labels
    <2>7. /\ Justified(pay[t], next, Facts')
          /\ LabelJustified("update", pay[t], next, Facts')
      BY SMTT(60), <1>1, <2>3, <2>5, ThreadKnown DEF Justified, LabelJustified, Facts, Saga
    <2> HIDE DEF next
    <2> QED
      BY Zenon, <1>2, <2>1, <2>2, <2>4, <2>6, <2>7 DEF SafeStep, SafeControl, SafeFacts
  <1> QED
    BY Zenon, <1>3, <1>4

\* CancelReservation is a safe step: the status check keeps a confirmed
\* reservation confirmed.
LEMMA CancelReservationSafe ==
    ASSUME SagaInv, NEW t \in Threads, CancelReservation(t)
    PROVE  SafeStep(t)
  <1> DEFINE next == [cur[t] EXCEPT !.state = "COMPENSATING_WALLET"]
             accepted == /\ cur[t].reservation = "set"
                         /\ ledger[pay[t]] \in {"RESERVED", "CANCELED"}
  <1>1. pc[t] = "cancel" /\ pc[t] # "idle"
    BY Zenon DEF CancelReservation
  <1>2. SafeRow(t) /\ DataType'
    BY Zenon, <1>1, ThreadKnown DEF CancelReservation, SafeRow, DataType, store, bus, faults
  <1>3. CASE ~accepted
    <2>1. ReturnError(t) /\ UNCHANGED <<debited, refunded, ledger, outbox, result, log>>
      BY Zenon, <1>3 DEF CancelReservation, store, bus
    <2> QED
      BY Zenon, <1>2, <2>1, SameFacts DEF SafeStep, SafeControl
  <1>4. CASE accepted
    <2>1. Goto(t, "update", next) /\ ledger' = [ledger EXCEPT ![pay[t]] = "CANCELED"]
          /\ UNCHANGED <<debited, refunded, outbox, result, log>>
      BY Zenon, <1>4 DEF CancelReservation, store, bus
    <2>2. Grown(Facts, Facts')
      BY <1>1, <1>4, <2>1, ThreadKnown DEF Grown, Facts, DataType
    <2>3. ledger'[pay[t]] = "CANCELED"
      BY ZenonT(60), <1>1, <1>4, <2>1, ThreadKnown DEF DataType, Justified, LabelJustified, Facts
    <2>4. FactsInv'
      <3>1. FactsInv /\ pay[t] \in Payments
        BY Zenon, <1>1, ThreadKnown DEF SagaInv
      <3>2. ledger \in [Payments -> {"none", "RESERVED", "CONFIRMED", "CANCELED"}]
        BY Zenon, <1>1, ThreadKnown DEF DataType
      <3>3. ResultsLogged'
        BY Zenon, <2>1, <3>1 DEF FactsInv, ResultsLogged
      <3>4. (AnnouncedIsTrue /\ RefundOnlyAfterCancel)'
        BY <1>4, <2>1, <2>3, <3>1, <3>2 DEF FactsInv, AnnouncedIsTrue, RefundOnlyAfterCancel,
           ConfirmOnlyIfCharged
      <3>5. (ConfirmOnlyIfCharged /\ ExecuteOnlyIfReserved)'
        BY Zenon, <1>4, <2>1, <2>3, <3>1, <3>2 DEF FactsInv, ConfirmOnlyIfCharged, ExecuteOnlyIfReserved
      <3> QED BY Zenon, <3>3, <3>4, <3>5 DEF FactsInv
    <2>5. Justified(pay[t], cur[t], Facts')
      BY Zenon, <1>1, <2>2, ThreadKnown, JustifiedGrows, DeferredKnown
    <2>6. /\ next \in Saga
          /\ "update" \in Labels
      BY SMTT(60), <1>1, ThreadKnown DEF Saga, States, Labels
    <2>7. /\ Justified(pay[t], next, Facts')
          /\ LabelJustified("update", pay[t], next, Facts')
      BY <1>1, <2>3, <2>5, ThreadKnown DEF Justified, LabelJustified, Facts, Saga
    <2> HIDE DEF next
    <2> QED
      BY Zenon, <1>2, <2>1, <2>2, <2>4, <2>6, <2>7 DEF SafeStep, SafeControl, SafeFacts
  <1> QED
    BY Zenon, <1>3, <1>4

\* The wallet compensation is a safe step: its thread holds a canceled
\* reservation.
LEMMA CompensateDebitSafe ==
    ASSUME SagaInv, NEW t \in Threads, CompensateDebit(t)
    PROVE  SafeStep(t)
  <1> DEFINE next == [cur[t] EXCEPT !.state = "FAILED"]
             accepted == pay[t] \in debited
  <1>1. pc[t] = "compensate" /\ pc[t] # "idle"
    BY Zenon DEF CompensateDebit
  <1>2. SafeRow(t) /\ DataType'
    BY Zenon, <1>1, ThreadKnown DEF CompensateDebit, SafeRow, DataType, store, bus, faults
  <1>3. CASE ~accepted
    <2>1. ReturnError(t) /\ UNCHANGED <<debited, refunded, ledger, outbox, result, log>>
      BY Zenon, <1>3 DEF CompensateDebit, store, bus
    <2> QED
      BY Zenon, <1>2, <2>1, SameFacts DEF SafeStep, SafeControl
  <1>4. CASE accepted
    <2>1. Goto(t, "update", next) /\ refunded' = refunded \cup {pay[t]}
          /\ UNCHANGED <<debited, ledger, outbox, result, log>>
      BY Zenon, <1>4 DEF CompensateDebit, store, bus
    <2>2. Grown(Facts, Facts')
      BY Zenon, <1>1, <1>4, <2>1, ThreadKnown DEF Grown, Facts, DataType
    <2>3. pay[t] \in refunded' /\ ledger[pay[t]] = "CANCELED"
      BY Zenon, <1>1, <1>4, <2>1, ThreadKnown DEF DataType, Justified, LabelJustified, Facts
    <2>4. FactsInv'
      <3>1. FactsInv /\ pay[t] \in Payments
        BY Zenon, <1>1, ThreadKnown DEF SagaInv
      <3>2. ledger \in [Payments -> {"none", "RESERVED", "CONFIRMED", "CANCELED"}]
        BY Zenon, <1>1, ThreadKnown DEF DataType
      <3>3. ResultsLogged'
        BY Zenon, <2>1, <3>1 DEF FactsInv, ResultsLogged
      <3>4. (AnnouncedIsTrue /\ RefundOnlyAfterCancel)'
        BY Zenon, <1>4, <2>1, <2>3, <3>1, <3>2 DEF FactsInv, AnnouncedIsTrue, RefundOnlyAfterCancel,
           ConfirmOnlyIfCharged
      <3>5. (ConfirmOnlyIfCharged /\ ExecuteOnlyIfReserved)'
        BY Zenon, <1>4, <2>1, <2>3, <3>1, <3>2 DEF FactsInv, ConfirmOnlyIfCharged, ExecuteOnlyIfReserved
      <3> QED BY Zenon, <3>3, <3>4, <3>5 DEF FactsInv
    <2>5. Justified(pay[t], cur[t], Facts')
      BY Zenon, <1>1, <2>2, ThreadKnown, JustifiedGrows, DeferredKnown
    <2>6. /\ next \in Saga
          /\ "update" \in Labels
      BY SMTT(60), <1>1, ThreadKnown DEF Saga, States, Labels
    <2>7. /\ Justified(pay[t], next, Facts')
          /\ LabelJustified("update", pay[t], next, Facts')
      BY <1>1, <2>3, <2>5, ThreadKnown DEF Justified, LabelJustified, Facts, Saga
    <2> HIDE DEF next
    <2> QED
      BY Zenon, <1>2, <2>1, <2>2, <2>4, <2>6, <2>7 DEF SafeStep, SafeControl, SafeFacts
  <1> QED
    BY Zenon, <1>3, <1>4

\* The write of PAYMENT_PROCESSING with payment.execute is a safe step.
LEMMA ExecutePaymentSafe ==
    ASSUME SagaInv, NEW t \in Threads, ExecutePayment(t)
    PROVE  SafeStep(t)
  <1> DEFINE next == [cur[t] EXCEPT !.state = "PAYMENT_PROCESSING"]
  <1>1. pc[t] = "execute" /\ pc[t] # "idle"
    BY Zenon DEF ExecutePayment
  <1>2. /\ row' = [row EXCEPT ![pay[t]] = next]
        /\ outbox' = outbox \cup {<<"payment.execute", pay[t]>>,
                                  <<"fraud.score.requested", pay[t]>>}
        /\ UNCHANGED <<debited, refunded, ledger, result, log>>
    BY Zenon DEF ExecutePayment, services, bus
  <1>3. Grown(Facts, Facts')
    BY Zenon, <1>2 DEF Grown, Facts
  <1>4. pay[t] \in debited /\ ledger[pay[t]] # "none"
    BY Zenon, <1>1, ThreadKnown DEF Justified, LabelJustified, Facts
  <1>5. FactsInv'
    BY <1>2, <1>4
       DEF SagaInv, FactsInv, ResultsLogged, AnnouncedIsTrue, RefundOnlyAfterCancel,
           ConfirmOnlyIfCharged, ExecuteOnlyIfReserved
  <1>6. next \in Saga
    BY SMTT(60), <1>1, ThreadKnown DEF Saga, States
  <1>7. Justified(pay[t], cur[t], Facts')
    BY Zenon, <1>1, <1>3, ThreadKnown, JustifiedGrows, DeferredKnown
  <1>8. Justified(pay[t], next, Facts')
    BY <1>1, <1>7, ThreadKnown DEF Justified, Saga
  <1> HIDE DEF next
  <1>9. DataType'
    BY SMTT(60), <1>1, <1>2, <1>6, ThreadKnown DEF ExecutePayment, DataType, services, bus, faults
  <1> QED
    BY Zenon, <1>2, <1>3, <1>5, <1>6, <1>8, <1>9
       DEF ExecutePayment, SafeStep, SafeControl, SafeRow, SafeFacts

\* publishTxCompleted is a safe step: the transfer is confirmed.
LEMMA PublishTxCompletedSafe ==
    ASSUME SagaInv, NEW t \in Threads, PublishTxCompleted(t)
    PROVE  SafeStep(t)
  <1> DEFINE next == [cur[t] EXCEPT !.state = "COMPLETED"]
  <1>1. pc[t] = "publish_completed" /\ pc[t] # "idle"
    BY Zenon DEF PublishTxCompleted
  <1>2. SafeRow(t) /\ DataType'
    BY <1>1, ThreadKnown
       DEF PublishTxCompleted, SafeRow, DataType, services, bus, faults
  <1>3. /\ Goto(t, "update", next)
        /\ outbox' = outbox \cup {<<"tx.completed", pay[t]>>}
        /\ UNCHANGED <<debited, refunded, ledger, result, log>>
    BY Zenon DEF PublishTxCompleted, services, bus
  <1>4. Grown(Facts, Facts')
    BY Zenon, <1>3 DEF Grown, Facts
  <1>5. ledger[pay[t]] = "CONFIRMED"
    BY Zenon, <1>1, ThreadKnown DEF Justified, LabelJustified, Facts
  <1>6. FactsInv'
    BY Zenon, <1>3, <1>5
       DEF SagaInv, FactsInv, ResultsLogged, AnnouncedIsTrue, RefundOnlyAfterCancel,
           ConfirmOnlyIfCharged, ExecuteOnlyIfReserved
  <1>7. Justified(pay[t], cur[t], Facts')
    BY Zenon, <1>1, <1>4, ThreadKnown, JustifiedGrows, DeferredKnown
  <1>8. next \in Saga /\ "update" \in Labels
    BY SMTT(60), <1>1, ThreadKnown DEF Saga, States, Labels
  <1>9. /\ Justified(pay[t], next, Facts')
        /\ LabelJustified("update", pay[t], next, Facts')
    BY SMTT(60), <1>1, <1>3, <1>5, <1>7, ThreadKnown DEF Justified, LabelJustified, Facts, Saga
  <1> HIDE DEF next
  <1> QED
    BY Zenon, <1>2, <1>3, <1>4, <1>6, <1>8, <1>9 DEF SafeStep, SafeControl, SafeFacts

\* publishTxFailed is a safe step: the payer has been refunded.
LEMMA PublishTxFailedSafe ==
    ASSUME SagaInv, NEW t \in Threads, PublishTxFailed(t)
    PROVE  SafeStep(t)
  <1>1. pc[t] = "publish_failed" /\ pc[t] # "idle"
    BY Zenon DEF PublishTxFailed
  <1>2. SafeRow(t) /\ DataType'
    BY SMTT(60), <1>1, ThreadKnown DEF PublishTxFailed, SafeRow, DataType, services, bus, faults
  <1>3. /\ outbox' = outbox \cup {<<"tx.failed", pay[t]>>}
        /\ UNCHANGED <<debited, refunded, ledger, result, log>>
    BY Zenon DEF PublishTxFailed, services, bus
  <1>4. Grown(Facts, Facts')
    BY Zenon, <1>3 DEF Grown, Facts
  <1>5. pay[t] \in refunded
    BY Zenon, <1>1, ThreadKnown DEF LabelJustified, Facts
  <1>6. FactsInv'
    BY SMTT(60), <1>3, <1>5
       DEF SagaInv, FactsInv, ResultsLogged, AnnouncedIsTrue, RefundOnlyAfterCancel,
           ConfirmOnlyIfCharged, ExecuteOnlyIfReserved
  <1> QED
    BY Zenon, <1>2, <1>4, <1>6 DEF PublishTxFailed, SafeStep, SafeControl, SafeFacts

\* The read and branch of HandlePaymentCompleted is a safe step.
LEMMA HandlePaymentCompletedSafe ==
    ASSUME SagaInv, NEW t \in Threads, HandlePaymentCompleted(t)
    PROVE  SafeStep(t)
  <1> DEFINE saga == row[pay[t]]
             deferred == [saga EXCEPT !.deferred = "completed"]
             next == saga
  <1>1. pc[t] = "completed" /\ pc[t] # "idle"
    BY Zenon DEF HandlePaymentCompleted
  <1>2. Facts' = Facts /\ SafeFacts
    BY Zenon, SameFacts DEF HandlePaymentCompleted, services, bus
  <1>3. result[pay[t]] = "completed"
    BY Zenon, <1>1, ThreadKnown DEF LabelJustified, Facts
  <1>4. deferred \in Saga /\ next \in Saga /\ "confirm" \in Labels /\ "defer" \in Labels
    BY SMTT(60), <1>1, ThreadKnown DEF Saga, States, Results, Labels
  <1>5. /\ Justified(pay[t], deferred, Facts)
        /\ Justified(pay[t], next, Facts)
        /\ LabelJustified("defer", pay[t], deferred, Facts)
        /\ LabelJustified("confirm", pay[t], next, Facts)
    BY <1>1, <1>3, ThreadKnown DEF Justified, LabelJustified, Facts, Saga
  <1>6. \/ ReturnOK(t)
        \/ Goto(t, "defer", deferred)
        \/ Goto(t, "confirm", next)
    BY Zenon DEF HandlePaymentCompleted, DeferResult, RecordResult
  <1>7. SafeControl(t)
    <2> HIDE DEF deferred, next
    <2> QED
      BY Zenon, <1>2, <1>4, <1>5, <1>6 DEF SafeControl
  <1>8. audit' \subseteq Payments \X AuditEvents \X AuditKinds
    <2>1. /\ "completed" \in AuditEvents
          /\ "duplicate" \in AuditKinds
          /\ "invariant_violation" \in AuditKinds
      BY Zenon DEF AuditEvents, AuditKinds, Results
    <2>2. \/ audit' = audit
          \/ audit' = Recorded(pay[t], "completed", "duplicate")
          \/ audit' = Recorded(pay[t], "completed", "invariant_violation")
      BY Zenon DEF HandlePaymentCompleted, DeferResult, RecordResult
    <2> QED
      BY SMTT(60), <1>1, <2>1, <2>2, ThreadKnown, RecordedType DEF DataType
  <1>9. SafeRow(t) /\ DataType'
    BY Zenon, <1>1, <1>8, ThreadKnown
       DEF HandlePaymentCompleted, SafeRow, DataType, services, bus, faults
  <1> QED
    BY Zenon, <1>2, <1>7, <1>9 DEF SafeStep

\* The read and branch of HandlePaymentFailed is a safe step.
LEMMA HandlePaymentFailedSafe ==
    ASSUME SagaInv, NEW t \in Threads, HandlePaymentFailed(t)
    PROVE  SafeStep(t)
  <1> DEFINE saga == row[pay[t]]
             deferred == [saga EXCEPT !.deferred = "failed"]
             next == [saga EXCEPT !.state = "COMPENSATING_LEDGER",
                              !.failure = "rail"]
  <1>1. pc[t] = "failed" /\ pc[t] # "idle"
    BY Zenon DEF HandlePaymentFailed
  <1>2. Facts' = Facts /\ SafeFacts
    BY Zenon, SameFacts DEF HandlePaymentFailed, services, bus
  <1>3. result[pay[t]] = "failed"
    BY Zenon, <1>1, ThreadKnown DEF LabelJustified, Facts
  <1>4. deferred \in Saga /\ next \in Saga /\ "update" \in Labels /\ "defer" \in Labels
    BY ZenonT(60), <1>1, ThreadKnown DEF Saga, States, Results, Labels
  <1>5. /\ Justified(pay[t], deferred, Facts)
        /\ Justified(pay[t], next, Facts)
        /\ LabelJustified("defer", pay[t], deferred, Facts)
        /\ LabelJustified("update", pay[t], next, Facts)
    BY <1>1, <1>3, ThreadKnown DEF Justified, LabelJustified, Facts, Saga
  <1>6. \/ ReturnOK(t)
        \/ Goto(t, "defer", deferred)
        \/ Goto(t, "update", next)
    BY Zenon DEF HandlePaymentFailed, DeferResult, RecordResult
  <1>7. SafeControl(t)
    <2> HIDE DEF deferred, next
    <2> QED
      BY Zenon, <1>2, <1>4, <1>5, <1>6 DEF SafeControl
  <1>8. audit' \subseteq Payments \X AuditEvents \X AuditKinds
    <2>1. /\ "failed" \in AuditEvents
          /\ "duplicate" \in AuditKinds
          /\ "invariant_violation" \in AuditKinds
      BY Zenon DEF AuditEvents, AuditKinds, Results
    <2>2. \/ audit' = audit
          \/ audit' = Recorded(pay[t], "failed", "duplicate")
          \/ audit' = Recorded(pay[t], "failed", "invariant_violation")
      BY Zenon DEF HandlePaymentFailed, DeferResult, RecordResult
    <2> QED
      BY SMTT(60), <1>1, <2>1, <2>2, ThreadKnown, RecordedType DEF DataType
  <1>9. SafeRow(t) /\ DataType'
    BY Zenon, <1>1, <1>8, ThreadKnown
       DEF HandlePaymentFailed, SafeRow, DataType, services, bus, faults
  <1> QED
    BY Zenon, <1>2, <1>7, <1>9 DEF SafeStep

\* The read and branch of HandleFraudFlagged is a safe step.
LEMMA HandleFraudFlaggedSafe ==
    ASSUME SagaInv, NEW t \in Threads, HandleFraudFlagged(t)
    PROVE  SafeStep(t)
  <1> DEFINE next == [row[pay[t]] EXCEPT !.state = "FRAUD_REVIEW"]
  <1>1. pc[t] # "idle"
    BY Zenon DEF HandleFraudFlagged
  <1>2. Facts' = Facts /\ SafeFacts
    BY Zenon, SameFacts DEF HandleFraudFlagged, store, services, bus
  <1>3. next \in Saga /\ "pause" \in Labels /\ "flag" \in Labels
    BY SMTT(60), <1>1, ThreadKnown DEF Saga, States, Labels
  <1>4. /\ Justified(pay[t], next, Facts)
        /\ LabelJustified("pause", pay[t], next, Facts)
        /\ LabelJustified("flag", pay[t], row[pay[t]], Facts)
    <2>1. row[pay[t]] \in Saga /\ Justified(pay[t], row[pay[t]], Facts)
      BY Zenon, <1>1, ThreadKnown
    <2> QED
      BY SMTT(60), <2>1 DEF Justified, LabelJustified, Saga
  <1>5. Goto(t, "pause", next) \/ Goto(t, "flag", row[pay[t]])
    BY Zenon DEF HandleFraudFlagged
  <1>6. SafeRow(t) /\ DataType'
    BY Zenon, <1>1, ThreadKnown
       DEF HandleFraudFlagged, SafeRow, DataType, store, services, bus, faults
  <1> HIDE DEF next
  <1> QED
    BY Zenon, <1>1, <1>2, <1>3, <1>4, <1>5, <1>6, ThreadKnown DEF SafeStep, SafeControl

\* The write of FRAUD_REVIEW with tx.paused is a safe step.
LEMMA PauseForReviewSafe ==
    ASSUME SagaInv, NEW t \in Threads, PauseForReview(t)
    PROVE  SafeStep(t)
  <1>1. pc[t] = "pause" /\ pc[t] # "idle"
    BY Zenon DEF PauseForReview
  <1>2. Facts' = Facts /\ SafeFacts
    BY Zenon, SameFacts DEF PauseForReview, services, bus
  <1>3. audit' \subseteq Payments \X AuditEvents \X AuditKinds
    <2>1. "flagged" \in AuditEvents /\ "transition" \in AuditKinds
      BY Zenon DEF AuditEvents, AuditKinds
    <2> QED
      BY Zenon, <1>1, <2>1, ThreadKnown, RecordedType DEF PauseForReview
  <1>4. SafeRow(t)
    BY Zenon, <1>1, <1>2, ThreadKnown DEF PauseForReview, SafeRow
  <1>5. DataType'
    BY SMTT(60), <1>1, <1>3, ThreadKnown DEF PauseForReview, DataType, services, bus, faults
  <1> QED
    BY Zenon, <1>2, <1>4, <1>5 DEF PauseForReview, SafeStep, SafeControl

\* The write of the fraud columns, which puts the whole copy back, is safe.
LEMMA SaveFraudMetadataSafe ==
    ASSUME SagaInv, NEW t \in Threads, SaveFraudMetadata(t)
    PROVE  SafeStep(t)
  <1>1. pc[t] = "flag" /\ pc[t] # "idle"
    BY Zenon DEF SaveFraudMetadata
  <1>2. Facts' = Facts /\ SafeFacts
    BY Zenon, SameFacts DEF SaveFraudMetadata, services, bus
  <1>3. audit' \subseteq Payments \X AuditEvents \X AuditKinds
    <2>1. "flagged" \in AuditEvents /\ FraudFlaggedAuditKind(cur[t].state) \in AuditKinds
      BY Zenon DEF AuditEvents, AuditKinds, FraudFlaggedAuditKind
    <2> QED
      BY Zenon, <1>1, <2>1, ThreadKnown, RecordedType DEF SaveFraudMetadata
  <1>4. SafeRow(t)
    BY Zenon, <1>1, <1>2, ThreadKnown DEF SaveFraudMetadata, SafeRow
  <1>5. DataType'
    BY Zenon, <1>1, <1>3, ThreadKnown DEF SaveFraudMetadata, DataType, services, bus, faults
  <1> QED
    BY Zenon, <1>2, <1>4, <1>5 DEF SaveFraudMetadata, SafeStep, SafeControl

\* The read and guard of a decision on a review is a safe step.
LEMMA LoadReviewSafe ==
    ASSUME SagaInv, NEW t \in Threads, LoadReview(t)
    PROVE  SafeStep(t)
  <1>1. pc[t] # "idle"
    BY Zenon DEF LoadReview
  <1>2. Facts' = Facts /\ SafeFacts
    BY Zenon, SameFacts DEF LoadReview, store, services, bus
  <1>3. "resume" \in Labels /\ "reject" \in Labels
    BY Zenon DEF Labels
  <1>4. /\ LabelJustified("resume", pay[t], row[pay[t]], Facts)
        /\ LabelJustified("reject", pay[t], row[pay[t]], Facts)
    BY Zenon DEF LabelJustified
  <1>5. \/ Goto(t, "resume", row[pay[t]])
        \/ Goto(t, "reject", row[pay[t]])
        \/ ReturnError(t)
    BY Zenon DEF LoadReview
  <1>6. SafeRow(t) /\ DataType'
    <2>1. DataType /\ crashes \in Nat /\ errors \in Nat
      BY Zenon, <1>1, ThreadKnown DEF DataType
    <2>2. UNCHANGED <<todo, store, services, result, bus, crashes, errors>>
      BY Zenon DEF LoadReview, faults
    <2> QED
      BY Zenon, <2>1, <2>2, SameData DEF SafeRow
  <1> QED
    BY Zenon, <1>1, <1>2, <1>3, <1>4, <1>5, <1>6, ThreadKnown DEF SafeStep, SafeControl

\* The write of a deferred result is a safe step.
LEMMA SaveDeferredResultSafe ==
    ASSUME SagaInv, NEW t \in Threads, SaveDeferredResult(t)
    PROVE  SafeStep(t)
  <1>1. pc[t] = "defer" /\ pc[t] # "idle"
    BY Zenon DEF SaveDeferredResult
  <1>2. Facts' = Facts /\ SafeFacts
    BY Zenon, SameFacts DEF SaveDeferredResult, services, bus
  <1>3. audit' \subseteq Payments \X AuditEvents \X AuditKinds
    <2>1. cur[t].deferred \in AuditEvents /\ "deferred_terminal" \in AuditKinds
      BY Zenon, <1>1, ThreadKnown DEF LabelJustified, Saga, AuditEvents, AuditKinds
    <2>2. /\ DataType /\ pay[t] \in Payments
          /\ audit' = Recorded(pay[t], cur[t].deferred, "deferred_terminal")
      BY Zenon, <1>1, ThreadKnown DEF SaveDeferredResult
    <2> QED
      BY Zenon, <2>1, <2>2, RecordedType
  <1>4. SafeRow(t)
    BY Zenon, <1>1, <1>2, ThreadKnown DEF SaveDeferredResult, SafeRow
  <1>5. DataType'
    BY Zenon, <1>1, <1>3, ThreadKnown DEF SaveDeferredResult, DataType, services, bus, faults
  <1> QED
    BY Zenon, <1>2, <1>4, <1>5 DEF SaveDeferredResult, SafeStep, SafeControl

\* ResumeFraudReview is a safe step: what it replays is what the rail said.
LEMMA ResumeFraudReviewSafe ==
    ASSUME SagaInv, NEW t \in Threads, ResumeFraudReview(t)
    PROVE  SafeStep(t)
  <1> DEFINE saved == [cur[t] EXCEPT !.state = "PAYMENT_PROCESSING",
                                     !.deferred = "none"]
  <1>1. pc[t] # "idle"
    BY Zenon DEF ResumeFraudReview
  <1>2. Facts' = Facts /\ SafeFacts
    BY Zenon, SameFacts DEF ResumeFraudReview, services, bus
  <1>3. saved \in Saga
    BY ZenonT(60), <1>1, ThreadKnown DEF Saga, States
  <1>4. Justified(pay[t], saved, Facts)
    BY ZenonT(60), <1>1, ThreadKnown DEF Justified, Saga
  <1>5. SafeControl(t)
    <2>1. CASE cur[t].deferred = "none"
      BY Zenon, <2>1 DEF ResumeFraudReview, SafeControl
    <2>2. CASE cur[t].deferred # "none"
      <3>1. cur[t].deferred \in {"completed", "failed"}
        BY Zenon, <1>1, <2>2, ThreadKnown DEF Saga, Results
      <3>2. result[pay[t]] = cur[t].deferred
        BY Zenon, <1>1, <2>2, ThreadKnown DEF Justified, Facts
      <3>3. LabelJustified(cur[t].deferred, pay[t], NoSaga, Facts)
        BY Zenon, <3>1, <3>2 DEF LabelJustified, Facts
      <3>4. cur[t].deferred \in Labels
        BY Zenon, <3>1 DEF Labels
      <3>5. Goto(t, cur[t].deferred, NoSaga)
        BY Zenon, <2>2 DEF ResumeFraudReview
      <3> QED
        BY Zenon, <1>2, <3>3, <3>4, <3>5, NoSagaType, NothingClaimed DEF SafeControl
    <2> QED
      BY Zenon, <2>1, <2>2
  <1>6. audit' \subseteq Payments \X AuditEvents \X AuditKinds
    <2>1. "review" \in AuditEvents /\ "review_resumed" \in AuditKinds
      BY Zenon DEF AuditEvents, AuditKinds
    <2> QED
      BY Zenon, <1>1, <2>1, ThreadKnown, RecordedType DEF ResumeFraudReview
  <1>7. row' = [row EXCEPT ![pay[t]] = saved]
    BY Zenon DEF ResumeFraudReview
  <1> HIDE DEF saved
  <1>8. DataType'
    BY SMTT(60), <1>1, <1>3, <1>6, <1>7, ThreadKnown
       DEF ResumeFraudReview, DataType, services, bus, faults
  <1> QED
    BY Zenon, <1>2, <1>3, <1>4, <1>5, <1>7, <1>8 DEF SafeStep, SafeRow

\* RejectFraudReview is a safe step: compensation starts with the ledger.
LEMMA RejectFraudReviewSafe ==
    ASSUME SagaInv, NEW t \in Threads, RejectFraudReview(t)
    PROVE  SafeStep(t)
  <1> DEFINE rejected == [cur[t] EXCEPT !.state = "COMPENSATING_LEDGER",
                                        !.failure = "fraud_rejected"]
  <1>1. pc[t] # "idle"
    BY Zenon DEF RejectFraudReview
  <1>2. Facts' = Facts /\ SafeFacts
    BY Zenon, SameFacts DEF RejectFraudReview, services, bus
  <1>3. rejected \in Saga /\ "cancel" \in Labels
    BY ZenonT(60), <1>1, ThreadKnown DEF Saga, States, Labels
  <1>4. /\ Justified(pay[t], rejected, Facts)
        /\ LabelJustified("cancel", pay[t], rejected, Facts)
    BY ZenonT(60), <1>1, ThreadKnown DEF Justified, LabelJustified, Saga
  <1>5. row' = [row EXCEPT ![pay[t]] = rejected] /\ Goto(t, "cancel", rejected)
    BY Zenon DEF RejectFraudReview
  <1>6. audit' \subseteq Payments \X AuditEvents \X AuditKinds
    <2>1. "review" \in AuditEvents /\ "review_rejected" \in AuditKinds
      BY Zenon DEF AuditEvents, AuditKinds
    <2> QED
      BY Zenon, <1>1, <2>1, ThreadKnown, RecordedType DEF RejectFraudReview
  <1> HIDE DEF rejected
  <1>7. DataType'
    BY SMTT(60), <1>1, <1>3, <1>5, <1>6, ThreadKnown
       DEF RejectFraudReview, DataType, services, bus, faults
  <1> QED
    BY Zenon, <1>2, <1>3, <1>4, <1>5, <1>7 DEF SafeStep, SafeControl, SafeRow

\* A call that fails for a passing reason is a safe step.
LEMMA TransientErrorSafe ==
    ASSUME SagaInv, NEW t \in Threads, TransientError(t)
    PROVE  SafeStep(t)
  <1>1. pc[t] # "idle"
    BY Zenon DEF TransientError
  <1>2. SafeFacts
    BY Zenon, SameFacts DEF TransientError, store, services, bus
  <1>3. SafeRow(t) /\ DataType'
    <2>1. DataType /\ crashes \in Nat /\ errors \in Nat
      BY Zenon, <1>1, ThreadKnown DEF DataType
    <2>2. /\ UNCHANGED <<todo, store, services, result, bus, crashes>>
          /\ errors' = errors + 1
      BY Zenon DEF TransientError
    <2>3. crashes' \in Nat /\ errors' \in Nat
      BY <2>1, <2>2
    <2> QED
      BY Zenon, <2>1, <2>2, <2>3, SameData DEF SafeRow
  <1> QED
    BY Zenon, <1>2, <1>3 DEF TransientError, SafeStep, SafeControl

\* Every step of a thread, completed or failed, has the shared shape.
LEMMA StepIsSafe ==
    ASSUME SagaInv, NEW t \in Threads, Step(t) \/ TransientError(t)
    PROVE  SafeStep(t)
  BY Zenon, CheckVerificationSafe, FailUnverifiedSafe, UpdateSafe, DebitForSagaSafe,
     ReserveTransferSafe, ExecutePaymentSafe, HandlePaymentCompletedSafe,
     HandlePaymentFailedSafe, ConfirmTransferSafe, PublishTxCompletedSafe,
     CancelReservationSafe, CompensateDebitSafe, PublishTxFailedSafe,
     HandleFraudFlaggedSafe, PauseForReviewSafe, SaveFraudMetadataSafe,
     SaveDeferredResultSafe, LoadReviewSafe, ResumeFraudReviewSafe,
     RejectFraudReviewSafe, TransientErrorSafe DEF Step

\* Hence every step of a thread preserves the invariant.
LEMMA ThreadStepPreserves ==
    ASSUME SagaInv, NEW t \in Threads, Step(t) \/ TransientError(t)
    PROVE  SagaInv'
  <1>1. SafeStep(t)
    BY Zenon, StepIsSafe
  <1>2. pc[t] # "idle"
    BY Zenon DEF Step, TransientError, CheckVerification, FailUnverified, Update,
           DebitForSaga, ReserveTransfer, ExecutePayment, HandlePaymentCompleted,
           HandlePaymentFailed, ConfirmTransfer, PublishTxCompleted,
           CancelReservation, CompensateDebit, PublishTxFailed,
           HandleFraudFlagged, PauseForReview, SaveFraudMetadata,
           SaveDeferredResult, LoadReview, ResumeFraudReview, RejectFraudReview
  <1> QED
    BY Zenon, <1>1, <1>2, ThreadKnown, SafeStepPreserves

-----------------------------------------------------------------------------
(* The steps that start a handler, and those outside the threads.          *)

\* The facts stay as they are, so what the threads and the rows claim stays
\* borne out.
LEMMA QuietPreserves ==
    ASSUME SagaInv, UNCHANGED <<pc, pay, cur, topic, row>>, SafeFacts,
           ControlType', DataType'
    PROVE  SagaInv'
  <1>1. \A p \in Payments : Justified(p, row'[p], Facts')
    BY Zenon, JustifiedGrows, DeferredKnown DEF SagaInv, SafeFacts
  <1>2. \A t \in Threads : ThreadJustified(t)'
    <2> SUFFICES ASSUME NEW t \in Threads, pc[t] # "idle"
                 PROVE  /\ pay[t] \in Payments
                        /\ Justified(pay[t], cur[t], Facts')
                        /\ LabelJustified(pc[t], pay[t], cur[t], Facts')
      BY Zenon DEF ThreadJustified
    <2> QED
      BY Zenon, ThreadKnown, JustifiedGrows, LabelGrows, DeferredKnown DEF SafeFacts
  <1> QED
    BY Zenon, <1>1, <1>2
       DEF SagaInv, SafeFacts, TypeOK, ControlType, DataType, ConsumerHasRecord

\* A thread that takes up a payment holds a copy and a label that claim only
\* what is true.
LEMMA BeginPreserves ==
    ASSUME SagaInv, NEW t \in Threads, NEW l \in Labels, NEW p \in Payments,
           NEW s \in Saga, Begin(t, l, p, s),
           IF t = "consumer" THEN topic' \in Topics ELSE topic' = topic,
           UNCHANGED <<debited, refunded, ledger, outbox, result, log>>,
           Justified(p, s, Facts), LabelJustified(l, p, s, Facts),
           \A q \in Payments : Justified(q, row'[q], Facts),
           DataType'
    PROVE  SagaInv'
  <1>1. Facts' = Facts /\ FactsInv'
    BY Zenon, SameFacts DEF SafeFacts
  <1>2. ControlType'
    BY Zenon, TypeHalves, BeginType DEF SagaInv, ControlType
  <1>4. ConsumerHasRecord'
    BY Zenon, TypeHalves DEF SagaInv, ControlType, ConsumerHasRecord, Begin, Threads
  <1>3. \A u \in Threads : ThreadJustified(u)'
    <2> SUFFICES ASSUME NEW u \in Threads, pc'[u] # "idle"
                 PROVE  /\ pay'[u] \in Payments
                        /\ Justified(pay'[u], cur'[u], Facts)
                        /\ LabelJustified(pc'[u], pay'[u], cur'[u], Facts)
      BY Zenon, <1>1 DEF ThreadJustified
    <2>0. /\ pc \in [Threads -> Labels]
          /\ pay \in [Threads -> Payments \cup {NoPayment}]
          /\ cur \in [Threads -> Saga]
      BY Zenon DEF SagaInv, TypeOK
    <2>1. CASE u = t
      BY Zenon, <2>0, <2>1 DEF Begin
    <2>2. CASE u # t
      <3>1. pc'[u] = pc[u] /\ pay'[u] = pay[u] /\ cur'[u] = cur[u]
        BY Zenon, <2>0, <2>2 DEF Begin
      <3> QED
        BY Zenon, <3>1, ThreadKnown
    <2> QED
      BY Zenon, <2>1, <2>2
  <1> QED
    BY Zenon, <1>1, <1>2, <1>3, <1>4 DEF SagaInv, TypeOK, ControlType, DataType

\* StartPaymentSaga preserves the invariant.
LEMMA StartPaymentSagaPreserves ==
    ASSUME SagaInv, NEW t \in Workers, NEW p \in Payments, StartPaymentSaga(t, p)
    PROVE  SagaInv'
  <1> DEFINE created == IF row[p] = NoSaga THEN StartedSaga ELSE row[p]
  <1>1. row[p] \in Saga /\ Justified(p, row[p], Facts) /\ DataType
        /\ row \in [Payments -> Saga]
    BY Zenon DEF SagaInv, TypeOK, DataType
  <1>2. created \in Saga /\ Justified(p, created, Facts)
    <2>1. Justified(p, StartedSaga, Facts)
      BY Zenon DEF Justified, StartedSaga, NoSaga
    <2> QED
      BY Zenon, <1>1, <2>1, NoSagaType
  <1>3. "verify" \in Labels /\ LabelJustified("verify", p, created, Facts)
    BY Zenon DEF Labels, LabelJustified
  <1>4. /\ row' = [row EXCEPT ![p] = created]
        /\ Begin(t, "verify", p, created)
        /\ t \in Threads
        /\ t # "consumer" /\ topic' = topic
        /\ UNCHANGED <<debited, refunded, ledger, outbox, result, log>>
    BY Zenon, ConstantsAssumption DEF StartPaymentSaga, services, bus, Threads
  <1> HIDE DEF created
  <1>5. \A q \in Payments : Justified(q, row'[q], Facts)
    BY Zenon, <1>1, <1>2, <1>4 DEF SagaInv
  <1>6. DataType'
    BY SMTT(60), <1>1, <1>2, <1>4 DEF StartPaymentSaga, DataType, services, bus, faults
  <1> QED
    BY Zenon, <1>2, <1>3, <1>4, <1>5, <1>6, BeginPreserves

\* The arrival of a decision on a review preserves the invariant.
LEMMA OperatorDecisionPreserves ==
    ASSUME SagaInv, NEW t \in Workers, NEW p \in Payments, NEW d \in Decisions,
           OperatorDecision(t, p, d)
    PROVE  SagaInv'
  <1>1. d \in Labels /\ LabelJustified(d, p, NoSaga, Facts)
    BY Zenon, ConstantsAssumption DEF Labels, LabelJustified
  <1>2. /\ Begin(t, d, p, NoSaga)
        /\ t \in Threads
        /\ t # "consumer" /\ topic' = topic
        /\ UNCHANGED <<debited, refunded, ledger, outbox, result, log, row>>
    BY Zenon, ConstantsAssumption DEF OperatorDecision, store, services, bus, Threads
  <1>3. DataType'
    BY Zenon DEF OperatorDecision, DataType, store, services, bus, faults, SagaInv, TypeOK
  <1>4. \A q \in Payments : Justified(q, row'[q], Facts)
    BY Zenon, <1>2 DEF SagaInv
  <1> QED
    BY Zenon, <1>1, <1>2, <1>3, <1>4, BeginPreserves, NoSagaType, NothingClaimed

\* The reaper taking up the next overdue review preserves the invariant.
LEMMA ExpireNextPreserves ==
    ASSUME SagaInv, ExpireNext
    PROVE  SagaInv'
  <1>1. PICK p \in todo["reaper"] :
           /\ todo' = [todo EXCEPT !["reaper"] = @ \ {p}]
           /\ Begin("reaper", "read_reject", p, NoSaga)
    BY Zenon DEF ExpireNext
  <1>2. todo \in [{"boot", "reaper"} -> SUBSET Payments] /\ p \in Payments
    BY Zenon DEF SagaInv, TypeOK
  <1>3. "read_reject" \in Labels /\ LabelJustified("read_reject", p, NoSaga, Facts)
    BY Zenon DEF Labels, LabelJustified
  <1>4. /\ "reaper" \in Threads
        /\ "reaper" # "consumer" /\ topic' = topic
        /\ UNCHANGED <<debited, refunded, ledger, outbox, result, log, row>>
    BY Zenon DEF ExpireNext, store, services, bus, Threads
  <1>5. DataType'
    <2>1. todo' \in [{"boot", "reaper"} -> SUBSET Payments]
      BY Zenon, <1>1, <1>2
    <2> QED
      BY Zenon, <2>1 DEF ExpireNext, DataType, store, services, bus, faults, SagaInv, TypeOK
  <1>6. \A q \in Payments : Justified(q, row'[q], Facts)
    BY Zenon, <1>4 DEF SagaInv
  <1> QED
    BY Zenon, <1>1, <1>2, <1>3, <1>4, <1>5, <1>6, BeginPreserves, NoSagaType, NothingClaimed

\* The consumer taking a record preserves the invariant: the topic of a result
\* says what the rail did.
LEMMA HandleRecordPreserves ==
    ASSUME SagaInv, NEW k \in Topics, HandleRecord(k)
    PROVE  SagaInv'
  <1> DEFINE i == position[k] + 1
             p == log[k][i]
  <1>1. i \in 1..Len(log[k]) /\ p \in Payments
    <2>1. position[k] \in Nat /\ log[k] \in Seq(Payments)
      BY Zenon DEF SagaInv, TypeOK
    <2>2. position[k] < Len(log[k]) /\ Len(log[k]) \in Nat
      BY SMTT(60), <2>1 DEF HandleRecord
    <2> QED
      BY SMTT(60), <2>1, <2>2
  <1>2. Handler(k) \in Labels /\ LabelJustified(Handler(k), p, NoSaga, Facts)
    <2>1. CASE k = "payment.completed"
      <3>1. Handler(k) = "completed" /\ result[p] = "completed"
        BY Zenon, <1>1, <2>1 DEF Handler, SagaInv, FactsInv, ResultsLogged
      <3> HIDE DEF p
      <3> QED
        BY Zenon, <3>1 DEF Labels, LabelJustified, Facts
    <2>2. CASE k = "payment.failed"
      <3>1. Handler(k) = "failed" /\ result[p] = "failed"
        BY Zenon, <1>1, <2>2 DEF Handler, SagaInv, FactsInv, ResultsLogged
      <3> HIDE DEF p
      <3> QED
        BY Zenon, <3>1 DEF Labels, LabelJustified, Facts
    <2>3. CASE k = "fraud.flagged"
      <3>1. Handler(k) = "flagged"
        BY Zenon, <2>3 DEF Handler
      <3> HIDE DEF p
      <3> QED
        BY Zenon, <3>1 DEF Labels, LabelJustified
    <2> QED
      BY Zenon, <2>1, <2>2, <2>3 DEF Topics
  <1>3. /\ Begin("consumer", Handler(k), p, NoSaga)
        /\ "consumer" \in Threads
        /\ topic' \in Topics
        /\ UNCHANGED <<debited, refunded, ledger, outbox, result, log, row>>
    BY Zenon DEF HandleRecord, store, services, bus, Threads
  <1>4. DataType'
    BY Zenon DEF HandleRecord, DataType, store, services, bus, faults, SagaInv, TypeOK
  <1>5. \A q \in Payments : Justified(q, row'[q], Facts)
    BY Zenon, <1>3 DEF SagaInv
  <1> HIDE DEF p
  <1> QED
    BY Zenon, <1>1, <1>2, <1>3, <1>4, <1>5, BeginPreserves, NoSagaType, NothingClaimed

\* resumeOne preserves the invariant: the stored row justifies the call it
\* resumes with.
LEMMA ResumeOnePreserves ==
    ASSUME SagaInv, ResumeOne
    PROVE  SagaInv'
  <1>1. PICK p \in todo["boot"] :
           /\ todo' = [todo EXCEPT !["boot"] = @ \ {p}]
           /\ \/ UNCHANGED <<mode, pc, pay, cur, position>>
              \/ /\ ResumeCall(row[p].state) # "return"
                 /\ Begin("boot", ResumeCall(row[p].state), p, row[p])
    BY Zenon DEF ResumeOne
  <1>2. todo \in [{"boot", "reaper"} -> SUBSET Payments] /\ p \in Payments
    BY Zenon DEF SagaInv, TypeOK
  <1>3. /\ topic' = topic
        /\ UNCHANGED <<debited, refunded, ledger, outbox, result, log, row>>
    BY Zenon DEF ResumeOne, store, services, bus, SagaInv, TypeOK
  <1>4. DataType'
    <2>1. todo' \in [{"boot", "reaper"} -> SUBSET Payments]
      BY Zenon, <1>1, <1>2
    <2> QED
      BY Zenon, <2>1 DEF ResumeOne, DataType, store, services, bus, faults, SagaInv, TypeOK
  <1>5. CASE UNCHANGED <<mode, pc, pay, cur, position>>
    <2>1. ControlType'
      BY Zenon, <1>3, <1>5 DEF ControlType, SagaInv, TypeOK
    <2> QED
      BY Zenon, <1>3, <1>4, <1>5, <2>1, SameFacts, QuietPreserves
  <1>6. CASE /\ ResumeCall(row[p].state) # "return"
             /\ Begin("boot", ResumeCall(row[p].state), p, row[p])
    <2> DEFINE l == ResumeCall(row[p].state)
    <2>1. l = NextCall(row[p].state) /\ row[p].state # "FAILED" /\ l # "return"
      BY Zenon, <1>6 DEF ResumeCall, Terminal
    <2> HIDE DEF l
    <2>2. l \in Labels /\ LabelJustified(l, p, row[p], Facts)
      BY Zenon, <2>1, NextCallFacts DEF LabelJustified
    <2>3. row[p] \in Saga /\ "boot" \in Threads
      BY Zenon, <1>2 DEF SagaInv, TypeOK, Threads
    <2>4. \A q \in Payments : Justified(q, row'[q], Facts)
      BY Zenon, <1>3 DEF SagaInv
    <2>5. Justified(p, row[p], Facts)
      BY Zenon, <1>2 DEF SagaInv
    <2> QED
      BY Zenon, <1>2, <1>3, <1>4, <1>6, <2>2, <2>3, <2>4, <2>5, BeginPreserves DEF l
  <1> QED
    BY Zenon, <1>1, <1>5, <1>6

\* The commit of a record preserves the invariant.
LEMMA CommitRecordPreserves ==
    ASSUME SagaInv, CommitRecord
    PROVE  SagaInv'
  <1>1. "consumer" \in Threads /\ pc["consumer"] # "idle"
    BY Zenon DEF CommitRecord, Threads
  <1>2. ControlType /\ DataType
    BY Zenon, <1>1, ThreadKnown
  <1>3. position[topic] \in Nat /\ position' \in [Topics -> Nat]
    BY SMTT(60), <1>1, <1>2 DEF CommitRecord, ControlType, SagaInv, ConsumerHasRecord
  <1>9. ConsumerHasRecord'
    BY Zenon, <1>1, <1>2 DEF CommitRecord, ControlType, ConsumerHasRecord, Release
  <1>4. ControlType'
    BY Zenon, <1>1, <1>2, <1>3, ReleaseType DEF CommitRecord, ControlType
  <1>5. DataType'
    BY Zenon, <1>1, <1>2, <1>3 DEF CommitRecord, DataType, store, services, faults
  <1>6. Facts' = Facts /\ FactsInv'
    BY Zenon, SameFacts DEF CommitRecord, store, services, SafeFacts
  <1>7. \A u \in Threads : ThreadJustified(u)'
    <2> SUFFICES ASSUME NEW u \in Threads, pc'[u] # "idle"
                 PROVE  /\ pay'[u] \in Payments
                        /\ Justified(pay'[u], cur'[u], Facts)
                        /\ LabelJustified(pc'[u], pay'[u], cur'[u], Facts)
      BY Zenon, <1>6 DEF ThreadJustified
    <2>1. pc'[u] = pc[u] /\ pay'[u] = pay[u] /\ cur'[u] = cur[u]
      BY Zenon, <1>1, <1>2 DEF CommitRecord, Release, ControlType
    <2> QED
      BY Zenon, <2>1, ThreadKnown
  <1>8. row' = row
    BY Zenon DEF CommitRecord, store
  <1> QED
    BY ZenonT(60), <1>4, <1>5, <1>6, <1>7, <1>8, <1>9 DEF SagaInv, TypeOK, ControlType, DataType

\* The start of the process preserves the invariant.
LEMMA RestartPreserves ==
    ASSUME SagaInv, Restart
    PROVE  SagaInv'
  <1>1. UNCHANGED <<pc, pay, cur, topic, row>> /\ SafeFacts
    BY Zenon, SameFacts DEF Restart, store, services, bus
  <1>2. ControlType'
    BY Zenon DEF Restart, ControlType, SagaInv, TypeOK
  <1>3. DataType'
    <2>1. todo' \in [{"boot", "reaper"} -> SUBSET Payments]
      BY Zenon DEF Restart, SagaInv, TypeOK
    <2> QED
      BY Zenon, <2>1 DEF Restart, DataType, SagaInv, TypeOK, store, services, bus, faults
  <1> QED
    BY Zenon, <1>1, <1>2, <1>3, QuietPreserves

\* The end of ResumeNonTerminal preserves the invariant.
LEMMA ServePreserves ==
    ASSUME SagaInv, Serve
    PROVE  SagaInv'
  <1>1. UNCHANGED <<pc, pay, cur, topic, row>> /\ SafeFacts
    BY Zenon, SameFacts DEF Serve, store, services, bus
  <1>2. ControlType' /\ DataType'
    BY Zenon DEF Serve, ControlType, DataType, SagaInv, TypeOK, store, services, bus, faults
  <1> QED
    BY Zenon, <1>1, <1>2, QuietPreserves

\* A tick of the reaper preserves the invariant.
LEMMA ExpireFraudReviewsPreserves ==
    ASSUME SagaInv, ExpireFraudReviews
    PROVE  SagaInv'
  <1>1. UNCHANGED <<pc, pay, cur, topic, row>> /\ SafeFacts
    BY Zenon, SameFacts DEF ExpireFraudReviews, control, store, services, bus
  <1>2. ControlType'
    BY Zenon DEF ExpireFraudReviews, ControlType, SagaInv, TypeOK, control
  <1>3. DataType'
    <2>1. todo' \in [{"boot", "reaper"} -> SUBSET Payments]
      BY DEF ExpireFraudReviews, SagaInv, TypeOK
    <2> QED
      BY Zenon, <2>1 DEF ExpireFraudReviews, DataType, SagaInv, TypeOK, store, services,
                  bus, faults
  <1> QED
    BY Zenon, <1>1, <1>2, <1>3, QuietPreserves

\* A decision of the verification service preserves the invariant.
LEMMA VerifyUserPreserves ==
    ASSUME SagaInv, NEW p \in Payments, VerifyUser(p)
    PROVE  SagaInv'
  <1>1. UNCHANGED <<pc, pay, cur, topic, row>> /\ SafeFacts
    BY Zenon, SameFacts DEF VerifyUser, control, store, bus
  <1>2. ControlType' /\ DataType'
    BY Zenon DEF VerifyUser, ControlType, DataType, SagaInv, TypeOK, control, store, bus,
           faults
  <1> QED
    BY Zenon, <1>1, <1>2, QuietPreserves

\* The event topics and the outcome of the rail only grow.
LEMMA PublishFraudFlaggedPreserves ==
    ASSUME SagaInv, NEW p \in Payments, PublishFraudFlagged(p)
    PROVE  SagaInv'
  <1>1. UNCHANGED <<pc, pay, cur, topic, row>> /\ Facts' = Facts
    BY Zenon DEF PublishFraudFlagged, control, store, services, Facts
  <1>2. log \in [Topics -> Seq(Payments)] /\ log' \in [Topics -> Seq(Payments)]
    BY SMTT(60) DEF PublishFraudFlagged, SagaInv, TypeOK, Topics
  <1>3. SafeFacts
    <2>1. Grown(Facts, Facts)
      BY Zenon DEF Grown
    <2>2. /\ log'["payment.completed"] = log["payment.completed"]
          /\ log'["payment.failed"] = log["payment.failed"]
      BY Zenon, <1>2 DEF PublishFraudFlagged, Topics
    <2>3. FactsInv'
      BY SMTT(60), <2>2 DEF PublishFraudFlagged, store, services, SagaInv, FactsInv,
                  ResultsLogged, AnnouncedIsTrue, RefundOnlyAfterCancel,
                  ConfirmOnlyIfCharged, ExecuteOnlyIfReserved
    <2> QED
      BY Zenon, <1>1, <2>1, <2>3 DEF SafeFacts
  <1>4. ControlType' /\ DataType'
    BY Zenon, <1>2 DEF PublishFraudFlagged, ControlType, DataType, SagaInv, TypeOK, control,
                store, services, faults
  <1> QED
    BY Zenon, <1>1, <1>3, <1>4, QuietPreserves

\* A log whose records all carry outcome v still does when one more that
\* carries v is appended and no outcome is changed.
LEMMA AppendedResult ==
    ASSUME NEW old \in Seq(Payments), NEW p \in Payments, NEW v, NEW f, NEW g,
           v # "none",
           \A q \in Payments : f[q] # "none" => g[q] = f[q],
           \A i \in 1..Len(old) : f[old[i]] = v,
           g[p] = v
    PROVE  \A i \in 1..Len(Append(old, p)) : g[Append(old, p)[i]] = v
  <1> TAKE i \in 1..Len(Append(old, p))
  <1>1. CASE i \in 1..Len(old)
    <2>1. Append(old, p)[i] = old[i] /\ old[i] \in Payments
      BY SMTT(60), <1>1
    <2> QED
      BY Zenon, <1>1, <2>1
  <1>2. CASE i = Len(old) + 1
    BY <1>2
  <1> QED
    BY <1>1, <1>2

\* A result of the payment processor preserves the invariant: the outcome of a
\* payment never changes.
LEMMA PublishResultPreserves ==
    ASSUME SagaInv, NEW p \in Payments, NEW r \in Results, PublishResult(p, r)
    PROVE  SagaInv'
  <1> DEFINE k == IF r = "completed" THEN "payment.completed" ELSE "payment.failed"
  <1>1. UNCHANGED <<pc, pay, cur, topic, row>>
    BY Zenon DEF PublishResult, control, store
  <1>2. /\ k \in Topics
        /\ log \in [Topics -> Seq(Payments)]
        /\ result \in [Payments -> Results \cup {"none"}]
        /\ log' = [log EXCEPT ![k] = Append(@, p)]
        /\ result' = [result EXCEPT ![p] = r]
        /\ result[p] \in {"none", r}
    BY Zenon DEF PublishResult, SagaInv, TypeOK, Topics
  <1>3. /\ log' \in [Topics -> Seq(Payments)]
        /\ result' \in [Payments -> Results \cup {"none"}]
    <2> HIDE DEF k
    <2> QED BY SMTT(60), <1>2
  <1>4. ControlType' /\ DataType'
    BY Zenon, <1>3 DEF PublishResult, ControlType, DataType, SagaInv, TypeOK, control, store,
                services, faults
  <1>5. UNCHANGED <<debited, refunded, ledger, outbox>>
    BY Zenon DEF PublishResult, store, services
  <1>6. \A q \in Payments : result[q] # "none" => result'[q] = result[q]
    BY Zenon, <1>2
  <1>7. Grown(Facts, Facts')
    BY Zenon, <1>5, <1>6 DEF Grown, Facts
  <1>8. ResultsLogged'
    <2>1. /\ \A i \in 1..Len(log["payment.completed"]) :
                /\ log["payment.completed"][i] \in Payments
                /\ result[log["payment.completed"][i]] = "completed"
          /\ \A i \in 1..Len(log["payment.failed"]) :
                /\ log["payment.failed"][i] \in Payments
                /\ result[log["payment.failed"][i]] = "failed"
      BY SMTT(60), <1>2 DEF SagaInv, FactsInv, ResultsLogged, Topics
    <2>2. CASE r = "completed"
      <3>1. /\ log'["payment.completed"] = Append(log["payment.completed"], p)
            /\ log'["payment.failed"] = log["payment.failed"]
            /\ log["payment.completed"] \in Seq(Payments)
        BY Zenon, <1>2, <2>2 DEF Topics
      <3>2. result'[p] = "completed"
        BY Zenon, <1>2, <2>2
      <3>3. \A i \in 1..Len(log'["payment.completed"]) :
               result'[log'["payment.completed"][i]] = "completed"
        BY SMTT(60), <1>6, <2>1, <3>1, <3>2, AppendedResult
      <3>4. \A i \in 1..Len(log'["payment.failed"]) :
               result'[log'["payment.failed"][i]] = "failed"
        BY SMTT(60), <1>6, <2>1, <3>1
      <3> QED
        BY Zenon, <3>3, <3>4 DEF ResultsLogged
    <2>3. CASE r = "failed"
      <3>1. /\ log'["payment.failed"] = Append(log["payment.failed"], p)
            /\ log'["payment.completed"] = log["payment.completed"]
            /\ log["payment.failed"] \in Seq(Payments)
        BY Zenon, <1>2, <2>3 DEF Topics
      <3>2. result'[p] = "failed"
        BY Zenon, <1>2, <2>3
      <3>3. \A i \in 1..Len(log'["payment.failed"]) :
               result'[log'["payment.failed"][i]] = "failed"
        BY SMTT(60), <1>6, <2>1, <3>1, <3>2, AppendedResult
      <3>4. \A i \in 1..Len(log'["payment.completed"]) :
               result'[log'["payment.completed"][i]] = "completed"
        BY SMTT(60), <1>6, <2>1, <3>1
      <3> QED
        BY Zenon, <3>3, <3>4 DEF ResultsLogged
    <2> QED
      BY Zenon, <2>2, <2>3 DEF Results
  <1>9. FactsInv'
    <2>1. ConfirmOnlyIfCharged'
      BY Zenon, <1>5, <1>6 DEF SagaInv, FactsInv, ConfirmOnlyIfCharged
    <2> QED
      BY Zenon, <1>5, <1>8, <2>1 DEF SagaInv, FactsInv, AnnouncedIsTrue,
         RefundOnlyAfterCancel, ExecuteOnlyIfReserved
  <1> QED
    BY Zenon, <1>1, <1>4, <1>7, <1>9, QuietPreserves DEF SafeFacts

\* A crash, which only loses what threads hold, preserves the invariant.
LEMMA CrashPreserves ==
    ASSUME SagaInv, Crash
    PROVE  SagaInv'
  <1>1. Facts' = Facts /\ FactsInv' /\ row' = row
    BY Zenon, SameFacts DEF Crash, store, services, bus, SafeFacts
  <1>2. ControlType'
    BY Zenon, NoSagaType DEF Crash, ControlType, SagaInv, TypeOK, Labels
  <1>3. DataType'
    BY SMTT(60) DEF Crash, DataType, SagaInv, TypeOK, store, services, bus
  <1>4. (\A t \in Threads : ThreadJustified(t)') /\ ConsumerHasRecord'
    BY Zenon DEF Crash, ThreadJustified, ConsumerHasRecord, Threads
  <1> QED
    BY Zenon, <1>1, <1>2, <1>3, <1>4 DEF SagaInv, TypeOK, ControlType, DataType

-----------------------------------------------------------------------------

\* The initial state satisfies the invariant.
LEMMA InitEstablishes == Init => SagaInv
  <1> SUFFICES ASSUME Init PROVE SagaInv
    BY Zenon
  <1>1. ControlType
    BY Zenon, NoSagaType DEF Init, ControlType, Labels
  <1>2. DataType
    BY SMTT(60), NoSagaType DEF Init, DataType, Topics
  <1>3. \A p \in Payments : Justified(p, row[p], Facts)
    BY Zenon, NothingClaimed DEF Init
  <1>4. (\A t \in Threads : ThreadJustified(t)) /\ ConsumerHasRecord
    BY Zenon DEF Init, ThreadJustified, ConsumerHasRecord, Threads
  <1>5. FactsInv
    BY DEF Init, FactsInv, ResultsLogged, AnnouncedIsTrue, RefundOnlyAfterCancel,
           ConfirmOnlyIfCharged, ExecuteOnlyIfReserved, Topics
  <1> QED
    BY Zenon, <1>1, <1>2, <1>3, <1>4, <1>5, TypeHalves DEF SagaInv

\* A step that changes nothing preserves the invariant.
LEMMA StutterPreserves ==
    ASSUME SagaInv, UNCHANGED vars
    PROVE  SagaInv'
  <1>1. UNCHANGED <<pc, pay, cur, topic, row>> /\ SafeFacts
    BY Zenon, SameFacts DEF vars, control, store, services, bus
  <1>2. ControlType' /\ DataType'
    BY Zenon DEF vars, ControlType, DataType, SagaInv, TypeOK, control, store, services, bus,
           faults
  <1> QED
    BY Zenon, <1>1, <1>2, QuietPreserves

\* Every step preserves SagaInv.
LEMMA NextPreserves == SagaInv /\ [Next]_vars => SagaInv'
  <1> SUFFICES ASSUME SagaInv, [Next]_vars PROVE SagaInv'
    OBVIOUS
  <1>1. ASSUME NEW t \in Threads, Step(t) \/ TransientError(t) PROVE SagaInv'
    BY Zenon, <1>1, ThreadStepPreserves
  <1>2. CASE Consume
    BY Zenon, <1>2, CommitRecordPreserves, HandleRecordPreserves DEF Consume
  <1>3. CASE Reap
    BY Zenon, <1>3, ExpireFraudReviewsPreserves, ExpireNextPreserves DEF Reap
  <1>4. CASE Boot
    BY Zenon, <1>4, RestartPreserves, ResumeOnePreserves, ServePreserves DEF Boot
  <1>5. CASE Request
    BY Zenon, <1>5, StartPaymentSagaPreserves, OperatorDecisionPreserves DEF Request
  <1>6. CASE Environment
    BY Zenon, <1>6, VerifyUserPreserves, PublishResultPreserves,
       PublishFraudFlaggedPreserves DEF Environment
  <1> QED
    BY Zenon, <1>1, <1>2, <1>3, <1>4, <1>5, <1>6, CrashPreserves, StutterPreserves DEF Next

\* In every reachable state, every stored or held copy of a saga row claims only
\* what the wallet, the ledger, the outbox and the rail bear out, whatever
\* interleaving of unconditional store writes, retries and crashes led there.
THEOREM SagaInvariant == Spec => []SagaInv
  BY InitEstablishes, NextPreserves, PTL DEF Spec

\* The orchestrator's variables keep their types.
THEOREM TypeCorrect == Spec => []TypeOK
  <1>1. SagaInv => TypeOK
    BY Zenon DEF SagaInv
  <1> QED
    BY <1>1, SagaInvariant, PTL

\* CompensateDebit only books a refund for a debited payment whose reservation
\* CancelReservation has canceled.
THEOREM RefundsAreSafe == Spec => []RefundOnlyAfterCancel
  <1>1. SagaInv => RefundOnlyAfterCancel
    BY Zenon DEF SagaInv, FactsInv
  <1> QED
    BY <1>1, SagaInvariant, PTL

\* ConfirmTransfer only settles a debited payment that the rail charged.
THEOREM ConfirmationsAreSafe == Spec => []ConfirmOnlyIfCharged
  <1>1. SagaInv => ConfirmOnlyIfCharged
    BY Zenon DEF SagaInv, FactsInv
  <1> QED
    BY <1>1, SagaInvariant, PTL

\* advance sends payment.execute only for a debited and reserved payment.
THEOREM ExecutionsAreSafe == Spec => []ExecuteOnlyIfReserved
  <1>1. SagaInv => ExecuteOnlyIfReserved
    BY Zenon DEF SagaInv, FactsInv
  <1> QED
    BY <1>1, SagaInvariant, PTL

\* A terminal row in the table sagas is true of the ledger, the wallet and the
\* outbox.
THEOREM TerminalRowsAreTrue == Spec => []TerminalRowIsTrue
  <1>1. SagaInv => TerminalRowIsTrue
    BY Zenon DEF SagaInv, TerminalRowIsTrue, Justified, Facts
  <1> QED
    BY <1>1, SagaInvariant, PTL

-----------------------------------------------------------------------------
(* PaymentSaga implements PaymentOutcome: read through MoneyOf and the     *)
(* final events of the outbox, every step of a thread either takes,        *)
(* settles, returns or announces the money of one payment, or changes      *)
(* nothing a payer can see.                                                *)

money == [p \in Payments |-> MoneyOf(p)]

announced == outbox \cap ({"tx.completed", "tx.failed"} \X Payments)

Stutters == UNCHANGED <<money, announced>>

\* A step that only opens or cancels reservations is invisible to the payer.
LEMMA LedgerOnlyStutters ==
    ASSUME UNCHANGED <<debited, refunded, outbox>>,
           \A p \in Payments : ledger'[p] = "CONFIRMED" <=> ledger[p] = "CONFIRMED"
    PROVE  Stutters
  <1>1. \A p \in Payments : MoneyOf(p)' = MoneyOf(p)
    BY Zenon DEF MoneyOf
  <1> QED
    BY Zenon, <1>1 DEF Stutters, money, announced

\* A step that changes no fact of the services or the outbox is invisible.
LEMMA NoFactStutters ==
    ASSUME UNCHANGED <<debited, refunded, ledger, outbox>>
    PROVE  Stutters
  BY Zenon, LedgerOnlyStutters

\* A step that changes where the money of p is, and of no other payment, and
\* sends no final event, is a Move of PaymentOutcome.
LEMMA MoneyMoves ==
    ASSUME NEW p \in Payments, NEW from, NEW to, MoneyOf(p) = from, MoneyOf(p)' = to,
           \A q \in Payments \ {p} : MoneyOf(q)' = MoneyOf(q), UNCHANGED outbox
    PROVE  Outcome!Move(p, from, to)
  <1>1. [q \in Payments |-> MoneyOf(q)]'
           = [[q \in Payments |-> MoneyOf(q)] EXCEPT ![p] = to]
    <2>1. \A q \in Payments :
             MoneyOf(q)' = [[r \in Payments |-> MoneyOf(r)] EXCEPT ![p] = to][q]
      OBVIOUS
    <2> QED
      BY Zenon, <2>1
  <1> QED
    BY Zenon, <1>1 DEF Outcome!Move

\* DebitForSaga takes the money once; a repeated debit is invisible.
LEMMA DebitTakes ==
    ASSUME SagaInv, NEW t \in Threads, DebitForSaga(t)
    PROVE  Stutters \/ \E p \in Payments : Outcome!Take(p)
  <1>1. UNCHANGED <<refunded, ledger, outbox>>
    BY Zenon DEF DebitForSaga, store
  <1>2. PICK p \in Payments : debited' = debited \/ debited' = debited \cup {p}
    BY Zenon, ThreadKnown DEF DebitForSaga
  <1>3. CASE debited' = debited
    BY Zenon, <1>1, <1>3, NoFactStutters
  <1>4. CASE debited' = debited \cup {p} /\ p \notin debited
    <2>1. p \notin refunded /\ ledger[p] # "CONFIRMED"
      BY Zenon, <1>4 DEF SagaInv, FactsInv, RefundOnlyAfterCancel, ConfirmOnlyIfCharged
    <2>2. MoneyOf(p) = "payer" /\ MoneyOf(p)' = "held"
      BY Zenon, <1>1, <1>4, <2>1 DEF MoneyOf
    <2>3. \A q \in Payments \ {p} : MoneyOf(q)' = MoneyOf(q)
      BY Zenon, <1>1, <1>4 DEF MoneyOf
    <2> QED
      BY Zenon, <1>1, <2>2, <2>3, MoneyMoves DEF Outcome!Take
  <1> QED
    BY Zenon, <1>2, <1>3, <1>4

\* ConfirmTransfer settles the money once: a confirmed reservation belongs to a
\* debited payment that was not refunded.
LEMMA ConfirmSettles ==
    ASSUME SagaInv, NEW t \in Threads, ConfirmTransfer(t)
    PROVE  Stutters \/ \E p \in Payments : Outcome!Settle(p)
  <1>1. UNCHANGED <<debited, refunded, outbox>>
    BY Zenon DEF ConfirmTransfer, store
  <1>2. PICK p \in Payments : p = pay[t]
    BY Zenon, ThreadKnown DEF ConfirmTransfer
  <1>3. CASE ledger' = ledger
    BY Zenon, <1>1, <1>3, NoFactStutters
  <1>4. CASE /\ cur[t].debit = "set"
             /\ ledger[p] \in {"RESERVED", "CONFIRMED"}
             /\ ledger' = [ledger EXCEPT ![p] = "CONFIRMED"]
    <2>0. ledger \in [Payments -> {"none", "RESERVED", "CONFIRMED", "CANCELED"}]
      BY SMTT(60) DEF SagaInv, TypeOK
    <2>1. p \in debited /\ p \notin refunded
      BY ZenonT(60), <1>2, <1>4, ThreadKnown
         DEF ConfirmTransfer, Justified, Facts, SagaInv, FactsInv, RefundOnlyAfterCancel
    <2>2. CASE ledger[p] = "CONFIRMED"
      <3>1. ledger' = ledger
        BY Zenon, <1>4, <2>0, <2>2
      <3> QED
        BY Zenon, <1>3, <3>1
    <2>3. CASE ledger[p] = "RESERVED"
      <3>1. MoneyOf(p) = "held" /\ MoneyOf(p)' = "recipient"
        BY Zenon, <1>1, <1>4, <2>0, <2>1, <2>3 DEF MoneyOf
      <3>2. \A q \in Payments \ {p} : MoneyOf(q)' = MoneyOf(q)
        BY Zenon, <1>1, <1>4, <2>0 DEF MoneyOf
      <3> QED
        BY Zenon, <1>1, <3>1, <3>2, MoneyMoves DEF Outcome!Settle
    <2> QED
      BY Zenon, <1>4, <2>2, <2>3
  <1> QED
    BY Zenon, <1>2, <1>3, <1>4 DEF ConfirmTransfer

\* CompensateDebit returns the money once, after the reservation was canceled.
LEMMA CompensateReturns ==
    ASSUME SagaInv, NEW t \in Threads, CompensateDebit(t)
    PROVE  Stutters \/ \E p \in Payments : Outcome!Return(p)
  <1>1. UNCHANGED <<debited, ledger, outbox>>
    BY Zenon DEF CompensateDebit, store
  <1>2. PICK p \in Payments : p = pay[t]
    BY Zenon, ThreadKnown DEF CompensateDebit
  <1>3. CASE refunded' = refunded
    BY Zenon, <1>1, <1>3, NoFactStutters
  <1>4. CASE /\ refunded' = refunded \cup {p}
             /\ p \notin refunded
             /\ p \in debited
    <2>1. ledger[p] = "CANCELED"
      BY Zenon, <1>2, ThreadKnown DEF CompensateDebit, Justified, LabelJustified, Facts
    <2>2. MoneyOf(p) = "held" /\ MoneyOf(p)' = "returned"
      BY Zenon, <1>1, <1>4, <2>1 DEF MoneyOf
    <2>3. \A q \in Payments \ {p} : MoneyOf(q)' = MoneyOf(q)
      BY <1>1, <1>4 DEF MoneyOf
    <2> QED
      BY Zenon, <1>1, <2>2, <2>3, MoneyMoves DEF Outcome!Return
  <1> QED
    BY Zenon, <1>2, <1>3, <1>4 DEF CompensateDebit

\* ReserveTransfer and CancelReservation never touch a confirmed reservation.
LEMMA ReservationStutters ==
    ASSUME SagaInv, NEW t \in Threads, ReserveTransfer(t) \/ CancelReservation(t)
    PROVE  Stutters
  <1>1. UNCHANGED <<debited, refunded, outbox>>
    BY Zenon DEF ReserveTransfer, CancelReservation, store
  <1>2. /\ ledger \in [Payments -> {"none", "RESERVED", "CONFIRMED", "CANCELED"}]
        /\ pay[t] \in Payments
    BY Zenon, ThreadKnown DEF ReserveTransfer, CancelReservation, DataType
  <1>3. \A p \in Payments : ledger'[p] = "CONFIRMED" <=> ledger[p] = "CONFIRMED"
    <2>1. CASE ReserveTransfer(t)
      BY Zenon, <1>2, <2>1 DEF ReserveTransfer
    <2>2. CASE CancelReservation(t)
      BY Zenon, <1>2, <2>2 DEF CancelReservation
    <2> QED
      BY Zenon, <2>1, <2>2
  <1> QED
    BY Zenon, <1>1, <1>3, LedgerOnlyStutters

\* publishTxCompleted and publishTxFailed announce an end that was reached.
LEMMA PublishAnnounces ==
    ASSUME SagaInv, NEW t \in Threads, PublishTxCompleted(t) \/ PublishTxFailed(t)
    PROVE  \E p \in Payments : Outcome!Announce(p)
  <1>1. UNCHANGED <<debited, refunded, ledger>>
    BY Zenon DEF PublishTxCompleted, PublishTxFailed, services
  <1>2. PICK p \in Payments : p = pay[t]
    BY Zenon, ThreadKnown DEF PublishTxCompleted, PublishTxFailed
  <1>3. UNCHANGED [q \in Payments |-> MoneyOf(q)]
    <2>1. \A q \in Payments : MoneyOf(q)' = MoneyOf(q)
      BY Zenon, <1>1 DEF MoneyOf
    <2> QED
      BY Zenon, <2>1
  <1>4. CASE PublishTxCompleted(t)
    <2>1. ledger[p] = "CONFIRMED"
      BY Zenon, <1>2, <1>4, ThreadKnown DEF PublishTxCompleted, Justified, LabelJustified, Facts
    <2>2. MoneyOf(p) = "recipient"
      <3>1. p \in debited /\ p \notin refunded
        BY Zenon, <2>1 DEF SagaInv, FactsInv, ConfirmOnlyIfCharged, RefundOnlyAfterCancel
      <3> QED
        BY Zenon, <2>1, <3>1 DEF MoneyOf
    <2>3. outbox' = outbox \cup {<<"tx.completed", p>>}
      BY Zenon, <1>2, <1>4 DEF PublishTxCompleted
    <2> QED
      BY <1>3, <2>2, <2>3 DEF Outcome!Announce
  <1>5. CASE PublishTxFailed(t)
    <2>1. p \in refunded
      BY Zenon, <1>2, <1>5, ThreadKnown DEF PublishTxFailed, LabelJustified, Facts
    <2>2. MoneyOf(p) = "returned"
      BY Zenon, <2>1 DEF MoneyOf, SagaInv, FactsInv, RefundOnlyAfterCancel
    <2>3. outbox' = outbox \cup {<<"tx.failed", p>>}
      BY Zenon, <1>2, <1>5 DEF PublishTxFailed
    <2> QED
      BY SMTT(60), <1>3, <2>2, <2>3 DEF Outcome!Announce
  <1> QED
    BY Zenon, <1>4, <1>5

\* ExecutePayment enqueues commands, not final events.
LEMMA ExecuteStutters ==
    ASSUME NEW t \in Threads, ExecutePayment(t)
    PROVE  Stutters
  <1>1. UNCHANGED <<debited, refunded, ledger>>
    BY Zenon DEF ExecutePayment, services
  <1>2. UNCHANGED money
    <2>1. \A q \in Payments : MoneyOf(q)' = MoneyOf(q)
      BY Zenon, <1>1 DEF MoneyOf
    <2> QED
      BY Zenon, <2>1 DEF money
  <1>3. UNCHANGED announced
    BY DEF ExecutePayment, announced
  <1> QED
    BY Zenon, <1>2, <1>3 DEF Stutters

\* Every step of the system is a step of PaymentOutcome or invisible to it.
LEMMA StepKeepsOutcome ==
    SagaInv /\ [Next]_vars => [Outcome!Next]_<<money, announced>>
  <1> SUFFICES ASSUME SagaInv, [Next]_vars
               PROVE  Stutters \/ Outcome!Next
    BY Zenon DEF Stutters
  <1> DEFINE Quiet == UNCHANGED <<debited, refunded, ledger, outbox>>
  <1>1. ASSUME NEW t \in Threads, Step(t)
        PROVE  Stutters \/ Outcome!Next
    <2>1. CASE Quiet
      BY Zenon, <2>1, NoFactStutters
    <2>2. CASE DebitForSaga(t)
      BY Zenon, <2>2, DebitTakes DEF Outcome!Next
    <2>3. CASE ConfirmTransfer(t)
      BY Zenon, <2>3, ConfirmSettles DEF Outcome!Next
    <2>4. CASE CompensateDebit(t)
      BY Zenon, <2>4, CompensateReturns DEF Outcome!Next
    <2>5. CASE PublishTxCompleted(t) \/ PublishTxFailed(t)
      BY Zenon, <2>5, PublishAnnounces DEF Outcome!Next
    <2>6. CASE ReserveTransfer(t) \/ CancelReservation(t) \/ ExecutePayment(t)
      BY Zenon, <2>6, ReservationStutters, ExecuteStutters
    <2>7. CASE CheckVerification(t) \/ FailUnverified(t) \/ Update(t)
      BY Zenon, <2>1, <2>7 DEF CheckVerification, FailUnverified, Update, store, services
    <2>8. CASE HandlePaymentCompleted(t) \/ HandlePaymentFailed(t)
      BY Zenon, <2>1, <2>8 DEF HandlePaymentCompleted, HandlePaymentFailed, services
    <2>9. CASE \/ HandleFraudFlagged(t) \/ PauseForReview(t) \/ SaveFraudMetadata(t)
               \/ SaveDeferredResult(t) \/ LoadReview(t)
      BY Zenon, <2>1, <2>9 DEF HandleFraudFlagged, PauseForReview, SaveFraudMetadata,
                        SaveDeferredResult, LoadReview, store, services
    <2>10. CASE ResumeFraudReview(t) \/ RejectFraudReview(t)
      BY Zenon, <2>1, <2>10 DEF ResumeFraudReview, RejectFraudReview, services
    <2> QED
      BY Zenon, <1>1, <2>2, <2>3, <2>4, <2>5, <2>6, <2>7, <2>8, <2>9, <2>10 DEF Step
  <1>0. CASE Quiet
    BY Zenon, <1>0, NoFactStutters
  <1>2. ASSUME NEW t \in Threads, TransientError(t)
        PROVE  Stutters \/ Outcome!Next
    BY Zenon, <1>0, <1>2 DEF TransientError, store, services
  <1>3. CASE Consume
    BY Zenon, <1>3, <1>0 DEF Consume, CommitRecord, HandleRecord, store, services
  <1>4. CASE Reap
    BY Zenon, <1>4, <1>0 DEF Reap, ExpireFraudReviews, ExpireNext, store, services
  <1>5. CASE Boot
    BY Zenon, <1>5, <1>0 DEF Boot, Restart, ResumeOne, Serve, store, services
  <1>6. CASE Request \/ Crash
    BY SMTT(60), <1>6, <1>0 DEF Request, Crash, StartPaymentSaga, OperatorDecision, store, services
  <1>7. CASE Environment
    BY Zenon, <1>7, <1>0 DEF Environment, VerifyUser, PublishResult, PublishFraudFlagged, store,
                services
  <1>8. CASE UNCHANGED vars
    BY Zenon, <1>8, <1>0 DEF vars, store, services
  <1> QED
    BY Zenon, <1>1, <1>2, <1>3, <1>4, <1>5, <1>6, <1>7, <1>8 DEF Next

\* The orchestrator with the wallet and the ledger implements PaymentOutcome: for
\* any number of payments, handlers and faults, money is taken at most once, ends
\* with the recipient or back with the payer, and only a reached end is announced.
THEOREM SagaKeepsOutcome == Spec => KeepsOutcome
  <1>1. Init => Outcome!Init
    BY DEF Init, Outcome!Init, MoneyOf
  <1>2. SagaInv /\ [Next]_vars =>
          [Outcome!Next]_<<[p \in Payments |-> MoneyOf(p)],
                           outbox \cap ({"tx.completed", "tx.failed"} \X Payments)>>
    BY Zenon, StepKeepsOutcome DEF money, announced
  <1> QED
    BY <1>1, <1>2, SagaInvariant, PTL DEF Spec, KeepsOutcome, Outcome!Spec

-----------------------------------------------------------------------------
(* The consumer commits the offset of a payment result only when the       *)
(* result had its effect or is in the audit trail.  ConsumerFlow, the      *)
(* labels a record takes the consumer through, makes this inductive.       *)

\* What is kept stays kept: outbox rows and audit records are never removed.
KeepsGrowing == outbox \subseteq outbox' /\ audit \subseteq audit'

\* Where the consumer stands.
ConsumerAt == <<topic, pc["consumer"], cur["consumer"], pay["consumer"]>>

\* A kept result stays kept: no step removes an outbox row or an audit record.
LEMMA KeptStays ==
    ASSUME KeepsGrowing, NEW p, NEW r, Kept(p, r)
    PROVE  Kept(p, r)'
  BY Zenon DEF KeepsGrowing, Kept

\* A step that leaves the consumer where it is.
LEMMA OthersKeepFlow ==
    ASSUME ConsumerFlow, UNCHANGED ConsumerAt, KeepsGrowing
    PROVE  ConsumerFlow'
  BY Zenon, KeptStays DEF ConsumerFlow, FlowAt, ConsumerAt

\* Writing an audit record of result r keeps r, whichever kind was first.
LEMMA RecordedIsKept ==
    ASSUME SagaInv, NEW p \in Payments, NEW r \in Results, NEW k \in AuditKinds,
           audit' = Recorded(p, r, k)
    PROVE  Kept(p, r)'
  <1>1. r \in AuditEvents /\ DataType
    BY Zenon, TypeHalves DEF AuditEvents, SagaInv
  <1> QED
    BY Zenon, <1>1, RecordedType DEF Kept

\* The audit trail and the outbox only grow.
LEMMA StepKeeps ==
    ASSUME SagaInv, NEW t \in Threads, Step(t)
    PROVE  KeepsGrowing
  <1>1. \A p, e, k : audit \subseteq Recorded(p, e, k)
    BY Zenon DEF Recorded
  <1>2. outbox \subseteq outbox'
    BY Zenon DEF Step, CheckVerification, FailUnverified, Update, DebitForSaga,
           ReserveTransfer, ExecutePayment, HandlePaymentCompleted,
           HandlePaymentFailed, ConfirmTransfer, PublishTxCompleted,
           CancelReservation, CompensateDebit, PublishTxFailed,
           HandleFraudFlagged, PauseForReview, SaveFraudMetadata,
           SaveDeferredResult, LoadReview, ResumeFraudReview, RejectFraudReview,
           store
  <1>3. ASSUME HandlePaymentCompleted(t) \/ HandlePaymentFailed(t)
        PROVE  audit \subseteq audit'
    <2>1. \/ audit' = audit
          \/ \E p, e, k : audit' = Recorded(p, e, k)
      BY Zenon, <1>3 DEF HandlePaymentCompleted, HandlePaymentFailed, DeferResult,
         RecordResult
    <2> QED
      BY Zenon, <1>1, <2>1
  <1>4. ASSUME \/ PauseForReview(t) \/ SaveFraudMetadata(t) \/ SaveDeferredResult(t)
               \/ ResumeFraudReview(t) \/ RejectFraudReview(t)
        PROVE  audit \subseteq audit'
    <2>1. \E p, e, k : audit' = Recorded(p, e, k)
      BY SMTT(60), <1>4 DEF PauseForReview, SaveFraudMetadata, SaveDeferredResult,
         ResumeFraudReview, RejectFraudReview
    <2> QED
      BY Zenon, <1>1, <2>1
  <1>5. ASSUME \/ CheckVerification(t) \/ FailUnverified(t) \/ Update(t)
               \/ DebitForSaga(t) \/ ReserveTransfer(t) \/ ExecutePayment(t)
               \/ ConfirmTransfer(t) \/ PublishTxCompleted(t)
               \/ CancelReservation(t) \/ CompensateDebit(t) \/ PublishTxFailed(t)
               \/ HandleFraudFlagged(t) \/ LoadReview(t)
        PROVE  audit \subseteq audit'
    BY Zenon, <1>5 DEF CheckVerification, FailUnverified, Update, DebitForSaga,
       ReserveTransfer, ExecutePayment, ConfirmTransfer, PublishTxCompleted,
       CancelReservation, CompensateDebit, PublishTxFailed, HandleFraudFlagged,
       LoadReview, store
  <1>6. audit \subseteq audit'
    BY Zenon, <1>3, <1>4, <1>5 DEF Step
  <1> QED
    BY Zenon, <1>2, <1>6 DEF KeepsGrowing

\* Another thread's step leaves the consumer where it is.
LEMMA OtherThreadFlow ==
    ASSUME SagaInv, ConsumerFlow, NEW t \in Threads \ {"consumer"},
           SafeControl(t), KeepsGrowing
    PROVE  ConsumerFlow'
  <1>1. /\ pc \in [Threads -> Labels]
        /\ pay \in [Threads -> Payments \cup {NoPayment}]
        /\ cur \in [Threads -> Saga]
        /\ "consumer" \in Threads
    BY Zenon DEF SagaInv, TypeOK, Threads
  <1>2. UNCHANGED ConsumerAt
    BY Zenon, <1>1 DEF SafeControl, Goto, Release, ReturnOK, ReturnError, ConsumerAt
  <1> QED
    BY Zenon, <1>2, OthersKeepFlow

\* The consumer goes on to a label that the flow of its topic allows.
LEMMA GotoFlow ==
    ASSUME SagaInv, NEW l, NEW s, NEW kept, Goto("consumer", l, s),
           kept = {r \in Results : Kept(pay["consumer"], r)'},
           FlowAt(topic, l, s, kept)
    PROVE  ConsumerFlow'
  <1>1. /\ pc'["consumer"] = l
        /\ cur'["consumer"] = s
        /\ topic' = topic
        /\ pay' = pay
    BY Zenon DEF Goto, SagaInv, TypeOK, Threads
  <1> QED
    BY Zenon, <1>1 DEF ConsumerFlow

\* The consumer lets go of its record.
LEMMA ReleaseFlow ==
    ASSUME SagaInv, Release("consumer")
    PROVE  ConsumerFlow'
  BY Zenon DEF Release, ConsumerFlow, FlowAt, SagaInv, TypeOK, Threads, Topics

\* Coming to commit: the result of the record's topic, if it is one, is kept.
LEMMA CommitFlow ==
    ASSUME SagaInv, NEW p, p = pay["consumer"], topic # "none",
           ReturnOK("consumer"),
           topic = "payment.completed" => Kept(p, "completed")',
           topic = "payment.failed" => Kept(p, "failed")'
    PROVE  ConsumerFlow'
  <1> DEFINE kept == {r \in Results : Kept(pay["consumer"], r)'}
  <1>1. Goto("consumer", "commit", NoSaga)
    BY Zenon DEF ReturnOK
  <1>2. \A r : Kept(p, r)' => Kept(pay["consumer"], r)'
    BY Zenon, <1>1 DEF Goto, Kept
  <1>3. FlowAt(topic, "commit", NoSaga, kept)
    BY Zenon, <1>2 DEF FlowAt, Results
  <1> QED
    BY Zenon, <1>1, <1>3, GotoFlow

\* The handlers of payment results record, defer, or go on to their first call.
LEMMA ResultHandlersFlow ==
    ASSUME SagaInv, ConsumerFlow,
           HandlePaymentCompleted("consumer") \/ HandlePaymentFailed("consumer")
    PROVE  ConsumerFlow'
  <1>0. PICK r \in Results :
           r = IF pc["consumer"] = "completed" THEN "completed" ELSE "failed"
    BY Zenon DEF Results
  <1> DEFINE saga == row[pay["consumer"]]
             kept == {q \in Results : Kept(pay["consumer"], q)'}
  <1>1. /\ "consumer" \in Threads
        /\ pc["consumer"] # "idle"
        /\ topic \in Topics
    BY Zenon DEF SagaInv, ConsumerHasRecord, Threads, HandlePaymentCompleted,
           HandlePaymentFailed
  <1>2. /\ topic = (IF r = "completed" THEN "payment.completed" ELSE "payment.failed")
        /\ r \in Results
    BY Zenon, <1>0, <1>1 DEF ConsumerFlow, FlowAt, Topics, Results, HandlePaymentCompleted,
                HandlePaymentFailed
  <1>3. saga \in Saga /\ pay["consumer"] \in Payments
    BY Zenon, <1>1, ThreadKnown
  <1>4. ASSUME NEW k \in AuditKinds, RecordResult("consumer", r, k)
        PROVE  ConsumerFlow'
    <2>1. PICK p \in Payments : p = pay["consumer"]
      BY Zenon, <1>3
    <2>2. Kept(p, r)'
      BY Zenon, <1>2, <1>4, <2>1, RecordedIsKept DEF RecordResult
    <2>3. /\ topic = "payment.completed" => r = "completed"
          /\ topic = "payment.failed" => r = "failed"
          /\ topic # "none"
      BY Zenon, <1>2 DEF Results
    <2> QED
      BY Zenon, <1>4, <2>1, <2>2, <2>3, CommitFlow DEF RecordResult
  <1>5. ASSUME NEW l, NEW s, Goto("consumer", l, s), FlowAt(topic, l, s, kept)
        PROVE  ConsumerFlow'
    BY Zenon, <1>5, GotoFlow
  <1>6. {"duplicate", "invariant_violation"} \subseteq AuditKinds
    BY Zenon DEF AuditKinds
  <1>7. ASSUME DeferResult("consumer", r)
        PROVE  ConsumerFlow'
    <2>1. CASE Goto("consumer", "defer", [saga EXCEPT !.deferred = r])
      <3>1. [saga EXCEPT !.deferred = r].deferred = r
        BY Zenon, <1>3 DEF Saga
      <3>2. FlowAt(topic, "defer", [saga EXCEPT !.deferred = r], kept)
        BY Zenon, <1>2, <3>1 DEF FlowAt, Results
      <3> QED
        BY Zenon, <1>5, <2>1, <3>2
    <2> QED
      BY Zenon, <1>4, <1>6, <1>7, <2>1 DEF DeferResult
  <1>8. CASE HandlePaymentCompleted("consumer")
    <2>1. r = "completed" /\ topic = "payment.completed"
      BY Zenon, <1>0, <1>2, <1>8 DEF HandlePaymentCompleted
    <2>2. CASE Goto("consumer", "confirm", saga)
      <3>1. FlowAt(topic, "confirm", saga, kept)
        BY Zenon, <2>1 DEF FlowAt
      <3> QED
        BY Zenon, <1>5, <2>2, <3>1
    <2> QED
      BY Zenon, <1>4, <1>6, <1>7, <1>8, <2>1, <2>2 DEF HandlePaymentCompleted
  <1>9. CASE HandlePaymentFailed("consumer")
    <2> DEFINE next == [saga EXCEPT !.state = "COMPENSATING_LEDGER", !.failure = "rail"]
    <2>1. r = "failed" /\ topic = "payment.failed"
      BY Zenon, <1>0, <1>2, <1>9 DEF HandlePaymentFailed
    <2>2. CASE Goto("consumer", "update", next)
      <3>1. next.state = "COMPENSATING_LEDGER"
        BY Zenon, <1>3 DEF Saga
      <3> HIDE DEF next
      <3>2. FlowAt(topic, "update", next, kept)
        BY Zenon, <2>1, <3>1 DEF FlowAt
      <3> QED
        BY Zenon, <1>5, <2>2, <3>2
    <2> QED
      BY Zenon, <1>4, <1>6, <1>7, <1>9, <2>1, <2>2 DEF HandlePaymentFailed
  <1> QED
    BY Zenon, <1>8, <1>9

\* Confirming and compensating go through their calls in order and end with the
\* final event in the outbox.
LEMMA CallsFlow ==
    ASSUME SagaInv, ConsumerFlow,
           \/ Update("consumer") \/ ConfirmTransfer("consumer")
           \/ PublishTxCompleted("consumer") \/ CancelReservation("consumer")
           \/ CompensateDebit("consumer") \/ PublishTxFailed("consumer")
    PROVE  ConsumerFlow'
  <1> DEFINE s == cur["consumer"]
             kept == {q \in Results : Kept(pay["consumer"], q)'}
  <1>1. /\ "consumer" \in Threads
        /\ pc["consumer"] # "idle"
        /\ topic \in Topics /\ topic # "none"
    BY Zenon DEF SagaInv, ConsumerHasRecord, Threads, Topics, Update, ConfirmTransfer,
           PublishTxCompleted, CancelReservation, CompensateDebit, PublishTxFailed
  <1>2. s \in Saga /\ Justified(pay["consumer"], s, Facts)
    BY Zenon, <1>1, ThreadKnown
  <1>3. PICK p \in Payments : p = pay["consumer"]
    BY Zenon, <1>1, ThreadKnown
  <1>4. ASSUME NEW l, NEW c, Goto("consumer", l, c), FlowAt(topic, l, c, kept)
        PROVE  ConsumerFlow'
    BY Zenon, <1>4, GotoFlow
  <1>5. CASE ReturnError("consumer")
    BY Zenon, <1>5, ReleaseFlow DEF ReturnError
  <1>6. CASE Update("consumer")
    <2>1. \/ topic = "payment.completed" /\ s.state = "LEDGER_CONFIRMED"
          \/ topic = "payment.completed" /\ s.state = "COMPLETED"
          \/ /\ topic = "payment.failed"
             /\ s.state \in {"COMPENSATING_LEDGER", "COMPENSATING_WALLET", "FAILED"}
      BY Zenon, <1>1, <1>6 DEF Update, ConsumerFlow, FlowAt, Topics
    <2>2. CASE topic = "payment.completed" /\ s.state = "LEDGER_CONFIRMED"
      <3>1. Goto("consumer", "publish_completed", s)
        BY Zenon, <1>6, <2>2 DEF Update, Proceed, NextCall
      <3>2. FlowAt(topic, "publish_completed", s, kept)
        BY Zenon, <2>2 DEF FlowAt
      <3> QED
        BY Zenon, <1>4, <3>1, <3>2
    <2>3. CASE topic = "payment.completed" /\ s.state = "COMPLETED"
      <3>1. ReturnOK("consumer")
        BY Zenon, <1>6, <2>3 DEF Update, Proceed, NextCall
      <3>2. <<"tx.completed", p>> \in outbox
        BY Zenon, <1>2, <1>3, <2>3 DEF Justified, Facts
      <3>3. Kept(p, "completed")'
        BY Zenon, <1>6, <3>2 DEF Kept, Update
      <3> QED
        BY Zenon, <1>1, <1>3, <2>3, <3>1, <3>3, CommitFlow
    <2>4. CASE /\ topic = "payment.failed"
               /\ s.state \in {"COMPENSATING_LEDGER", "COMPENSATING_WALLET", "FAILED"}
      <3>1. PICK l \in {"cancel", "compensate", "publish_failed"} :
               Goto("consumer", l, s)
        BY Zenon, <1>6, <2>4 DEF Update, Proceed, NextCall
      <3>2. FlowAt(topic, l, s, kept)
        BY Zenon, <2>4 DEF FlowAt
      <3> QED
        BY Zenon, <1>4, <3>1, <3>2
    <2> QED
      BY Zenon, <2>1, <2>2, <2>3, <2>4
  <1>7. ASSUME NEW st \in {"LEDGER_CONFIRMED", "COMPLETED", "COMPENSATING_WALLET",
                           "FAILED"},
               Goto("consumer", "update", [s EXCEPT !.state = st]),
               topic = IF st \in {"LEDGER_CONFIRMED", "COMPLETED"}
                       THEN "payment.completed" ELSE "payment.failed"
        PROVE  ConsumerFlow'
    <2> DEFINE c == [s EXCEPT !.state = st]
    <2>1. c.state = st
      BY Zenon, <1>2 DEF Saga
    <2>2. Goto("consumer", "update", c)
      BY Zenon, <1>7
    <2> HIDE DEF c
    <2>3. FlowAt(topic, "update", c, kept)
      BY Zenon, <1>7, <2>1 DEF FlowAt
    <2> QED
      BY Zenon, <1>4, <2>2, <2>3
  <1>8. CASE ConfirmTransfer("consumer") \/ PublishTxCompleted("consumer")
    <2>1. topic = "payment.completed"
      BY Zenon, <1>1, <1>8
         DEF ConfirmTransfer, PublishTxCompleted, ConsumerFlow, FlowAt, Topics
    <2> QED
      BY Zenon, <1>5, <1>7, <1>8, <2>1 DEF ConfirmTransfer, PublishTxCompleted
  <1>9. CASE CancelReservation("consumer") \/ CompensateDebit("consumer")
    <2>1. topic = "payment.failed"
      BY Zenon, <1>1, <1>9 DEF CancelReservation, CompensateDebit, ConsumerFlow, FlowAt, Topics
    <2> QED
      BY Zenon, <1>5, <1>7, <1>9, <2>1 DEF CancelReservation, CompensateDebit
  <1>10. CASE PublishTxFailed("consumer")
    <2>1. topic = "payment.failed"
      BY Zenon, <1>1, <1>10 DEF PublishTxFailed, ConsumerFlow, FlowAt, Topics
    <2>2. Kept(p, "failed")'
      BY Zenon, <1>3, <1>10 DEF PublishTxFailed, Kept
    <2> QED
      BY Zenon, <1>1, <1>3, <1>10, <2>1, <2>2, CommitFlow DEF PublishTxFailed
  <1> QED
    BY Zenon, <1>6, <1>8, <1>9, <1>10

\* A deferred result is in the audit trail when the consumer returns; a flag
\* needs nothing kept.
LEMMA ReviewStepsFlow ==
    ASSUME SagaInv, ConsumerFlow,
           \/ HandleFraudFlagged("consumer") \/ PauseForReview("consumer")
           \/ SaveFraudMetadata("consumer") \/ SaveDeferredResult("consumer")
    PROVE  ConsumerFlow'
  <1> DEFINE kept == {q \in Results : Kept(pay["consumer"], q)'}
  <1>1. /\ "consumer" \in Threads
        /\ pc["consumer"] # "idle"
        /\ topic \in Topics /\ topic # "none"
    BY Zenon DEF SagaInv, ConsumerHasRecord, Threads, Topics, HandleFraudFlagged,
           PauseForReview, SaveFraudMetadata, SaveDeferredResult
  <1>2. PICK p \in Payments : p = pay["consumer"]
    BY Zenon, <1>1, ThreadKnown
  <1>3. CASE SaveDeferredResult("consumer")
    <2>1. PICK r \in Results : r = cur["consumer"].deferred
      BY Zenon, <1>1, <1>3, ThreadKnown DEF SaveDeferredResult, LabelJustified, Saga
    <2>2. Kept(p, r)'
      <3>1. "deferred_terminal" \in AuditKinds
        BY Zenon DEF AuditKinds
      <3> QED
        BY Zenon, <1>2, <1>3, <2>1, <3>1, RecordedIsKept DEF SaveDeferredResult
    <2>3. \/ topic = "payment.completed" /\ r = "completed"
          \/ topic = "payment.failed" /\ r = "failed"
      BY Zenon, <1>1, <1>3, <2>1 DEF SaveDeferredResult, ConsumerFlow, FlowAt, Topics
    <2> QED
      BY Zenon, <1>1, <1>2, <1>3, <2>2, <2>3, CommitFlow DEF SaveDeferredResult
  <1>4. CASE PauseForReview("consumer") \/ SaveFraudMetadata("consumer")
    <2>1. topic = "fraud.flagged"
      BY Zenon, <1>1, <1>4 DEF PauseForReview, SaveFraudMetadata, ConsumerFlow, FlowAt, Topics
    <2> QED
      BY Zenon, <1>1, <1>2, <1>4, <2>1, CommitFlow DEF PauseForReview, SaveFraudMetadata
  <1>5. CASE HandleFraudFlagged("consumer")
    <2>1. topic = "fraud.flagged"
      BY Zenon, <1>1, <1>5 DEF HandleFraudFlagged, ConsumerFlow, FlowAt, Topics
    <2>2. PICK l \in {"pause", "flag"}, c \in Saga : Goto("consumer", l, c)
      <3>1. row[pay["consumer"]] \in Saga
        BY Zenon, <1>1, ThreadKnown
      <3>2. [row[pay["consumer"]] EXCEPT !.state = "FRAUD_REVIEW"] \in Saga
        BY Zenon, <3>1 DEF Saga, States
      <3> QED
        BY Zenon, <1>5, <3>1, <3>2 DEF HandleFraudFlagged
    <2>3. FlowAt(topic, l, c, kept)
      BY Zenon, <2>1 DEF FlowAt
    <2> QED
      BY Zenon, <2>2, <2>3, GotoFlow
  <1> QED
    BY Zenon, <1>3, <1>4, <1>5

\* The consumer never runs the steps of the other threads' handlers.
LEMMA ConsumerStepFlow ==
    ASSUME SagaInv, ConsumerFlow, Step("consumer")
    PROVE  ConsumerFlow'
  <1>1. /\ pc["consumer"] # "idle" => topic \in Topics
        /\ pc["consumer"] \notin {"verify", "fail_unverified", "debit", "reserve",
                                 "execute", "read_resume", "read_reject", "resume",
                                 "reject"}
    BY Zenon DEF SagaInv, ConsumerHasRecord, ConsumerFlow, FlowAt, Topics
  <1>2. ~ \/ CheckVerification("consumer") \/ FailUnverified("consumer")
          \/ DebitForSaga("consumer") \/ ReserveTransfer("consumer")
          \/ ExecutePayment("consumer") \/ LoadReview("consumer")
          \/ ResumeFraudReview("consumer") \/ RejectFraudReview("consumer")
    BY Zenon, <1>1 DEF CheckVerification, FailUnverified, DebitForSaga, ReserveTransfer,
                ExecutePayment, LoadReview, ResumeFraudReview, RejectFraudReview
  <1> QED
    BY Zenon, <1>2, ResultHandlersFlow, CallsFlow, ReviewStepsFlow DEF Step

\* A thread that is not the consumer takes up a payment.
LEMMA BeginFlow ==
    ASSUME SagaInv, ConsumerFlow, NEW t \in Threads \ {"consumer"}, NEW l, NEW p,
           NEW s, Begin(t, l, p, s), topic' = topic, UNCHANGED <<outbox, audit>>
    PROVE  ConsumerFlow'
  <1>1. UNCHANGED ConsumerAt
    BY Zenon DEF Begin, ConsumerAt, SagaInv, TypeOK, Threads
  <1> QED
    BY Zenon, <1>1, OthersKeepFlow DEF KeepsGrowing

\* The flow is kept by every step.
LEMMA NextKeepsFlow == SagaInv /\ ConsumerFlow /\ [Next]_vars => ConsumerFlow'
  <1> SUFFICES ASSUME SagaInv, ConsumerFlow, [Next]_vars
               PROVE  ConsumerFlow'
    OBVIOUS
  <1>1. ASSUME UNCHANGED <<topic, pc, cur, pay, outbox, audit>>
        PROVE  ConsumerFlow'
    BY Zenon, <1>1, OthersKeepFlow DEF ConsumerAt, KeepsGrowing
  <1>2. ASSUME NEW t \in Threads, Step(t)
        PROVE  ConsumerFlow'
    <2>1. CASE t = "consumer"
      BY Zenon, <1>2, <2>1, ConsumerStepFlow
    <2>2. CASE t # "consumer"
      <3>1. SafeControl(t)
        BY Zenon, <1>2, StepIsSafe DEF SafeStep
      <3> QED
        BY Zenon, <1>2, <2>2, <3>1, StepKeeps, OtherThreadFlow
    <2> QED
      BY Zenon, <2>1, <2>2
  <1>3. ASSUME NEW t \in Threads, TransientError(t)
        PROVE  ConsumerFlow'
    <2>1. CASE t = "consumer"
      BY Zenon, <1>3, <2>1, ReleaseFlow DEF TransientError, ReturnError
    <2>2. CASE t # "consumer"
      BY Zenon, <1>3, <2>2, OtherThreadFlow DEF TransientError, SafeControl, store, KeepsGrowing
    <2> QED
      BY Zenon, <2>1, <2>2
  <1>4. CASE CommitRecord
    BY Zenon, <1>4, ReleaseFlow DEF CommitRecord
  <1>5. ASSUME NEW k \in Topics, HandleRecord(k)
        PROVE  ConsumerFlow'
    <2>1. pc'["consumer"] = Handler(k) /\ topic' = k
      BY SMTT(60), <1>5 DEF HandleRecord, Begin, SagaInv, TypeOK, Threads
    <2> QED
      BY Zenon, <2>1 DEF ConsumerFlow, FlowAt, Handler, Topics
  <1>6. CASE Reap
    <2>1. CASE ExpireFraudReviews
      BY Zenon, <1>1, <2>1 DEF ExpireFraudReviews, control, store
    <2>2. CASE ExpireNext
      BY Zenon, <2>2, BeginFlow DEF ExpireNext, store, Threads
    <2> QED
      BY Zenon, <1>6, <2>1, <2>2 DEF Reap
  <1>7. CASE Boot
    <2>1. CASE Restart \/ Serve
      BY Zenon, <1>1, <2>1 DEF Restart, Serve, store
    <2>2. CASE ResumeOne
      <3>1. topic' = topic /\ UNCHANGED <<outbox, audit>> /\ "boot" \in Threads
        BY Zenon, <2>2 DEF ResumeOne, store, Threads
      <3>2. PICK p : \/ UNCHANGED <<mode, pc, pay, cur, position>>
                    \/ Begin("boot", ResumeCall(row[p].state), p, row[p])
        BY Zenon, <2>2 DEF ResumeOne
      <3> QED
        BY Zenon, <1>1, <3>1, <3>2, BeginFlow
    <2> QED
      BY Zenon, <1>7, <2>1, <2>2 DEF Boot
  <1>8. CASE Crash
    BY Zenon, <1>8 DEF Crash, ConsumerFlow, FlowAt, Threads
  <1>9. CASE Request
    <2>1. PICK t \in Workers, p \in Payments :
             \/ StartPaymentSaga(t, p)
             \/ \E d \in Decisions : OperatorDecision(t, p, d)
      BY Zenon, <1>9 DEF Request
    <2>2. t \in Threads \ {"consumer"}
      BY Zenon, ConstantsAssumption DEF Threads
    <2>3. CASE StartPaymentSaga(t, p)
      BY Zenon, <2>2, <2>3, BeginFlow DEF StartPaymentSaga
    <2>4. ASSUME NEW d \in Decisions, OperatorDecision(t, p, d)
          PROVE  ConsumerFlow'
      BY Zenon, <2>2, <2>4, BeginFlow DEF OperatorDecision, store
    <2> QED
      BY Zenon, <2>1, <2>3, <2>4
  <1>10. CASE Environment
    BY Zenon, <1>1, <1>10 DEF Environment, VerifyUser, PublishResult, PublishFraudFlagged,
                       control, store
  <1>11. CASE UNCHANGED vars
    BY Zenon, <1>1, <1>11 DEF vars, control, store
  <1> QED
    BY SMTT(60), <1>2, <1>3, <1>4, <1>5, <1>6, <1>7, <1>8, <1>9, <1>10, <1>11 DEF Next, Consume

\* While it handles a record the consumer stays on the path of the record's
\* handler, whatever the other threads write meanwhile.
THEOREM ConsumerFollowsFlow == Spec => []ConsumerFlow
  <1>1. Init => ConsumerFlow
    BY Zenon DEF Init, ConsumerFlow, FlowAt, Threads
  <1> QED
    BY <1>1, NextKeepsFlow, SagaInvariant, PTL DEF Spec

\* CommitRecord is only reached for a payment result that had its effect or is
\* in the audit trail: no acknowledged result is lost without a trace.
THEOREM CommitsAreKept == Spec => []CommitOnlyIfKept
  <1>1. ConsumerFlow => CommitOnlyIfKept
    BY Zenon DEF ConsumerFlow, FlowAt, CommitOnlyIfKept
  <1> QED
    BY <1>1, ConsumerFollowsFlow, PTL

=============================================================================
