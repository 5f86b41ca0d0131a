----------------------------- MODULE PaymentSaga -----------------------------
(***************************************************************************)
(* The saga orchestrator (services/internal/saga, sagaconsumer and         *)
(* cmd/saga-orchestrator) together with the wallet, ledger and             *)
(* verification services it calls and the Kafka topics it consumes.        *)
(*                                                                         *)
(* One process runs four kinds of thread: gRPC handlers (Workers), the     *)
(* Kafka consumer, the fraud-review reaper and, before any of them starts, *)
(* the boot thread that resumes unfinished sagas.  A thread is at a label  *)
(* pc[t] in front of its next remote call or database operation, and holds *)
(* in cur[t] the copy of the saga row it read earlier.  The store has no   *)
(* version check, so every write puts the whole copy back.                 *)
(***************************************************************************)
EXTENDS Integers, Sequences, FiniteSets

CONSTANTS
    Payments,        \* payment ids
    Workers,         \* concurrent gRPC handler threads
    Funded,          \* payments whose payer's balance covers the amount
    NoPayment,       \* "no payment in hand"
    Decisions,       \* decisions operators take on reviews
    ReviewTTL,       \* "on" when FRAUD_REVIEW_TTL is set and the reaper runs
    MaxResults,      \* bound: records on each payment-result topic
    MaxFlags,        \* bound: records on fraud.flagged
    MaxCrashes,      \* bound: process crashes
    MaxErrors        \* bound: transient errors returned by a call

ASSUME ConstantsAssumption ==
    /\ Funded \subseteq Payments
    /\ NoPayment \notin Payments
    /\ Workers \cap {"consumer", "reaper", "boot"} = {}
    /\ Decisions \subseteq {"read_resume", "read_reject"}
    /\ ReviewTTL \in {"on", "off"}
    /\ {MaxResults, MaxFlags, MaxCrashes, MaxErrors} \subseteq Nat

VARIABLES
    mode,          \* the process: "down", "booting" or "serving"
    pc, pay, cur,  \* per thread: label, payment in hand, copy of the saga row
    topic,         \* topic of the record the consumer is handling
    position,      \* consumer's in-memory fetch position per topic
    todo,          \* sagas still to visit by the boot and reaper loops
    committed,     \* committed offset per topic
    log,           \* records of each consumed topic
    row,           \* the table sagas
    outbox,        \* outbox rows, as a set of <<topic, payment>>
    paused,        \* number of tx.paused outbox rows per payment
    audit,         \* saga_fraud_audit_records, as <<payment, event, kind>>
    verification,  \* verification service: the payer's status
    debited,       \* wallet service: payments with a debit operation
    refunded,      \* wallet service: payments with a compensation operation
    ledger,        \* ledger service: reservation status
    result,        \* payment processor: the outcome of the rail
    crashes, errors

control  == <<mode, pc, pay, cur, topic, position>>
store    == <<row, outbox, paused, audit>>
services == <<verification, debited, refunded, ledger>>
bus      == <<log, committed>>
faults   == <<crashes, errors>>

vars == <<control, todo, store, services, result, bus, faults>>

Threads == Workers \cup {"consumer", "reaper", "boot"}

Topics == {"payment.completed", "payment.failed", "fraud.flagged"}

Results == {"completed", "failed"}

States == {"STARTED", "VERIFICATION_CHECKED", "WALLET_DEBITED",
           "LEDGER_RESERVED", "PAYMENT_PROCESSING", "FRAUD_REVIEW",
           "LEDGER_CONFIRMED", "COMPLETED", "COMPENSATING_LEDGER",
           "COMPENSATING_WALLET", "FAILED"}

Terminal == {"COMPLETED", "FAILED"}

\* The columns of the table sagas that decide anything.  "absent" is no row.
Saga == [state       : States \cup {"absent"},
         debit       : {"unset", "set"},        \* wallet_debit_id
         reservation : {"unset", "set"},        \* ledger_reservation_id
         failure     : {"none", "unverified", "rail", "fraud_rejected"},
         deferred    : Results \cup {"none"}]   \* deferred_payment_json

NoSaga == [state |-> "absent", debit |-> "unset", reservation |-> "unset",
           failure |-> "none", deferred |-> "none"]

StartedSaga == [NoSaga EXCEPT !.state = "STARTED"]

Labels == {"idle", "verify", "fail_unverified", "debit", "reserve", "execute",
           "update", "completed", "failed", "flagged", "confirm",
           "publish_completed", "cancel", "compensate", "publish_failed",
           "pause", "flag", "defer", "read_resume", "resume", "read_reject",
           "reject", "commit"}

AuditKinds == {"ignored", "transition", "deferred_terminal",
               "invariant_violation", "duplicate", "review_resumed",
               "review_rejected"}

AuditEvents == Results \cup {"flagged", "review"}

Init ==
    /\ mode = "serving"
    /\ pc = [t \in Threads |-> "idle"]
    /\ pay = [t \in Threads |-> NoPayment]
    /\ cur = [t \in Threads |-> NoSaga]
    /\ topic = "none"
    /\ position = [k \in Topics |-> 0]
    /\ todo = [t \in {"boot", "reaper"} |-> {}]
    /\ committed = [k \in Topics |-> 0]
    /\ log = [k \in Topics |-> << >>]
    /\ row = [p \in Payments |-> NoSaga]
    /\ outbox = {}
    /\ paused = [p \in Payments |-> 0]
    /\ audit = {}
    /\ verification = [p \in Payments |-> "pending"]
    /\ debited = {}
    /\ refunded = {}
    /\ ledger = [p \in Payments |-> "none"]
    /\ result = [p \in Payments |-> "none"]
    /\ crashes = 0
    /\ errors = 0

-----------------------------------------------------------------------------
(* Control flow of a thread.                                               *)

\* t goes on inside its handler, at label l and holding the copy s.
Goto(t, l, s) ==
    /\ pc' = [pc EXCEPT ![t] = l]
    /\ cur' = [cur EXCEPT ![t] = s]
    /\ UNCHANGED <<mode, pay, topic, position>>

\* t takes up payment p at label l.
Begin(t, l, p, s) ==
    /\ pc' = [pc EXCEPT ![t] = l]
    /\ pay' = [pay EXCEPT ![t] = p]
    /\ cur' = [cur EXCEPT ![t] = s]
    /\ UNCHANGED <<mode, position>>

\* t is done with its payment; the consumer's record is no longer in hand.
Release(t) ==
    /\ pc' = [pc EXCEPT ![t] = "idle"]
    /\ pay' = [pay EXCEPT ![t] = NoPayment]
    /\ cur' = [cur EXCEPT ![t] = NoSaga]
    /\ topic' = IF t = "consumer" THEN "none" ELSE topic

\* The handler returns nil.  The consumer goes on to commit the record.
ReturnOK(t) ==
    \/ /\ t = "consumer"
       /\ Goto(t, "commit", NoSaga)
    \/ /\ t # "consumer"
       /\ Release(t)
       /\ UNCHANGED <<mode, position>>

\* Mutant: the consumer commits a record although its handler failed.
ReturnErrorCommits(t) ==
    \/ /\ t = "consumer"
       /\ Goto(t, "commit", NoSaga)
    \/ /\ t # "consumer"
       /\ Release(t)
       /\ position' = position
       /\ mode' = IF t = "boot" THEN "down" ELSE mode

\* The handler returns an error.  The consumer logs it and takes the next
\* record of the fetch; the boot loop returns it and the process exits.
ReturnError(t) ==
    /\ Release(t)
    /\ position' = IF t = "consumer"
                   THEN [position EXCEPT ![topic] = @ + 1]
                   ELSE position
    /\ mode' = IF t = "boot" THEN "down" ELSE mode

\* The call a thread makes next for a saga it has just saved, or has loaded
\* at boot, in state s; "return" when there is none.
NextCall(s) ==
    CASE s = "STARTED"              -> "verify"
      [] s = "VERIFICATION_CHECKED" -> "debit"
      [] s = "WALLET_DEBITED"       -> "reserve"
      [] s = "LEDGER_RESERVED"      -> "execute"
      [] s = "LEDGER_CONFIRMED"     -> "publish_completed"
      [] s = "COMPENSATING_LEDGER"  -> "cancel"
      [] s = "COMPENSATING_WALLET"  -> "compensate"
      [] s = "FAILED"               -> "publish_failed"
      [] OTHER                      -> "return"

Proceed(t, s) ==
    \/ /\ NextCall(s.state) = "return"
       /\ ReturnOK(t)
    \/ /\ NextCall(s.state) # "return"
       /\ Goto(t, NextCall(s.state), s)

\* insertFraudAudit: the first record of an event id wins.  Decisions on a
\* review carry a time stamp, so each of them is kept.
Recorded(p, e, k) ==
    IF e # "review" /\ \E other \in AuditKinds : <<p, e, other>> \in audit
    THEN audit
    ELSE audit \cup {<<p, e, k>>}

-----------------------------------------------------------------------------
(* StartPaymentSaga and advance.                                           *)

StartPaymentSaga(t, p) ==
    /\ mode = "serving"
    /\ t \in Workers
    /\ pc[t] = "idle"
    /\ row[p].state \in {"absent", "STARTED"}   \* otherwise returns the row
    /\ LET created == IF row[p] = NoSaga THEN StartedSaga ELSE row[p]
       IN  /\ row' = [row EXCEPT ![p] = created]
           /\ Begin(t, "verify", p, created)
    /\ UNCHANGED <<topic, todo, outbox, paused, audit, services, result, bus,
                   faults>>

CheckVerification(t) ==
    /\ pc[t] = "verify"
    /\ IF verification[pay[t]] = "verified"
       THEN Goto(t, "update", [cur[t] EXCEPT !.state = "VERIFICATION_CHECKED"])
       ELSE Goto(t, "fail_unverified", cur[t])
    /\ UNCHANGED <<todo, store, services, result, bus, faults>>

\* Mutant: the failure is returned but not stored.
FailUnverifiedUnsaved(t) ==
    /\ pc[t] = "fail_unverified"
    /\ ReturnError(t)
    /\ UNCHANGED <<todo, store, services, result, bus, faults>>

FailUnverified(t) ==
    /\ pc[t] = "fail_unverified"
    /\ row' = [row EXCEPT ![pay[t]] = [cur[t] EXCEPT !.state = "FAILED",
                                                     !.failure = "unverified"]]
    /\ ReturnError(t)
    /\ UNCHANGED <<todo, outbox, paused, audit, services, result, bus, faults>>

\* store.Update: an unconditional write of the whole copy.
Update(t) ==
    /\ pc[t] = "update"
    /\ row' = [row EXCEPT ![pay[t]] = cur[t]]
    /\ Proceed(t, cur[t])
    /\ UNCHANGED <<todo, outbox, paused, audit, services, result, bus, faults>>

\* An existing debit is returned as it is; otherwise the balance must suffice.
DebitForSaga(t) ==
    /\ pc[t] = "debit"
    /\ \/ /\ pay[t] \in Funded \cup debited
          /\ debited' = debited \cup {pay[t]}
          /\ Goto(t, "update", [cur[t] EXCEPT !.state = "WALLET_DEBITED",
                                              !.debit = "set"])
       \/ /\ pay[t] \notin Funded \cup debited
          /\ debited' = debited
          /\ ReturnError(t)
    /\ UNCHANGED <<todo, store, verification, refunded, ledger, result, bus,
                   faults>>

\* An existing reservation is returned whatever its status.
ReserveTransfer(t) ==
    /\ pc[t] = "reserve"
    /\ ledger' = [ledger EXCEPT ![pay[t]] = IF @ = "none" THEN "RESERVED" ELSE @]
    /\ Goto(t, "update", [cur[t] EXCEPT !.state = "LEDGER_RESERVED",
                                        !.reservation = "set"])
    /\ UNCHANGED <<todo, store, verification, debited, refunded, result, bus,
                   faults>>

\* payment.execute and fraud.score.requested are enqueued in the transaction
\* that writes the row.
ExecutePayment(t) ==
    /\ pc[t] = "execute"
    /\ row' = [row EXCEPT ![pay[t]] =
                  [cur[t] EXCEPT !.state = "PAYMENT_PROCESSING"]]
    /\ outbox' = outbox \cup {<<"payment.execute", pay[t]>>,
                              <<"fraud.score.requested", pay[t]>>}
    /\ ReturnOK(t)
    /\ UNCHANGED <<todo, paused, audit, services, result, bus, faults>>

-----------------------------------------------------------------------------
(* Payment results.                                                        *)

\* A result r that finds the row in a state where it is only recorded.
RecordResult(t, r, kind) ==
    /\ audit' = Recorded(pay[t], r, kind)
    /\ ReturnOK(t)

\* deferTerminalPaymentResult: the first result during a review is stored.
DeferResult(t, r) ==
    LET saga == row[pay[t]]
    IN  \/ /\ saga.deferred = "none"
           /\ Goto(t, "defer", [saga EXCEPT !.deferred = r])
           /\ audit' = audit
        \/ /\ saga.deferred = r
           /\ RecordResult(t, r, "duplicate")
        \/ /\ saga.deferred \notin {r, "none"}
           /\ RecordResult(t, r, "invariant_violation")

HandlePaymentCompleted(t) ==
    LET saga == row[pay[t]]
    IN  /\ pc[t] = "completed"
        /\ \/ /\ saga.state = "COMPLETED"
              /\ RecordResult(t, "completed", "duplicate")
           \/ /\ saga.state = "FAILED"
              /\ RecordResult(t, "completed", "invariant_violation")
           \/ /\ saga.state = "FRAUD_REVIEW"
              /\ DeferResult(t, "completed")
           \/ /\ saga.state \notin Terminal \cup {"FRAUD_REVIEW"}
              /\ Goto(t, "confirm", saga)
              /\ audit' = audit
        /\ UNCHANGED <<todo, row, outbox, paused, services, result, bus, faults>>

HandlePaymentFailed(t) ==
    LET saga == row[pay[t]]
    IN  /\ pc[t] = "failed"
        /\ \/ /\ saga.state = "FAILED"
              /\ RecordResult(t, "failed", "duplicate")
           \/ /\ saga.state = "COMPLETED"
              /\ RecordResult(t, "failed", "invariant_violation")
           \/ /\ saga.state = "FRAUD_REVIEW"
              /\ DeferResult(t, "failed")
           \/ /\ saga.state \notin Terminal \cup {"FRAUD_REVIEW"}
              /\ Goto(t, "update", [saga EXCEPT !.state = "COMPENSATING_LEDGER",
                                                !.failure = "rail"])
              /\ audit' = audit
        /\ UNCHANGED <<todo, row, outbox, paused, services, result, bus, faults>>

\* The request needs both ids, and a canceled reservation is refused.
ConfirmTransfer(t) ==
    /\ pc[t] = "confirm"
    /\ LET accepted == /\ cur[t].debit = "set"
                       /\ cur[t].reservation = "set"
                       /\ ledger[pay[t]] \in {"RESERVED", "CONFIRMED"}
       IN  \/ /\ accepted
              /\ ledger' = [ledger EXCEPT ![pay[t]] = "CONFIRMED"]
              /\ Goto(t, "update", [cur[t] EXCEPT !.state = "LEDGER_CONFIRMED"])
           \/ /\ ~accepted
              /\ ledger' = ledger
              /\ ReturnError(t)
    /\ UNCHANGED <<todo, store, verification, debited, refunded, result, bus,
                   faults>>

PublishTxCompleted(t) ==
    /\ pc[t] = "publish_completed"
    /\ outbox' = outbox \cup {<<"tx.completed", pay[t]>>}
    /\ Goto(t, "update", [cur[t] EXCEPT !.state = "COMPLETED"])
    /\ UNCHANGED <<todo, row, paused, audit, services, result, bus, faults>>

\* Mutant: the failure is announced before the wallet's compensation.
CancelReservationAnnounces(t) ==
    /\ pc[t] = "cancel"
    /\ ledger[pay[t]] \in {"RESERVED", "CANCELED"}
    /\ ledger' = [ledger EXCEPT ![pay[t]] = "CANCELED"]
    /\ outbox' = outbox \cup {<<"tx.failed", pay[t]>>}
    /\ Goto(t, "update", [cur[t] EXCEPT !.state = "COMPENSATING_WALLET"])
    /\ UNCHANGED <<todo, row, paused, audit, verification, debited, refunded,
                   result, bus, faults>>

\* Mutant: the saga fails without the wallet's compensation.
CancelReservationOnly(t) ==
    /\ pc[t] = "cancel"
    /\ ledger' = [ledger EXCEPT ![pay[t]] = "CANCELED"]
    /\ Goto(t, "update", [cur[t] EXCEPT !.state = "FAILED"])
    /\ UNCHANGED <<todo, store, verification, debited, refunded, result, bus,
                   faults>>

\* The request needs the reservation id, and a confirmed one is refused.
CancelReservation(t) ==
    /\ pc[t] = "cancel"
    /\ LET accepted == /\ cur[t].reservation = "set"
                       /\ ledger[pay[t]] \in {"RESERVED", "CANCELED"}
       IN  \/ /\ accepted
              /\ ledger' = [ledger EXCEPT ![pay[t]] = "CANCELED"]
              /\ Goto(t, "update",
                      [cur[t] EXCEPT !.state = "COMPENSATING_WALLET"])
           \/ /\ ~accepted
              /\ ledger' = ledger
              /\ ReturnError(t)
    /\ UNCHANGED <<todo, store, verification, debited, refunded, result, bus,
                   faults>>

\* A payment that was never debited is refused.
CompensateDebit(t) ==
    /\ pc[t] = "compensate"
    /\ \/ /\ pay[t] \in debited
          /\ refunded' = refunded \cup {pay[t]}
          /\ Goto(t, "update", [cur[t] EXCEPT !.state = "FAILED"])
       \/ /\ pay[t] \notin debited
          /\ refunded' = refunded
          /\ ReturnError(t)
    /\ UNCHANGED <<todo, store, verification, debited, ledger, result, bus,
                   faults>>

PublishTxFailed(t) ==
    /\ pc[t] = "publish_failed"
    /\ outbox' = outbox \cup {<<"tx.failed", pay[t]>>}
    /\ ReturnOK(t)
    /\ UNCHANGED <<todo, row, paused, audit, services, result, bus, faults>>

-----------------------------------------------------------------------------
(* Fraud flags and the decisions on a review.                              *)

FraudFlaggedAuditKind(s) ==
    CASE s = "PAYMENT_PROCESSING"                       -> "transition"
      [] s \in {"FRAUD_REVIEW", "COMPLETED", "FAILED"}  -> "duplicate"
      [] OTHER                                          -> "ignored"

HandleFraudFlagged(t) ==
    LET saga == row[pay[t]]
    IN  /\ pc[t] = "flagged"
        /\ IF saga.state = "PAYMENT_PROCESSING"
           THEN Goto(t, "pause", [saga EXCEPT !.state = "FRAUD_REVIEW"])
           ELSE Goto(t, "flag", saga)
        /\ UNCHANGED <<todo, store, services, result, bus, faults>>

\* UpdateWithOutboxAndAudit: the row, tx.paused and the audit record.
PauseForReview(t) ==
    /\ pc[t] = "pause"
    /\ row' = [row EXCEPT ![pay[t]] = cur[t]]
    /\ paused' = [paused EXCEPT ![pay[t]] = @ + 1]
    /\ audit' = Recorded(pay[t], "flagged", "transition")
    /\ ReturnOK(t)
    /\ UNCHANGED <<todo, outbox, services, result, bus, faults>>

\* UpdateWithAudit of the fraud columns only: the rest of the copy goes back.
SaveFraudMetadata(t) ==
    /\ pc[t] = "flag"
    /\ row' = [row EXCEPT ![pay[t]] = cur[t]]
    /\ audit' = Recorded(pay[t], "flagged", FraudFlaggedAuditKind(cur[t].state))
    /\ ReturnOK(t)
    /\ UNCHANGED <<todo, outbox, paused, services, result, bus, faults>>

SaveDeferredResult(t) ==
    /\ pc[t] = "defer"
    /\ row' = [row EXCEPT ![pay[t]] = cur[t]]
    /\ audit' = Recorded(pay[t], cur[t].deferred, "deferred_terminal")
    /\ ReturnOK(t)
    /\ UNCHANGED <<todo, outbox, paused, services, result, bus, faults>>

\* An operator's request reaches a gRPC handler.
OperatorDecision(t, p, decision) ==
    /\ mode = "serving"
    /\ t \in Workers
    /\ pc[t] = "idle"
    /\ row[p].state = "FRAUD_REVIEW"      \* the review queue lists p
    /\ Begin(t, decision, p, NoSaga)
    /\ UNCHANGED <<topic, todo, store, services, result, bus, faults>>

\* GetByPaymentID and the ErrNotUnderReview guard, for either decision.
LoadReview(t) ==
    LET saga == row[pay[t]]
    IN  /\ pc[t] \in {"read_resume", "read_reject"}
        /\ \/ /\ saga.state = "FRAUD_REVIEW"
              /\ Goto(t, IF pc[t] = "read_resume" THEN "resume" ELSE "reject", saga)
           \/ /\ saga.state # "FRAUD_REVIEW"
              /\ ReturnError(t)
        /\ UNCHANGED <<todo, store, services, result, bus, faults>>

\* The write clears the deferred result, which is then replayed through its
\* handler.
ResumeFraudReview(t) ==
    /\ pc[t] = "resume"
    /\ row' = [row EXCEPT ![pay[t]] =
                  [cur[t] EXCEPT !.state = "PAYMENT_PROCESSING",
                                 !.deferred = "none"]]
    /\ audit' = Recorded(pay[t], "review", "review_resumed")
    /\ \/ /\ cur[t].deferred = "none"
          /\ ReturnOK(t)
       \/ /\ cur[t].deferred # "none"
          /\ Goto(t, cur[t].deferred, NoSaga)
    /\ UNCHANGED <<todo, outbox, paused, services, result, bus, faults>>

\* The deferred result stays on the row; compensation follows.
RejectFraudReview(t) ==
    LET rejected == [cur[t] EXCEPT !.state = "COMPENSATING_LEDGER",
                                   !.failure = "fraud_rejected"]
    IN  /\ pc[t] = "reject"
        /\ row' = [row EXCEPT ![pay[t]] = rejected]
        /\ audit' = Recorded(pay[t], "review", "review_rejected")
        /\ Goto(t, "cancel", rejected)
        /\ UNCHANGED <<todo, outbox, paused, services, result, bus, faults>>

-----------------------------------------------------------------------------
(* The reaper.  Which reviews are overdue is left open.                    *)

ExpireFraudReviews ==
    /\ mode = "serving"
    /\ ReviewTTL = "on"
    /\ pc["reaper"] = "idle"
    /\ todo["reaper"] = {}
    /\ \E overdue \in SUBSET {p \in Payments : row[p].state = "FRAUD_REVIEW"} :
          /\ overdue # {}
          /\ todo' = [todo EXCEPT !["reaper"] = overdue]
    /\ UNCHANGED <<control, store, services, result, bus, faults>>

ExpireNext ==
    /\ pc["reaper"] = "idle"
    /\ \E p \in todo["reaper"] :
          /\ todo' = [todo EXCEPT !["reaper"] = @ \ {p}]
          /\ Begin("reaper", "read_reject", p, NoSaga)
    /\ UNCHANGED <<topic, store, services, result, bus, faults>>

-----------------------------------------------------------------------------
(* The Kafka consumer.                                                     *)

\* Mutant: both result topics go to HandlePaymentCompleted.
HandlerMixesResults(k) ==
    CASE k \in {"payment.completed", "payment.failed"} -> "completed"
      [] k = "fraud.flagged"                           -> "flagged"

Handler(k) ==
    CASE k = "payment.completed" -> "completed"
      [] k = "payment.failed"    -> "failed"
      [] k = "fraud.flagged"     -> "flagged"

HandleRecord(k) ==
    /\ mode = "serving"
    /\ pc["consumer"] = "idle"
    /\ position[k] < Len(log[k])
    /\ Begin("consumer", Handler(k), log[k][position[k] + 1], NoSaga)
    /\ topic' = k
    /\ UNCHANGED <<todo, store, services, result, bus, faults>>

CommitRecord ==
    /\ pc["consumer"] = "commit"
    /\ committed' = [committed EXCEPT ![topic] = position[topic] + 1]
    /\ position' = [position EXCEPT ![topic] = @ + 1]
    /\ Release("consumer")
    /\ UNCHANGED <<mode, todo, store, services, result, log, faults>>

-----------------------------------------------------------------------------
(* Boot: ResumeNonTerminal runs to its end before anything is served.      *)

Restart ==
    /\ mode = "down"
    /\ mode' = "booting"
    /\ todo' = [todo EXCEPT !["boot"] =
                  {p \in Payments : row[p].state \notin Terminal \cup {"absent"}}]
    /\ UNCHANGED <<pc, pay, cur, topic, position, store, services, result, bus,
                   faults>>

\* Mutant: a saga that stopped before payment.execute is taken for processing.
ResumeCallSkipsReserved(s) ==
    IF s \in Terminal \cup {"LEDGER_RESERVED"} THEN "return" ELSE NextCall(s)

\* resumeOne's switch: terminal sagas and those that wait for an event are left.
ResumeCall(s) == IF s \in Terminal THEN "return" ELSE NextCall(s)

ResumeOne ==
    /\ mode = "booting"
    /\ pc["boot"] = "idle"
    /\ \E p \in todo["boot"] :
          /\ todo' = [todo EXCEPT !["boot"] = @ \ {p}]
          /\ \/ /\ ResumeCall(row[p].state) = "return"
                /\ UNCHANGED <<mode, pc, pay, cur, position>>
             \/ /\ ResumeCall(row[p].state) # "return"
                /\ Begin("boot", ResumeCall(row[p].state), p, row[p])
    /\ UNCHANGED <<topic, store, services, result, bus, faults>>

\* The consumer joins its group at the committed offsets.
Serve ==
    /\ mode = "booting"
    /\ pc["boot"] = "idle"
    /\ todo["boot"] = {}
    /\ mode' = "serving"
    /\ position' = committed
    /\ UNCHANGED <<pc, pay, cur, topic, todo, store, services, result, bus,
                   faults>>

-----------------------------------------------------------------------------
(* Faults.                                                                 *)

\* A store, outbox, gRPC or broker call of t fails for a passing reason.
TransientError(t) ==
    /\ pc[t] # "idle"
    /\ errors < MaxErrors
    /\ errors' = errors + 1
    /\ ReturnError(t)
    /\ UNCHANGED <<todo, store, services, result, bus, crashes>>

Crash ==
    /\ mode # "down"
    /\ crashes < MaxCrashes
    /\ crashes' = crashes + 1
    /\ mode' = "down"
    /\ pc' = [t \in Threads |-> "idle"]
    /\ pay' = [t \in Threads |-> NoPayment]
    /\ cur' = [t \in Threads |-> NoSaga]
    /\ topic' = "none"
    /\ todo' = [t \in {"boot", "reaper"} |-> {}]
    /\ UNCHANGED <<position, store, services, result, bus, errors>>

-----------------------------------------------------------------------------
(* The parts of the system the orchestrator talks to only through events.  *)

VerifyUser(p) ==
    /\ verification[p] = "pending"
    /\ verification' = [verification EXCEPT ![p] = "verified"]
    /\ UNCHANGED <<control, todo, store, debited, refunded, ledger, result,
                   bus, faults>>

\* The payment processor settles a payment once and may publish its result
\* more than once; the event id is the same every time.
PublishResult(p, r) ==
    LET k == IF r = "completed" THEN "payment.completed" ELSE "payment.failed"
    IN  /\ <<"payment.execute", p>> \in outbox
        /\ result[p] \in {"none", r}
        /\ Len(log[k]) < MaxResults
        /\ result' = [result EXCEPT ![p] = r]
        /\ log' = [log EXCEPT ![k] = Append(@, p)]
        /\ UNCHANGED <<control, todo, store, services, committed, faults>>

\* The fraud worker publishes its verdict at least once.
PublishFraudFlagged(p) ==
    /\ <<"fraud.score.requested", p>> \in outbox
    /\ Len(log["fraud.flagged"]) < MaxFlags
    /\ log' = [log EXCEPT !["fraud.flagged"] = Append(@, p)]
    /\ UNCHANGED <<control, todo, store, services, result, committed, faults>>

-----------------------------------------------------------------------------

\* The next call of a thread that is inside a handler.
Step(t) ==
    \/ CheckVerification(t)
    \/ FailUnverified(t)
    \/ Update(t)
    \/ DebitForSaga(t)
    \/ ReserveTransfer(t)
    \/ ExecutePayment(t)
    \/ HandlePaymentCompleted(t)
    \/ HandlePaymentFailed(t)
    \/ ConfirmTransfer(t)
    \/ PublishTxCompleted(t)
    \/ CancelReservation(t)
    \/ CompensateDebit(t)
    \/ PublishTxFailed(t)
    \/ HandleFraudFlagged(t)
    \/ PauseForReview(t)
    \/ SaveFraudMetadata(t)
    \/ SaveDeferredResult(t)
    \/ LoadReview(t)
    \/ ResumeFraudReview(t)
    \/ RejectFraudReview(t)

Consume == CommitRecord \/ \E k \in Topics : HandleRecord(k)

Reap == ExpireFraudReviews \/ ExpireNext

Boot == Restart \/ ResumeOne \/ Serve

Request ==
    \E t \in Workers, p \in Payments :
       \/ StartPaymentSaga(t, p)
       \/ \E d \in Decisions : OperatorDecision(t, p, d)

Environment ==
    \E p \in Payments :
       \/ VerifyUser(p)
       \/ \E r \in Results : PublishResult(p, r)
       \/ PublishFraudFlagged(p)

Next ==
    \/ \E t \in Threads : Step(t) \/ TransientError(t)
    \/ Consume
    \/ Reap
    \/ Boot
    \/ Crash
    \/ Request
    \/ Environment

Spec == Init /\ [][Next]_vars

\* Goroutines are scheduled, the consumer polls, the reaper ticks, Kubernetes
\* restarts the process, and the rail answers every command.
Fairness ==
    /\ \A t \in Threads : WF_vars(Step(t))
    /\ WF_vars(Consume)
    /\ WF_vars(Reap)
    /\ WF_vars(Boot)
    /\ \A p \in Payments :
          WF_vars(result[p] = "none" /\ \E r \in Results : PublishResult(p, r))

FairSpec == Spec /\ Fairness

-----------------------------------------------------------------------------
(* Properties.                                                             *)

\* Every variable has its type.
TypeOK ==
    /\ mode \in {"down", "booting", "serving"}
    /\ pc \in [Threads -> Labels]
    /\ pay \in [Threads -> Payments \cup {NoPayment}]
    /\ cur \in [Threads -> Saga]
    /\ topic \in Topics \cup {"none"}
    /\ position \in [Topics -> Nat]
    /\ todo \in [{"boot", "reaper"} -> SUBSET Payments]
    /\ committed \in [Topics -> Nat]
    /\ log \in [Topics -> Seq(Payments)]
    /\ row \in [Payments -> Saga]
    /\ outbox \subseteq {"payment.execute", "fraud.score.requested",
                         "tx.completed", "tx.failed"} \X Payments
    /\ paused \in [Payments -> Nat]
    /\ audit \subseteq Payments \X AuditEvents \X AuditKinds
    /\ verification \in [Payments -> {"pending", "verified"}]
    /\ debited \subseteq Payments
    /\ refunded \subseteq Payments
    /\ ledger \in [Payments -> {"none", "RESERVED", "CONFIRMED", "CANCELED"}]
    /\ result \in [Payments -> Results \cup {"none"}]
    /\ crashes \in Nat
    /\ errors \in Nat

\* A compensation is only booked for a payment that was debited and whose
\* ledger reservation has been canceled for good, whatever stale copies of the
\* row the threads write back (HandlePaymentFailed, resumeCompensation).
RefundOnlyAfterCancel ==
    \A p \in refunded : p \in debited /\ ledger[p] = "CANCELED"

\* The ledger confirms a transfer only for a debited payment that the rail
\* charged (HandlePaymentCompleted, also when replayed by ResumeFraudReview).
ConfirmOnlyIfCharged ==
    \A p \in Payments :
       ledger[p] = "CONFIRMED" => p \in debited /\ result[p] = "completed"

\* payment.execute never leaves for a payment that is not debited and reserved,
\* also when advance is run twice for one saga.
ExecuteOnlyIfReserved ==
    \A p \in Payments :
       <<"payment.execute", p>> \in outbox => p \in debited /\ ledger[p] # "none"

\* A stored terminal state is true of the other services: COMPLETED means the
\* transfer is confirmed and tx.completed enqueued, FAILED after a debit means
\* the payer was refunded (the exception is failUnverified).
TerminalRowIsTrue ==
    \A p \in Payments :
       /\ row[p].state = "COMPLETED" =>
            ledger[p] = "CONFIRMED" /\ <<"tx.completed", p>> \in outbox
       /\ row[p].state = "FAILED" /\ row[p].failure # "unverified" =>
            p \in refunded

\* Result r of payment p had its effect or is written down in the audit trail.
Kept(p, r) ==
    \/ <<IF r = "completed" THEN "tx.completed" ELSE "tx.failed", p>> \in outbox
    \/ \E k \in AuditKinds : <<p, r, k>> \in audit

\* The consumer commits a payment result only once it is kept, on every path
\* through HandlePaymentCompleted, HandlePaymentFailed and the deferral.
CommitOnlyIfKept ==
    pc["consumer"] = "commit" =>
       /\ topic = "payment.completed" => Kept(pay["consumer"], "completed")
       /\ topic = "payment.failed" => Kept(pay["consumer"], "failed")

\* Where the money of payment p is, read off the wallet and the ledger.
MoneyOf(p) ==
    CASE p \notin debited         -> "payer"
      [] ledger[p] = "CONFIRMED"  -> "recipient"
      [] p \in refunded           -> "returned"
      [] OTHER                    -> "held"

Outcome == INSTANCE PaymentOutcome WITH
    money     <- [p \in Payments |-> MoneyOf(p)],
    announced <- outbox \cap ({"tx.completed", "tx.failed"} \X Payments)

\* The orchestrator and the services together keep the promise of
\* PaymentOutcome: no step takes, settles or returns money twice, or announces
\* an end that was not reached.
KeepsOutcome == Outcome!Spec

-----------------------------------------------------------------------------
(* Why the safety properties hold although rows are overwritten by stale   *)
(* copies: whatever a copy claims about the other services stays true once *)
(* it is true, because debits, refunds, outbox rows and the decision of    *)
(* the ledger are never taken back.                                        *)

Facts == [debited |-> debited, refunded |-> refunded, ledger |-> ledger,
          outbox |-> outbox, result |-> result]

\* What a copy s of the row of payment p, stored or held, claims; f bears it
\* out.
Justified(p, s, f) ==
    /\ s.debit = "set" \/ s.state = "WALLET_DEBITED" => p \in f.debited
    /\ s.reservation = "set" => f.ledger[p] # "none"
    /\ s.state = "LEDGER_RESERVED" => p \in f.debited /\ f.ledger[p] # "none"
    /\ s.state \in {"LEDGER_CONFIRMED", "COMPLETED"} => f.ledger[p] = "CONFIRMED"
    /\ s.state = "COMPLETED" => <<"tx.completed", p>> \in f.outbox
    /\ s.state = "COMPENSATING_WALLET" => f.ledger[p] = "CANCELED"
    /\ s.state = "FAILED" /\ s.failure # "unverified" => p \in f.refunded
    /\ s.deferred # "none" => s.deferred = f.result[p]

\* What being at label l with payment p and copy s adds.
LabelJustified(l, p, s, f) ==
    /\ l = "reserve" => s.state = "WALLET_DEBITED"
    /\ l = "execute" => s.state = "LEDGER_RESERVED"
    /\ l = "publish_completed" => s.state = "LEDGER_CONFIRMED"
    /\ l = "compensate" => s.state = "COMPENSATING_WALLET"
    /\ l = "update" /\ s.state = "FAILED" => p \in f.refunded
    /\ l = "publish_failed" => p \in f.refunded
    /\ l \in {"completed", "confirm"} => f.result[p] = "completed"
    /\ l = "failed" => f.result[p] = "failed"
    /\ l = "defer" => s.deferred # "none"

ThreadJustified(t) ==
    pc[t] # "idle" => /\ pay[t] \in Payments
                      /\ Justified(pay[t], cur[t], Facts)
                      /\ LabelJustified(pc[t], pay[t], cur[t], Facts)

ConsumerHasRecord == pc["consumer"] # "idle" => topic \in Topics

ResultsLogged ==
    /\ \A i \in 1..Len(log["payment.completed"]) :
          result[log["payment.completed"][i]] = "completed"
    /\ \A i \in 1..Len(log["payment.failed"]) :
          result[log["payment.failed"][i]] = "failed"

AnnouncedIsTrue ==
    \A p \in Payments :
       /\ <<"tx.completed", p>> \in outbox => ledger[p] = "CONFIRMED"
       /\ <<"tx.failed", p>> \in outbox => p \in refunded

\* What holds among the facts themselves.
FactsInv ==
    /\ ResultsLogged
    /\ AnnouncedIsTrue
    /\ RefundOnlyAfterCancel
    /\ ConfirmOnlyIfCharged
    /\ ExecuteOnlyIfReserved

\* The inductive invariant behind the safety properties: every copy of a row,
\* stored or in the hands of a thread, claims only what the wallet, the ledger
\* and the outbox bear out.
SagaInv ==
    /\ TypeOK
    /\ \A p \in Payments : Justified(p, row[p], Facts)
    /\ \A t \in Threads : ThreadJustified(t)
    /\ ConsumerHasRecord
    /\ FactsInv

\* What the consumer can be doing with a record of topic k: label l and copy s,
\* with the results in kept already kept.
FlowAt(k, l, s, kept) ==
    /\ k = "none" => l = "idle"
    /\ k = "fraud.flagged" => l \in {"flagged", "pause", "flag", "commit"}
    /\ k = "payment.completed" =>
         \/ l \in {"completed", "confirm", "publish_completed"}
         \/ l = "update" /\ s.state \in {"LEDGER_CONFIRMED", "COMPLETED"}
         \/ l = "defer" /\ s.deferred = "completed"
         \/ l = "commit" /\ "completed" \in kept
    /\ k = "payment.failed" =>
         \/ l \in {"failed", "cancel", "compensate", "publish_failed"}
         \/ l = "update" /\ s.state \in {"COMPENSATING_LEDGER",
                                         "COMPENSATING_WALLET", "FAILED"}
         \/ l = "defer" /\ s.deferred = "failed"
         \/ l = "commit" /\ "failed" \in kept

\* The consumer follows the handler of its record's topic and comes to commit a
\* payment result only when it is kept.
ConsumerFlow ==
    FlowAt(topic, pc["consumer"], cur["consumer"],
           {r \in Results : Kept(pay["consumer"], r)})

-----------------------------------------------------------------------------
(* Liveness, under FairSpec.                                               *)

\* Every saga reaches COMPLETED or FAILED: through advance, the result of the
\* rail, the deferral and expiry of a review, and ResumeNonTerminal.
SagaEnds ==
    \A p \in Payments : row[p].state # "absent" ~> row[p].state \in Terminal

\* After a crash the process comes back: ResumeNonTerminal gets through the
\* unfinished sagas and the consumer and the gRPC server start.
ServesAgain == mode = "down" ~> mode = "serving"

-----------------------------------------------------------------------------
(* What the documents say of the orchestrator.                             *)

\* "Terminal sagas never reopen."  Violated: a thread that read the row before
\* it became terminal writes its copy back.
TerminalNeverReopens ==
    [][\A p \in Payments :
         row[p].state \in Terminal => row'[p].state \in Terminal]_vars

\* "Duplicate fraud events emit at most one tx.paused."  Violated: a duplicate
\* handled after ResumeFraudReview finds PAYMENT_PROCESSING again.
PausedAtMostOnce == \A p \in Payments : paused[p] <= 1

\* "Payment failure ... publishes tx.failed."  Violated by a crash between the
\* write of FAILED and publishTxFailed, which nothing resumes.
RailFailureIsAnnounced ==
    \A p \in Payments :
       row[p].state = "FAILED" /\ row[p].failure = "rail"
          ~> <<"tx.failed", p>> \in outbox

\* "Payment results arriving during review are durable": a stored result only
\* leaves the row when the step hands it to its handler.  Violated: the write
\* of ResumeFraudReview clears a result deferred after it read the row.
DeferredResultIsReplayed ==
    [][\A p \in Payments :
         row[p].deferred # "none" /\ row'[p].deferred = "none" =>
            \E t \in Threads : pay[t] = p /\ pc'[t] = row[p].deferred]_vars

\* "Wallet balance is restored": a payment that stays FAILED gets its debit
\* back.  Violated: of two concurrent starts one debits the wallet while the
\* other, which saw the payer unverified, writes FAILED.
FailedIsRefunded ==
    \A p \in Payments :
       row[p].state = "FAILED" /\ p \in debited
          ~> p \in refunded \/ row[p].state # "FAILED"

\* "Duplicate start requests return the existing saga": they do not drive a
\* payment in processing through advance again.  Violated by two starts that
\* both find STARTED.
DuplicateStartReturnsExisting ==
    [][\A p \in Payments :
         row[p].state = "PAYMENT_PROCESSING" =>
            row'[p].state \notin {"VERIFICATION_CHECKED", "WALLET_DEBITED",
                                  "LEDGER_RESERVED"}]_vars

=============================================================================
