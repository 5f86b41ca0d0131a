-------------------------- MODULE PaymentProcessor --------------------------
(***************************************************************************)
(* The payment processor (internal/paymentprocessor): a Kafka consumer     *)
(* group that charges payments on an external rail, keeps one row per      *)
(* payment in payment_attempts and answers through the outbox.  A process  *)
(* goes on with the records it has fetched after its partition was given   *)
(* to another one, and any store call may fail, done or not.               *)
(***************************************************************************)
EXTENDS Integers, Sequences

CONSTANTS
    Payments,
    Procs,         \* processes of the consumer group
    Commands,      \* the payment.execute records of one partition
    MaxAttempts,   \* len(backoffs) + 1
    MaxCrashes,    \* bound: crashes and shutdowns
    MaxErrors,     \* bound: store calls that return an error
    MaxMoves       \* bound: rebalances that take the partition from a live process

ASSUME ProcessorAssumption ==
    /\ Commands \in Seq(Payments \cup {"invalid"})
    /\ "invalid" \notin Payments /\ "nobody" \notin Procs
    /\ MaxAttempts \in Nat \ {0}
    /\ {MaxCrashes, MaxErrors, MaxMoves} \subseteq Nat

VARIABLES
    attempt,     \* payment_attempts: status and attempt_count by payment
    charged,     \* payments the rail has charged
    calls,       \* calls to the rail, by payment
    published,   \* result events in the outbox, as <<topic, payment>>
    pc,          \* where each process is in HandleRecord
    rec,         \* index of the record in hand, or handled last
    last,        \* index of the last fetched record
    fetch,       \* where the client of each process fetches next
    try,         \* nextAttempt of processPending
    topic,       \* the result event to publish
    assigned,    \* the process the partition is assigned to, or "nobody"
    committed,   \* the group's offset: records up to it are done
    crashes, errors, moves   \* how much of each bound is used up

store == <<attempt, charged, calls, published>>
local == <<rec, last, fetch, try, topic>>
group == <<assigned, committed>>
used == <<crashes, errors, moves>>
vars == <<store, pc, local, group, used>>

Statuses == {"none", "PENDING", "COMPLETED", "FAILED"}
Topics == {"payment.completed", "payment.failed"}
Rows == [status : Statuses, count : 0..MaxAttempts]

Handling == {"create", "start", "charge", "mark_completed", "mark_failed",
             "publish", "commit"}
Labels == Handling \cup {"poll", "down"}

Init ==
    /\ attempt = [p \in Payments |-> [status |-> "none", count |-> 0]]
    /\ charged = {}
    /\ calls = [p \in Payments |-> 0]
    /\ published = {}
    /\ pc = [c \in Procs |-> "poll"]
    /\ rec = [c \in Procs |-> 0]
    /\ last = [c \in Procs |-> 0]
    /\ fetch = [c \in Procs |-> 0]
    /\ try = [c \in Procs |-> 0]
    /\ topic = [c \in Procs |-> "payment.failed"]
    /\ assigned = "nobody"
    /\ committed = 0
    /\ crashes = 0 /\ errors = 0 /\ moves = 0

-----------------------------------------------------------------------------

Payment(c) == Commands[rec[c]]

Goto(c, l) == pc' = [pc EXCEPT ![c] = l]

\* HandleRecord returns an error: Run logs it and goes on with the next record.
Skip(c) ==
    /\ errors < MaxErrors
    /\ errors' = errors + 1
    /\ Goto(c, "poll")
    /\ UNCHANGED <<crashes, moves>>

\* A call that took effect returns, or its answer is lost and it looks failed.
Returns(c, l) ==
    \/ Goto(c, l) /\ UNCHANGED used
    \/ Skip(c)

\* A call that had no effect.
CallFails(c) ==
    /\ pc[c] \in Handling \ {"charge"}
    /\ Skip(c)
    /\ UNCHANGED <<store, local, group>>

\* PollFetches: the client returns records from where it fetches.
PollFetches(c) ==
    /\ pc[c] = "poll" /\ rec[c] = last[c]
    /\ assigned = c
    /\ \E l \in (fetch[c] + 1)..Len(Commands) :
          /\ last' = [last EXCEPT ![c] = l]
          /\ fetch' = [fetch EXCEPT ![c] = l]
    /\ rec' = [rec EXCEPT ![c] = fetch[c]]
    /\ UNCHANGED <<store, pc, try, topic, group, used>>

\* validateCommand.
Valid(command) == command \in Payments

\* HandleRecord: an invalid command is only committed.
HandleRecord(c) ==
    /\ pc[c] = "poll" /\ rec[c] < last[c]
    /\ rec' = [rec EXCEPT ![c] = @ + 1]
    /\ Goto(c, IF Valid(Commands[rec[c] + 1]) THEN "create" ELSE "commit")
    /\ UNCHANGED <<store, last, fetch, try, topic, group, used>>

\* Mutant: attempts made before a restart do not count.
FirstAttemptAnew(count) == 1

\* The first attempt number of processPending: at the limit there is one more.
FirstAttempt(count) == IF count + 1 > MaxAttempts THEN MaxAttempts ELSE count + 1

\* The row after INSERT .. ON CONFLICT DO NOTHING.
Pending(row) ==
    IF row.status = "none" THEN [status |-> "PENDING", count |-> 0] ELSE row

\* Mutant: a duplicate of a settled payment is only acknowledged.
CreatePendingAcks(c) ==
    /\ pc[c] = "create"
    /\ LET p == Payment(c)
           row == Pending(attempt[p]) IN
          /\ attempt' = [attempt EXCEPT ![p] = row]
          /\ try' = [try EXCEPT ![c] = FirstAttempt(row.count)]
          /\ Returns(c, IF row.status = "PENDING" THEN "start" ELSE "commit")
    /\ UNCHANGED <<charged, calls, published, rec, last, fetch, topic, group>>

\* Mutant: every settled payment is reported as failed.
CreatePendingFails(c) ==
    /\ pc[c] = "create"
    /\ LET p == Payment(c)
           row == Pending(attempt[p]) IN
          /\ attempt' = [attempt EXCEPT ![p] = row]
          /\ try' = [try EXCEPT ![c] = FirstAttempt(row.count)]
          /\ topic' = [topic EXCEPT ![c] = "payment.failed"]
          /\ Returns(c, IF row.status = "PENDING" THEN "start" ELSE "publish")
    /\ UNCHANGED <<charged, calls, published, rec, last, fetch, group>>

\* Mutant: a payment that is found PENDING is left to the process that began it.
CreatePendingWaits(c) ==
    /\ pc[c] = "create"
    /\ LET p == Payment(c) IN
          /\ attempt[p].status # "PENDING"
          /\ attempt' = [attempt EXCEPT ![p] = Pending(@)]
          /\ topic' = [topic EXCEPT ![c] = IF attempt[p].status = "COMPLETED"
                                          THEN "payment.completed"
                                          ELSE "payment.failed"]
          /\ Returns(c, IF attempt[p].status = "none" THEN "start" ELSE "publish")
    /\ try' = [try EXCEPT ![c] = 1]
    /\ UNCHANGED <<charged, calls, published, rec, last, fetch, group>>

\* HandleExecute: the row is created or read; a settled one is published again.
CreatePending(c) ==
    /\ pc[c] = "create"
    /\ LET p == Payment(c)
           row == Pending(attempt[p]) IN
          /\ attempt' = [attempt EXCEPT ![p] = row]
          /\ try' = [try EXCEPT ![c] = FirstAttempt(row.count)]
          /\ topic' = [topic EXCEPT ![c] = IF row.status = "COMPLETED"
                                          THEN "payment.completed"
                                          ELSE "payment.failed"]
          /\ Returns(c, IF row.status = "PENDING" THEN "start" ELSE "publish")
    /\ UNCHANGED <<charged, calls, published, rec, last, fetch, group>>

MarkAttemptStarted(c) ==
    /\ pc[c] = "start"
    /\ attempt' = [attempt EXCEPT ![Payment(c)].count = try[c]]
    /\ Returns(c, "charge")
    /\ UNCHANGED <<charged, calls, published, local, group>>

\* What the rail has done when Charge fails: a timeout, a lost answer or an
\* unreadable success body may hide a charge.
MayCharge(p) == charged' \in {charged, charged \cup {p}}

\* Mutant: a timeout of the last attempt counts as a success.
ChargeHopes(c) ==
    /\ pc[c] = "charge"
    /\ calls' = [calls EXCEPT ![Payment(c)] = @ + 1]
    /\ MayCharge(Payment(c))
    /\ Goto(c, "mark_completed")
    /\ UNCHANGED <<attempt, published, local, group, used>>

\* Charge and the classification of its failure: success; a terminal failure or
\* the last retryable one; a retryable one, after which the process sleeps.
Charge(c) ==
    /\ pc[c] = "charge"
    /\ calls' = [calls EXCEPT ![Payment(c)] = @ + 1]
    /\ \/ /\ charged' = charged \cup {Payment(c)}
          /\ Goto(c, "mark_completed")
          /\ UNCHANGED try
       \/ /\ MayCharge(Payment(c))
          /\ Goto(c, "mark_failed")
          /\ UNCHANGED try
       \/ /\ MayCharge(Payment(c))
          /\ try[c] < MaxAttempts
          /\ try' = [try EXCEPT ![c] = @ + 1]
          /\ Goto(c, "start")
    /\ UNCHANGED <<attempt, published, rec, last, fetch, topic, group, used>>

\* The UPDATE of MarkCompleted and MarkFailed has no condition on the status.
Mark(c, status, t) ==
    /\ attempt' = [attempt EXCEPT ![Payment(c)].status = status]
    /\ topic' = [topic EXCEPT ![c] = t]
    /\ Returns(c, "publish")
    /\ UNCHANGED <<charged, calls, published, rec, last, fetch, try, group>>

MarkCompleted(c) ==
    pc[c] = "mark_completed" /\ Mark(c, "COMPLETED", "payment.completed")

MarkFailed(c) ==
    pc[c] = "mark_failed" /\ Mark(c, "FAILED", "payment.failed")

\* publishCompleted and publishFailed.
Publish(c) ==
    /\ pc[c] = "publish"
    /\ published' = published \cup {<<topic[c], Payment(c)>>}
    /\ Returns(c, "commit")
    /\ UNCHANGED <<attempt, charged, calls, local, group>>

\* CommitRecord: the broker refuses it from a process without the partition.
CommitRecord(c) ==
    /\ pc[c] = "commit"
    /\ committed' = IF assigned = c THEN rec[c] ELSE committed
    /\ Goto(c, "poll")
    /\ UNCHANGED <<store, local, assigned, used>>

-----------------------------------------------------------------------------

\* The broker gives the partition to a process, which fetches from the offset.
Assign(c) ==
    /\ pc[c] # "down" /\ assigned # c
    /\ \/ assigned = "nobody" /\ UNCHANGED moves
       \/ moves < MaxMoves /\ moves' = moves + 1
    /\ assigned' = c
    /\ fetch' = [fetch EXCEPT ![c] = committed]
    /\ UNCHANGED <<store, pc, rec, last, try, topic, committed, crashes,
                   errors>>

\* A crash, or a shutdown, whose cancelled context fails every later call.
Crash(c) ==
    /\ pc[c] # "down"
    /\ crashes < MaxCrashes
    /\ crashes' = crashes + 1
    /\ Goto(c, "down")
    /\ rec' = [rec EXCEPT ![c] = 0]
    /\ last' = [last EXCEPT ![c] = 0]
    /\ assigned' = IF assigned = c THEN "nobody" ELSE assigned
    /\ UNCHANGED <<store, fetch, try, topic, committed, errors, moves>>

Start(c) ==
    /\ pc[c] = "down"
    /\ Goto(c, "poll")
    /\ UNCHANGED <<store, local, group, used>>

Handle(c) ==
    \/ PollFetches(c) \/ HandleRecord(c) \/ CreatePending(c)
    \/ MarkAttemptStarted(c) \/ Charge(c) \/ MarkCompleted(c) \/ MarkFailed(c)
    \/ Publish(c) \/ CommitRecord(c)

Next == \E c \in Procs :
    Handle(c) \/ CallFails(c) \/ Assign(c) \/ Crash(c) \/ Start(c)

Spec == Init /\ [][Next]_vars

\* A process runs, a crashed one is restarted, a free partition is assigned.
FairSpec ==
    /\ Spec
    /\ \A c \in Procs : WF_vars(Handle(c)) /\ WF_vars(Start(c))
    /\ WF_vars(\E c \in Procs : assigned = "nobody" /\ Assign(c))

-----------------------------------------------------------------------------
(* Properties.                                                             *)

\* Every variable has its type.
TypeOK ==
    /\ attempt \in [Payments -> Rows]
    /\ charged \subseteq Payments
    /\ calls \in [Payments -> Nat]
    /\ published \subseteq Topics \X Payments
    /\ pc \in [Procs -> Labels]
    /\ rec \in [Procs -> 0..Len(Commands)]
    /\ last \in [Procs -> 0..Len(Commands)]
    /\ fetch \in [Procs -> 0..Len(Commands)]
    /\ try \in [Procs -> 0..MaxAttempts]
    /\ topic \in [Procs -> Topics]
    /\ assigned \in Procs \cup {"nobody"}
    /\ committed \in 0..Len(Commands)
    /\ crashes \in Nat /\ errors \in Nat /\ moves \in Nat

Answered(p) == \E t \in Topics : <<t, p>> \in published

\* payment.completed is published only for a payment the rail has charged,
\* however processes overlap on it, restart or lose the answers of the store.
CompletedIsCharged ==
    \A p \in Payments : <<"payment.completed", p>> \in published => p \in charged

\* "Commit Kafka offsets only after local state and result event handling are
\* safe" (05-payment-processor.md): the offset passes a command only when its
\* result is in the outbox.
OffsetBehindResults ==
    \A i \in 1..committed :
       Commands[i] \in Payments => Answered(Commands[i])

\* That holds as long as no store call fails: a crash anywhere in HandleRecord,
\* or a rebalance, leaves the command to be handled again.
CommitOnlyIfPublished == errors = 0 => OffsetBehindResults

\* While one process at a time handles a payment, redeliveries and duplicates
\* repeat the first result: never both events for one payment, whatever crashes
\* and whichever store call fails.
ResultIsStable ==
    moves = 0 => \A p \in Payments :
       ~({<<"payment.completed", p>>, <<"payment.failed", p>>} \subseteq published)

\* The rail is called at most MaxAttempts times, and once more for every
\* handling that was cut short: attempt_count survives restarts.
CallsBounded ==
    moves = 0 => \A p \in Payments : calls[p] <= MaxAttempts + crashes + errors

\* Status model "PENDING -> COMPLETED, PENDING -> FAILED": a settled payment
\* keeps its status.
StatusIsFinal ==
    [][\A p \in Payments :
          attempt[p].status \in {"COMPLETED", "FAILED"} =>
             attempt'[p].status = attempt[p].status]_vars

\* Every command gets its result, whoever crashes and however the partition
\* moves, unless a store call failed and its record was skipped.
EveryCommandAnswered ==
    \A i \in 1..Len(Commands) :
       Commands[i] \in Payments => <>(Answered(Commands[i]) \/ errors > 0)

-----------------------------------------------------------------------------
(* The inductive invariant.                                                *)

\* A command is in hand from create to publish, and is a valid one.
HandInv ==
    \A c \in Procs :
       /\ rec[c] <= last[c]
       /\ pc[c] \in Handling => rec[c] > 0
       /\ pc[c] \in Handling \ {"commit"} => Payment(c) \in Payments
       /\ pc[c] \in {"start", "charge"} => try[c] > 0

\* Wherever a success is recorded, or about to be, the rail has charged.
ChargeInv ==
    /\ CompletedIsCharged
    /\ \A p \in Payments : attempt[p].status = "COMPLETED" => p \in charged
    /\ \A c \in Procs :
          \/ pc[c] = "mark_completed"
          \/ pc[c] = "publish" /\ topic[c] = "payment.completed"
          => Payment(c) \in charged

Done(i) == Commands[i] \in Payments => Answered(Commands[i])

\* Without failing calls: what a process has behind it is done, and so is what
\* lies before the records the assigned process will fetch, but for those it has.
OffsetInv ==
    /\ errors = 0
    /\ \A i \in 1..committed : Done(i)
    /\ \A c \in Procs, i \in 1..Len(Commands) :
          /\ i < rec[c] => Done(i)
          /\ i = rec[c] /\ pc[c] \in {"poll", "commit", "down"} => Done(i)
          /\ assigned = c /\ i <= fetch[c] => Done(i) \/ i \in rec[c]..last[c]

\* Without a rebalance away from a live process: what is in hand, or fetched, is
\* the assigned process's.
SoleInv ==
    \A c \in Procs : pc[c] \in Handling \/ rec[c] < last[c] => assigned = c

StatusOf(c) == attempt[Payment(c)].status

\* The labels between the creation of the row and its settlement.
Pursuing == {"start", "charge", "mark_completed", "mark_failed"}

\* Then a published event says what the row says, a process that is after a
\* result has a PENDING row, and one that publishes has the row's event.
RowInv ==
    /\ \A p \in Payments :
          /\ <<"payment.completed", p>> \in published => attempt[p].status = "COMPLETED"
          /\ <<"payment.failed", p>> \in published => attempt[p].status = "FAILED"
    /\ \A c \in Procs :
          /\ pc[c] \in Pursuing => StatusOf(c) = "PENDING"
          /\ pc[c] = "publish" =>
                \/ topic[c] = "payment.completed" /\ StatusOf(c) = "COMPLETED"
                \/ topic[c] = "payment.failed" /\ StatusOf(c) = "FAILED"

\* The calls that the handlings cut short do not account for.
Spent(p) == calls[p] - (crashes + errors)

Idle(p) == \A c \in Procs : pc[c] \in Pursuing => Payment(c) # p

\* Then attempt_count accounts for the calls: a PENDING row that nobody is at was
\* left by a handling that was cut short.
CountInv ==
    /\ \A p \in Payments :
          LET row == attempt[p] IN
          /\ row.status = "none" => row.count = 0 /\ calls[p] = 0
          /\ row.status = "PENDING" /\ Idle(p) => Spent(p) < row.count
          /\ row.status \in {"COMPLETED", "FAILED"} => Spent(p) <= MaxAttempts
    /\ \A c \in Procs, p \in Payments :
          LET n == attempt[p].count IN
          pc[c] \in Pursuing /\ p = Payment(c) =>
             /\ pc[c] = "start" => Spent(p) < try[c] /\ try[c] <= n + 1
             /\ pc[c] = "charge" => Spent(p) < try[c] /\ n = try[c]
             /\ pc[c] \in {"mark_completed", "mark_failed"} =>
                   Spent(p) <= try[c] /\ n = try[c]

\* What holds whatever fails.
BaseInv == TypeOK /\ HandInv /\ ChargeInv

SingleInv == BaseInv /\ (moves = 0 => SoleInv /\ RowInv /\ CountInv)

ProcessorInv == BaseInv /\ (errors = 0 => OffsetInv)

=============================================================================
