------------------------------- MODULE Outbox -------------------------------
(***************************************************************************)
(* The transactional outbox (internal/outbox): services insert rows into   *)
(* outbox_events in their own transactions, and every service process runs *)
(* a publisher over the one table.  A claim locks rows only while its      *)
(* statement runs, so publishers meet on rows, and each call may fail with *)
(* or without having taken effect.                                         *)
(***************************************************************************)
EXTENDS Integers, Sequences, FiniteSets

CONSTANTS
    Events,        \* rows by creation order: 1..n
    Backlog,       \* the rows that are committed and unpublished at first
    Publishers,
    BatchSize,
    MaxFaults      \* bound: failing calls and crashes

ASSUME OutboxAssumption ==
    /\ Events = 1..Cardinality(Events)
    /\ Backlog \subseteq Events
    /\ BatchSize \in Nat \ {0}
    /\ MaxFaults \in Nat

VARIABLES
    row,        \* "absent", "unpublished" or "published", by event
    log,        \* the records in Kafka, of one partition
    stage,      \* where each publisher is: "claim", "produce", "mark", "down"
    batch,      \* the claimed rows it has still to publish
    current,    \* the row it publishes
    faults

outboxVars == <<row, log, stage, batch, current, faults>>

OutboxInit ==
    /\ row = [e \in Events |-> IF e \in Backlog THEN "unpublished" ELSE "absent"]
    /\ log = <<>>
    /\ stage = [p \in Publishers |-> "claim"]
    /\ batch = [p \in Publishers |-> {}]
    /\ current = [p \in Publishers |-> 0]
    /\ faults = 0

-----------------------------------------------------------------------------

\* Enqueue, when its transaction commits: not always in creation order.
Enqueue(e) ==
    /\ row[e] = "absent"
    /\ row' = [row EXCEPT ![e] = "unpublished"]
    /\ UNCHANGED <<log, stage, batch, current, faults>>

\* The end of a batch, early after an error or because all of it is published.
EndBatch(p) ==
    /\ stage' = [stage EXCEPT ![p] = "claim"]
    /\ batch' = [batch EXCEPT ![p] = {}]

Fault(p) ==
    /\ faults < MaxFaults
    /\ faults' = faults + 1
    /\ EndBatch(p)

\* The oldest rows of a set, at most BatchSize of them.
Oldest(S) == {e \in S : Cardinality({f \in S : f <= e}) <= BatchSize}

\* Mutant: rows are read on from the newest published one.
UnpublishedAfterLast ==
    {e \in Events : row[e] = "unpublished" /\ \A f \in Events : row[f] = "published" => f < e}

Unpublished == {e \in Events : row[e] = "unpublished"}

\* ClaimUnpublished.  SKIP LOCKED passes over the rows of a claim that runs at
\* the same time; claimed_at is written and never read.
Claim(p) ==
    /\ stage[p] = "claim"
    /\ \E locked \in {{}} \cup {batch[q] : q \in Publishers \ {p}} :
          LET claimed == Oldest(Unpublished \ locked) IN
             /\ claimed # {}
             /\ batch' = [batch EXCEPT ![p] = claimed]
    /\ stage' = [stage EXCEPT ![p] = "produce"]
    /\ UNCHANGED <<row, log, current, faults>>

\* Mutant: the row is marked first, and produced when that has succeeded.
ProduceMarked(p) ==
    /\ stage[p] = "produce"
    /\ \E e \in batch[p] :
          /\ row' = [row EXCEPT ![e] = "published"]
          /\ current' = [current EXCEPT ![p] = e]
          /\ \/ log' = Append(log, e) /\ stage' = [stage EXCEPT ![p] = "mark"]
                /\ UNCHANGED <<batch, faults>>
             \/ UNCHANGED log /\ Fault(p)

\* Produce the next row of the batch, which RETURNING gives in no set order.
Produce(p) ==
    /\ stage[p] = "produce"
    /\ \E e \in batch[p] :
          /\ log' = Append(log, e)
          /\ current' = [current EXCEPT ![p] = e]
    /\ \/ stage' = [stage EXCEPT ![p] = "mark"] /\ UNCHANGED <<batch, faults>>
       \/ Fault(p)
    /\ UNCHANGED row

MarkPublished(p) ==
    /\ stage[p] = "mark"
    /\ row' = [row EXCEPT ![current[p]] = "published"]
    /\ LET left == batch[p] \ {current[p]} IN
          \/ /\ left # {}
             /\ batch' = [batch EXCEPT ![p] = left]
             /\ stage' = [stage EXCEPT ![p] = "produce"]
             /\ UNCHANGED faults
          \/ left = {} /\ EndBatch(p) /\ UNCHANGED faults
          \/ Fault(p)
    /\ UNCHANGED <<log, current>>

\* A call of PublishBatch fails without effect: the batch ends, the rows stay.
PublishFails(p) ==
    /\ stage[p] \in {"produce", "mark"}
    /\ Fault(p)
    /\ UNCHANGED <<row, log, current>>

\* The process of a publisher dies, and is started again.
Crash(p) ==
    /\ stage[p] # "down" /\ faults < MaxFaults
    /\ faults' = faults + 1
    /\ stage' = [stage EXCEPT ![p] = "down"]
    /\ batch' = [batch EXCEPT ![p] = {}]
    /\ UNCHANGED <<row, log, current>>

RestartPublisher(p) ==
    /\ stage[p] = "down"
    /\ stage' = [stage EXCEPT ![p] = "claim"]
    /\ UNCHANGED <<row, log, batch, current, faults>>

PublishBatch(p) == Claim(p) \/ Produce(p) \/ MarkPublished(p)

OutboxNext ==
    \/ \E e \in Events : Enqueue(e)
    \/ \E p \in Publishers : PublishBatch(p) \/ PublishFails(p) \/ Crash(p) \/ RestartPublisher(p)

OutboxSpec == OutboxInit /\ [][OutboxNext]_outboxVars

\* Publishers poll for ever and are restarted; faults are finitely many.
FairOutboxSpec ==
    /\ OutboxSpec
    /\ \A p \in Publishers : WF_outboxVars(PublishBatch(p)) /\ WF_outboxVars(RestartPublisher(p))

-----------------------------------------------------------------------------
(* Properties.                                                             *)

Produced(e) == \E i \in 1..Len(log) : log[i] = e

\* Every variable has its type.
OutboxTypeOK ==
    /\ row \in [Events -> {"absent", "unpublished", "published"}]
    /\ log \in Seq(Events)
    /\ stage \in [Publishers -> {"claim", "produce", "mark", "down"}]
    /\ batch \in [Publishers -> SUBSET Events]
    /\ current \in [Publishers -> Events \cup {0}]
    /\ faults \in 0..MaxFaults
    /\ \A p \in Publishers : stage[p] = "mark" => current[p] \in batch[p]

\* At least once: a row that no publisher will claim again is in Kafka.
MarkedIsProduced == \A e \in Events : row[e] = "published" => Produced(e)

\* The inductive invariant: what a publisher is about to mark is in Kafka too.
OutboxInv ==
    /\ OutboxTypeOK
    /\ MarkedIsProduced
    /\ \A p \in Publishers : stage[p] = "mark" => Produced(current[p])

\* A committed event reaches Kafka, whichever publisher had it when it failed.
EveryEventProduced ==
    \A e \in Events : row[e] = "unpublished" ~> Produced(e)

\* "in-order drain on recovery": the rows that were committed before a publisher
\* ran reach Kafka in the order in which they were created.
DrainedInOrder ==
    \A e, f \in Backlog : e < f /\ Produced(f) => Produced(e)

=============================================================================
