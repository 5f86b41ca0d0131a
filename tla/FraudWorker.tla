----------------------------- MODULE FraudWorker -----------------------------
(***************************************************************************)
(* The fraud worker (app/fraud: worker, repo/postgres, integrations/kafka, *)
(* retention): processes that share one partition of                       *)
(* fraud.score.requested and the table fraud_sessions.  A session is       *)
(* leased by the process that scores it.  The nodes of the scoring graph   *)
(* are in FraudGraph; here scoring is one choice of an outcome, and the    *)
(* lease checks of its audit writes are the one of its last write.         *)
(***************************************************************************)
EXTENDS Integers, FiniteSets

CONSTANTS
    Workers,         \* worker processes
    NumRequests,     \* bound: records on fraud.score.requested
    Malformed,       \* offsets of records that cannot be parsed
    Established,     \* whether the consumer group has committed before
    Retention,       \* whether FRAUD_AUDIT_RETENTION_DAYS is set
    MaxErrors,       \* bound: transient database and broker errors
    MaxExpiries,     \* bound: leases that run out
    MaxRevokes,      \* bound: partition revocations
    MaxStops         \* bound: crashes and shutdowns of a process

Offsets == 1..NumRequests

ASSUME FraudConstants ==
    /\ NumRequests \in Nat
    /\ Malformed \subseteq Offsets
    /\ {Established, Retention} \subseteq BOOLEAN
    /\ Workers \cap {"none", "gone"} = {}
    /\ {MaxErrors, MaxExpiries, MaxRevokes, MaxStops} \subseteq Nat

VARIABLES
    pc,         \* label of each process: the operation it does next
    rec,        \* offset of the record it is handling
    out,        \* the outcome it goes by: local variable outcome
    seen,       \* output_published in its copy of the session
    decision,   \* the ConsumerDecision it is about to return
    heartbeat,  \* its lease renewal task: "off", "on" or "failed"
    session,    \* fraud_sessions
    swept,      \* history: the sessions the retention sweep removed
    produced,   \* number of records on fraud.score.requested
    events,     \* published events, as <<topic, offset>>
    assigned,   \* the process that holds the partition
    position,   \* its fetch position
    committed,  \* committed offset of the group, -1 when there is none
    errors, expiries, revokes, stops

local  == <<pc, rec, out, seen, decision, heartbeat>>
broker == <<produced, assigned, position, committed>>
budget == <<errors, expiries, revokes, stops>>

vars == <<local, session, swept, events, broker, budget>>

\* "none" is an incomplete session; "audit_failed" only ever is a local value.
Outcomes == {"allow", "flag", "fail_open"}

NoSession == [owner |-> "none", live |-> FALSE, outcome |-> "none",
              published |-> FALSE]

Labels == {"down", "idle", "claim", "create", "score", "join", "complete",
           "publish", "audit_error", "publish_error", "mark", "release",
           "dead_letter", "commit"}

Init ==
    /\ pc = [w \in Workers |-> "idle"]
    /\ rec = [w \in Workers |-> 0]
    /\ out = [w \in Workers |-> "none"]
    /\ seen = [w \in Workers |-> FALSE]
    /\ decision = [w \in Workers |-> "none"]
    /\ heartbeat = [w \in Workers |-> "off"]
    /\ session = [r \in Offsets |-> NoSession]
    /\ swept = {}
    /\ produced = 0
    /\ events = {}
    /\ assigned = "none"
    /\ position = 0
    /\ committed = IF Established THEN 0 ELSE -1
    /\ errors = 0 /\ expiries = 0 /\ revokes = 0 /\ stops = 0

-----------------------------------------------------------------------------
(* Helpers.                                                                *)

Goto(w, l) ==
    /\ pc' = [pc EXCEPT ![w] = l]
    /\ UNCHANGED <<rec, out, seen, decision, heartbeat>>

\* To the finally block, with decision d.
Return(w, d) ==
    /\ pc' = [pc EXCEPT ![w] = "release"]
    /\ decision' = [decision EXCEPT ![w] = d]
    /\ UNCHANGED <<rec, out, seen, heartbeat>>

\* w goes on at l with outcome o and, in its copy, publication status p.
Take(w, l, o, p) ==
    /\ pc' = [pc EXCEPT ![w] = l]
    /\ out' = [out EXCEPT ![w] = o]
    /\ seen' = [seen EXCEPT ![w] = p]
    /\ UNCHANGED <<rec, decision>>

\* The end of a record: nothing stays in the hands of w, now at label l.
Forget(w, l) ==
    /\ pc' = [pc EXCEPT ![w] = l]
    /\ rec' = [rec EXCEPT ![w] = 0]
    /\ out' = [out EXCEPT ![w] = "none"]
    /\ seen' = [seen EXCEPT ![w] = FALSE]
    /\ decision' = [decision EXCEPT ![w] = "none"]
    /\ heartbeat' = [heartbeat EXCEPT ![w] = "off"]

\* The process ends, with fraud_sessions as in s.  It comes back under another
\* lease owner.
Die(w, s) ==
    /\ Forget(w, "down")
    /\ session' = [r \in Offsets |->
                     [s[r] EXCEPT !.owner = IF @ = w THEN "gone" ELSE @]]
    /\ assigned' = IF assigned = w THEN "none" ELSE assigned
    /\ UNCHANGED <<produced, position, committed>>

Mine(w) == session[rec[w]]

Fail == errors < MaxErrors /\ errors' = errors + 1

NoFail == UNCHANGED errors

\* An update of fraud_sessions to s finds its row.
Succeeds(found, s) == found /\ NoFail /\ session' = s

\* It finds no row, or fails for a passing reason, which may strike before or
\* after the database has done it.
Fails(found, s) ==
    \/ ~found /\ NoFail /\ UNCHANGED session
    \/ Fail /\ UNCHANGED session
    \/ found /\ Fail /\ session' = s

\* The WHERE clause of append_event, complete_session and mark_published.
HoldsLease(w) == Mine(w).owner = w /\ Mine(w).live

-----------------------------------------------------------------------------
(* Handling a record.                                                      *)

\* KafkaWorkerRunner.run takes the next record; handle_payload parses it.
TakeRecord(w) ==
    /\ pc[w] = "idle"
    /\ assigned = w
    /\ position < produced
    /\ position' = position + 1
    /\ rec' = [rec EXCEPT ![w] = position + 1]
    /\ pc' = [pc EXCEPT ![w] = IF position + 1 \in Malformed THEN "dead_letter"
                                                              ELSE "claim"]
    /\ UNCHANGED <<out, seen, decision, heartbeat, session, swept, events,
                   produced, assigned, committed, budget>>

\* The WHERE clause of claim_session.
Claimable(w) ==
    \/ Mine(w).outcome # "none"
    \/ Mine(w).owner = w
    \/ ~Mine(w).live

Leased(w) == [session EXCEPT ![rec[w]].owner = w, ![rec[w]].live = TRUE]

\* claim_session by the worker.  A completed session goes straight to its
\* output; otherwise the renewal task starts and the graph is run.  Without a
\* session the decision is RETRY and there is nothing to release.
Claim(w) ==
    /\ pc[w] = "claim"
    /\ \/ /\ Succeeds(Claimable(w), Leased(w))
          /\ \/ /\ Mine(w).outcome # "none"
                /\ Take(w, "publish", Mine(w).outcome, Mine(w).published)
                /\ UNCHANGED heartbeat
             \/ /\ Mine(w).outcome = "none"
                /\ Take(w, "create", "none", FALSE)
                /\ heartbeat' = [heartbeat EXCEPT ![w] = "on"]
       \/ /\ Fails(Claimable(w), Leased(w))
          /\ Forget(w, "idle")
    /\ UNCHANGED <<swept, events, broker, expiries, revokes, stops>>

\* claim_session by the graph's first node.  An error there, as in every node,
\* makes score return audit_failed.
CreateSession(w) ==
    /\ pc[w] = "create"
    /\ \/ /\ Succeeds(Claimable(w), Leased(w))
          /\ IF Mine(w).outcome # "none"
             THEN Take(w, "join", Mine(w).outcome, FALSE)
             ELSE Take(w, "score", "none", FALSE)
       \/ /\ Fails(Claimable(w), Leased(w))
          /\ Take(w, "join", "audit_failed", FALSE)
    /\ UNCHANGED <<swept, heartbeat, events, broker, expiries, revokes, stops>>

\* The update of complete_session.
Completed(w, o) == [session EXCEPT ![rec[w]].outcome = o]

\* The graph scores the payment and completes the session.
Score(w) ==
    /\ pc[w] = "score"
    /\ \E o \in Outcomes :
          \/ /\ Succeeds(HoldsLease(w), Completed(w, o))
             /\ Take(w, "join", o, FALSE)
          \/ /\ Fails(HoldsLease(w), Completed(w, o))
             /\ Take(w, "join", "audit_failed", FALSE)
    /\ UNCHANGED <<swept, heartbeat, events, broker, expiries, revokes, stops>>

\* renew_lease, by the renewal task, at any time while the graph runs.  It
\* fails on a session that was lost or is complete.
RenewLease(w) ==
    /\ heartbeat[w] = "on"
    /\ LET found == Mine(w).owner = w /\ Mine(w).outcome = "none"
           s     == [session EXCEPT ![rec[w]].live = TRUE]
       IN  \/ Succeeds(found, s) /\ UNCHANGED heartbeat
           \/ Fails(found, s) /\ heartbeat' = [heartbeat EXCEPT ![w] = "failed"]
    /\ UNCHANGED <<swept, pc, rec, out, seen, decision, events, broker, expiries,
                   revokes, stops>>

\* _cancel(heartbeat).  The error of a failed task is raised here, and again in
\* the finally block, from where it ends the runner.
JoinHeartbeat(w) ==
    /\ pc[w] = "join"
    /\ \/ /\ heartbeat[w] = "on"
          /\ pc' = [pc EXCEPT ![w] = IF out[w] = "audit_failed" THEN "audit_error"
                                                                 ELSE "complete"]
          /\ heartbeat' = [heartbeat EXCEPT ![w] = "off"]
          /\ UNCHANGED <<rec, out, seen, decision, session, broker>>
       \/ /\ heartbeat[w] = "failed"
          /\ Die(w, session)
    /\ UNCHANGED <<swept, events, budget>>

\* fraud.error for audit_failed, when possible; then RETRY.
PublishAuditError(w) ==
    /\ pc[w] = "audit_error"
    /\ \/ NoFail /\ events' = events \cup {<<"fraud.error", rec[w]>>}
       \/ Fail /\ UNCHANGED events
    /\ Return(w, "retry")
    /\ UNCHANGED <<swept, session, broker, expiries, revokes, stops>>

\* complete_session by the worker, after the graph has done the same.
CompleteSession(w) ==
    /\ pc[w] = "complete"
    /\ LET s == Completed(w, out[w])
       IN  \/ /\ Succeeds(HoldsLease(w), s)
              /\ Take(w, "publish", out[w], Mine(w).published)
           \/ /\ Fails(HoldsLease(w), s)
              /\ Take(w, "audit_error", out[w], FALSE)
    /\ UNCHANGED <<swept, heartbeat, events, broker, expiries, revokes, stops>>

\* Mutant: every outcome but allow is published as a flag.
PublishOutcomeAny(w) ==
    /\ pc[w] = "publish"
    /\ NoFail
    /\ \/ /\ seen[w] \/ out[w] = "allow"
          /\ Return(w, "commit")
          /\ UNCHANGED events
       \/ /\ ~seen[w] /\ out[w] # "allow"
          /\ events' = events \cup {<<"fraud.flagged", rec[w]>>}
          /\ Goto(w, "mark")
    /\ UNCHANGED <<swept, session, broker, expiries, revokes, stops>>

\* The output of a completed session, unless its copy says it was published.
PublishOutcome(w) ==
    /\ pc[w] = "publish"
    /\ \/ /\ seen[w] \/ out[w] = "allow"
          /\ NoFail
          /\ Return(w, "commit")
          /\ UNCHANGED events
       \/ /\ ~seen[w] /\ out[w] = "flag"
          /\ NoFail
          /\ events' = events \cup {<<"fraud.flagged", rec[w]>>}
          /\ Goto(w, "mark")
       \/ /\ ~seen[w] /\ out[w] = "flag"
          /\ Fail
          /\ events' \in {events, events \cup {<<"fraud.flagged", rec[w]>>}}
          /\ Goto(w, "publish_error")
       \/ /\ ~seen[w] /\ out[w] = "fail_open"
          /\ \/ NoFail /\ events' = events \cup {<<"fraud.error", rec[w]>>}
             \/ Fail /\ UNCHANGED events
          /\ Goto(w, "mark")
    /\ UNCHANGED <<swept, session, broker, expiries, revokes, stops>>

\* fraud.error for publish_failed, when possible; then RETRY.
PublishPublishError(w) ==
    /\ pc[w] = "publish_error"
    /\ \/ NoFail /\ events' = events \cup {<<"fraud.error", rec[w]>>}
       \/ Fail /\ UNCHANGED events
    /\ Return(w, "retry")
    /\ UNCHANGED <<swept, session, broker, expiries, revokes, stops>>

MarkPublished(w) ==
    /\ pc[w] = "mark"
    /\ LET s == [session EXCEPT ![rec[w]].published = TRUE]
       IN  \/ Succeeds(HoldsLease(w), s) /\ Return(w, "commit")
           \/ Fails(HoldsLease(w), s) /\ Return(w, "retry")
    /\ UNCHANGED <<swept, events, broker, expiries, revokes, stops>>

Unleased(w) ==
    IF Mine(w).owner = w
    THEN [session EXCEPT ![rec[w]].owner = "none", ![rec[w]].live = FALSE]
    ELSE session

\* Mutant: a retry is treated like a commit.
ReleaseLeaseCommits(w) ==
    /\ pc[w] = "release"
    /\ NoFail
    /\ session' = Unleased(w)
    /\ Goto(w, "commit")
    /\ UNCHANGED <<swept, events, broker, expiries, revokes, stops>>

\* The finally block: release_lease, whose errors are suppressed.  After RETRY
\* the runner takes the next record and leaves the offset uncommitted.
ReleaseLease(w) ==
    /\ pc[w] = "release"
    /\ \/ NoFail /\ session' = Unleased(w)
       \/ Fail /\ UNCHANGED session
    /\ IF decision[w] = "commit" THEN Goto(w, "commit") ELSE Forget(w, "idle")
    /\ UNCHANGED <<swept, events, broker, expiries, revokes, stops>>

\* A malformed record is parked on the dead-letter topic before its commit; if
\* that fails the runner takes the next record.
DeadLetter(w) ==
    /\ pc[w] = "dead_letter"
    /\ \/ /\ NoFail
          /\ events' = events \cup {<<"dlq", rec[w]>>}
          /\ Goto(w, "commit")
       \/ /\ Fail
          /\ Forget(w, "idle")
          /\ UNCHANGED events
    /\ UNCHANGED <<swept, session, broker, expiries, revokes, stops>>

\* commit_record.  A process that has lost the partition cannot commit; the
\* error of a failed commit ends the runner.
CommitRecord(w) ==
    /\ pc[w] = "commit"
    /\ \/ /\ assigned = w
          /\ NoFail
          /\ committed' = rec[w]
          /\ Forget(w, "idle")
          /\ UNCHANGED <<session, produced, assigned, position>>
       \/ /\ (assigned # w /\ NoFail) \/ Fail
          /\ Die(w, session)
    /\ UNCHANGED <<swept, events, expiries, revokes, stops>>

-----------------------------------------------------------------------------
(* The broker, the clock and the processes.                                *)

\* The outbox publisher delivers the next request.
Produce ==
    /\ produced < NumRequests
    /\ produced' = produced + 1
    /\ UNCHANGED <<local, session, swept, events, assigned, position, committed,
                   budget>>

\* A process gets the partition and starts at the committed offset; without
\* one it starts at the end (auto_offset_reset is "latest").
Assign(w) ==
    /\ assigned = "none"
    /\ pc[w] # "down"
    /\ assigned' = w
    /\ position' = IF committed = -1 THEN produced ELSE committed
    /\ UNCHANGED <<local, session, swept, events, produced, committed, budget>>

Revoke ==
    /\ assigned # "none"
    /\ revokes < MaxRevokes
    /\ revokes' = revokes + 1
    /\ assigned' = "none"
    /\ UNCHANGED <<swept, local, session, events, produced, position, committed,
                   errors, expiries, stops>>

\* lease_expires_at passes, because the event loop or the network stalls.
Expire(r) ==
    /\ session[r].live
    /\ expiries < MaxExpiries
    /\ expiries' = expiries + 1
    /\ session' = [session EXCEPT ![r].live = FALSE]
    /\ UNCHANGED <<swept, local, events, broker, errors, revokes, stops>>

\* Mutant: the sweeper deletes unfinished sessions as well.
SweepAll(r) ==
    /\ Retention
    /\ swept' = swept \cup {r}
    /\ session' = [session EXCEPT ![r] = NoSession]
    /\ UNCHANGED <<local, events, broker, budget>>

\* delete_completed_before: a session completed long ago goes.
Sweep(r) ==
    /\ Retention
    /\ session[r].outcome # "none"
    /\ swept' = swept \cup {r}
    /\ session' = [session EXCEPT ![r] = NoSession]
    /\ UNCHANGED <<local, events, broker, budget>>

Crash(w) ==
    /\ pc[w] # "down"
    /\ stops < MaxStops
    /\ stops' = stops + 1
    /\ Die(w, session)
    /\ UNCHANGED <<swept, events, errors, expiries, revokes>>

\* WorkerRuntime.shutdown runs out of time and cancels the task: only the
\* finally block of _handle_request still runs, if w has a session.
Shutdown(w) ==
    /\ pc[w] \notin {"down", "idle", "claim", "dead_letter", "commit"}
    /\ stops < MaxStops
    /\ stops' = stops + 1
    /\ Die(w, IF heartbeat[w] = "failed" THEN session ELSE Unleased(w))
    /\ UNCHANGED <<swept, events, errors, expiries, revokes>>

Start(w) ==
    /\ pc[w] = "down"
    /\ pc' = [pc EXCEPT ![w] = "idle"]
    /\ UNCHANGED <<rec, out, seen, decision, heartbeat, session, swept, events,
                   broker, budget>>

-----------------------------------------------------------------------------

Handle(w) ==
    \/ Claim(w) \/ CreateSession(w) \/ Score(w) \/ JoinHeartbeat(w)
    \/ PublishAuditError(w) \/ CompleteSession(w) \/ PublishOutcome(w)
    \/ PublishPublishError(w) \/ MarkPublished(w) \/ ReleaseLease(w)
    \/ DeadLetter(w) \/ CommitRecord(w)

Next ==
    \/ \E w \in Workers :
          \/ TakeRecord(w) \/ Handle(w) \/ RenewLease(w)
          \/ Assign(w) \/ Crash(w) \/ Shutdown(w) \/ Start(w)
    \/ \E r \in Offsets : Expire(r) \/ Sweep(r)
    \/ Produce
    \/ Revoke

Spec == Init /\ [][Next]_vars

\* Requests come in, the event loop runs every handler to its end, and the
\* platform restarts a process and gives it the partition.
FairSpec ==
    /\ Spec
    /\ WF_vars(Produce)
    /\ \A w \in Workers : /\ WF_vars(TakeRecord(w))
                          /\ WF_vars(Handle(w))
                          /\ WF_vars(Start(w))
    /\ WF_vars(\E w \in Workers : Assign(w))

-----------------------------------------------------------------------------
(* Properties.                                                             *)

\* Every variable has its type.
TypeOK ==
    /\ pc \in [Workers -> Labels]
    /\ rec \in [Workers -> Offsets \cup {0}]
    /\ out \in [Workers -> Outcomes \cup {"none", "audit_failed"}]
    /\ seen \in [Workers -> BOOLEAN]
    /\ decision \in [Workers -> {"none", "commit", "retry"}]
    /\ heartbeat \in [Workers -> {"off", "on", "failed"}]
    /\ session \in [Offsets -> [owner     : Workers \cup {"none", "gone"},
                                live      : BOOLEAN,
                                outcome   : Outcomes \cup {"none"},
                                published : BOOLEAN]]
    /\ swept \subseteq Offsets
    /\ produced \in 0..NumRequests
    /\ events \subseteq {"fraud.flagged", "fraud.error", "dlq"} \X Offsets
    /\ assigned \in Workers \cup {"none"}
    /\ position \in 0..NumRequests
    /\ committed \in -1..NumRequests
    /\ errors \in Nat /\ expiries \in Nat /\ revokes \in Nat /\ stops \in Nat

\* Request r has a durable outcome, and the event of a flagged one is out.
Settled(r) ==
    /\ session[r].outcome # "none"
    /\ session[r].outcome = "flag" => <<"fraud.flagged", r>> \in events

\* fraud.flagged is only out for a request whose stored verdict is flag: a
\* worker that lost its lease never publishes a verdict of its own.  (A swept
\* session may be scored anew, here and below.)
FlaggedIsStored ==
    \A r \in Offsets \ swept :
       <<"fraud.flagged", r>> \in events => session[r].outcome = "flag"

\* A worker comes to commit a valid request only when it is settled, on every
\* path through _handle_request.
CommitOnlyIfSettled ==
    \A w \in Workers :
       pc[w] = "commit" /\ rec[w] \notin Malformed \cup swept =>
          Settled(rec[w])

\* A session that says its output was published is settled, so the worker that
\* skips the publication of a redelivered request loses nothing.
MarkedIsSettled ==
    \A r \in Offsets \ swept : session[r].published => Settled(r)

\* Two workers are never scoring one request at the same time, unless a lease
\* ran out (claim_session, also against the retention sweep).
NoDoubleScoring ==
    expiries = 0 =>
       \A v, w \in Workers :
          v # w /\ pc[v] = "score" /\ pc[w] = "score" => rec[v] # rec[w]

\* Every request gets a durable outcome and every flagged one its event.
EveryRequestSettled ==
    \A r \in Offsets \ Malformed : produced >= r ~> Settled(r)

\* "released on completion": a worker that is done with a record, or has ended,
\* holds no lease.
LeaseReleasedOnCompletion ==
    \A r \in Offsets :
       /\ session[r].owner # "gone"
       /\ \A w \in Workers : session[r].owner = w => rec[w] = r

-----------------------------------------------------------------------------
(* The inductive invariant.                                                *)

\* What the code of a process relies on at each label, of the record in hand.
\* An outcome, once stored, stays until the sweep removes it: a process at score
\* that still owns the session is the only one that could have stored one.
HandInv(w) ==
    /\ pc[w] \notin {"idle", "down"} => rec[w] \in Offsets
    /\ pc[w] = "dead_letter" => rec[w] \in Malformed
    /\ pc[w] = "join" => out[w] # "none"
    /\ pc[w] \in {"complete", "publish"} => out[w] \in Outcomes
    /\ pc[w] = "score" /\ Mine(w).owner = w => Mine(w).outcome = "none"

\* The verdict a process goes by is the stored one, and it comes to mark and to
\* commit when the request is settled.
VerdictInv(w) ==
    rec[w] \notin swept =>
       /\ pc[w] \in {"join", "complete", "publish"} /\ out[w] # "audit_failed" =>
             Mine(w).outcome = out[w]
       /\ \/ pc[w] = "publish" /\ seen[w]
          \/ pc[w] = "mark"
          \/ pc[w] = "release" /\ decision[w] = "commit"
          \/ pc[w] = "commit" /\ rec[w] \notin Malformed
          => Settled(rec[w])

VerdictsInv ==
    /\ TypeOK
    /\ FlaggedIsStored
    /\ MarkedIsSettled
    /\ \A w \in Workers : HandInv(w) /\ VerdictInv(w)

\* Without an expiry a process that scores holds its lease.
LeaseInv ==
    \A w \in Workers : pc[w] = "score" => HoldsLease(w)

FraudInv == VerdictsInv /\ (expiries = 0 => LeaseInv)

=============================================================================
