----------------------- MODULE PaymentProcessorProofs -----------------------
(***************************************************************************)
(* Proofs about PaymentProcessor, for any number of payments, processes,   *)
(* records, attempts, crashes and rebalances.                              *)
(***************************************************************************)
EXTENDS PaymentProcessor, TLAPS

\* The numbers among the constants.
LEMMA Numbers == Len(Commands) \in Nat /\ MaxAttempts \in Nat /\ MaxAttempts > 0
BY ProcessorAssumption

\* The labels at which a process has a record in hand, and the two others.
LEMMA LabelFacts ==
    /\ "create" \in Handling /\ "start" \in Handling /\ "charge" \in Handling
    /\ "mark_completed" \in Handling /\ "mark_failed" \in Handling
    /\ "publish" \in Handling /\ "commit" \in Handling
    /\ "poll" \notin Handling /\ "down" \notin Handling
    /\ "poll" \in Labels /\ "down" \in Labels
    /\ \A l \in Handling : l \in Labels
BY Zenon DEF Handling, Labels

\* Moving one process to a label keeps pc a function to labels.
LEMMA GotoType ==
    ASSUME TypeOK, NEW c \in Procs, NEW l \in Labels, Goto(c, l)
    PROVE  pc' \in [Procs -> Labels]
BY Zenon DEF TypeOK, Goto

\* A call returns to its continuation, or its error makes Run go on to the next
\* record.
LEMMA ReturnsTo ==
    ASSUME TypeOK, NEW c \in Procs, NEW l \in Labels, Returns(c, l)
    PROVE  /\ pc' \in [Procs -> Labels]
           /\ crashes' \in Nat /\ errors' \in Nat /\ moves' \in Nat
           /\ \E m \in {l, "poll"} : pc' = [pc EXCEPT ![c] = m]
<1>1. CASE Goto(c, l) /\ UNCHANGED used
  BY Zenon, <1>1, GotoType DEF Goto, TypeOK, used
<1>2. CASE Skip(c)
  BY <1>2, GotoType, LabelFacts DEF Skip, Goto, TypeOK
<1> QED BY Zenon, <1>1, <1>2 DEF Returns

\* The base invariant holds before the first record.
LEMMA InitBase == Init => BaseInv
BY Numbers
   DEF Init, BaseInv, TypeOK, HandInv, ChargeInv, CompletedIsCharged, Handling,
       Labels, Rows, Statuses, Topics

\* A process that keeps its command in hand, or is done with it.
LEMMA HandKept ==
    ASSUME BaseInv, NEW c \in Procs, pc[c] \in Handling, pc[c] # "commit",
           NEW m, pc' = [pc EXCEPT ![c] = m], UNCHANGED <<rec, last>>,
           m \in {"start", "charge"} => try'[c] > 0,
           \A d \in Procs : d # c => try'[d] = try[d]
    PROVE  HandInv'
<1> SUFFICES ASSUME NEW d \in Procs
             PROVE  /\ rec'[d] <= last'[d]
                    /\ pc'[d] \in Handling => rec'[d] > 0
                    /\ pc'[d] \in Handling \ {"commit"} => Payment(d)' \in Payments
                    /\ pc'[d] \in {"start", "charge"} => try'[d] > 0
  BY Zenon DEF HandInv
<1>1. rec'[d] = rec[d] /\ last'[d] = last[d] /\ Payment(d)' = Payment(d)
  BY Zenon DEF Payment
<1>2. CASE d = c
  BY Zenon, <1>1, <1>2 DEF BaseInv, HandInv, TypeOK
<1>3. CASE d # c
  <2>1. pc'[d] = pc[d] /\ try'[d] = try[d]
    BY Zenon, <1>3 DEF BaseInv, TypeOK
  <2> QED BY Zenon, <1>1, <2>1 DEF BaseInv, HandInv
<1> QED BY Zenon, <1>2, <1>3

\* Fetching records touches neither payments nor the rail.
LEMMA PollFetchesBase ==
    ASSUME BaseInv, NEW c \in Procs, PollFetches(c)
    PROVE  BaseInv'
<1> USE Numbers DEF BaseInv, store, local, group, used
<1>t. TypeOK'
  BY SMTT(60), GotoType, LabelFacts DEF PollFetches, TypeOK
<1>h. HandInv'
  BY SMTT(60), LabelFacts DEF PollFetches, TypeOK, HandInv, Payment
<1>c. ChargeInv'
  BY Zenon DEF PollFetches, TypeOK, HandInv, ChargeInv, CompletedIsCharged, Payment
<1> QED BY Zenon, <1>t, <1>h, <1>c

\* Taking a record: a valid command is in hand.
LEMMA HandleRecordBase ==
    ASSUME BaseInv, NEW c \in Procs, HandleRecord(c)
    PROVE  BaseInv'
<1> USE Numbers DEF BaseInv, store, local, group, used
<1>n. rec[c] + 1 \in 1..Len(Commands) /\ rec[c] + 1 <= last[c]
  BY SMTT(60) DEF HandleRecord, TypeOK
<1>g. \E l \in {"create", "commit"} :
        Goto(c, l) /\ (l = "create" => Commands[rec[c] + 1] \in Payments)
  BY Zenon DEF HandleRecord, Valid
<1>r. pc' \in [Procs -> Labels]
  BY Zenon, <1>g, GotoType, LabelFacts
<1>t. TypeOK'
  <2>1. rec' \in [Procs -> 0..Len(Commands)]
    BY SMTT(60), <1>n DEF HandleRecord, TypeOK
  <2> QED BY Zenon, <1>r, <2>1 DEF HandleRecord, TypeOK
<1>h. HandInv'
  <2> SUFFICES ASSUME NEW d \in Procs
               PROVE  /\ rec'[d] <= last'[d]
                      /\ pc'[d] \in Handling => rec'[d] > 0
                      /\ pc'[d] \in Handling \ {"commit"} => Payment(d)' \in Payments
                      /\ pc'[d] \in {"start", "charge"} => try'[d] > 0
    BY Zenon DEF HandInv
  <2>0. last' = last /\ try' = try
    BY Zenon DEF HandleRecord
  <2>1. CASE d = c
    <3>1. rec'[c] = rec[c] + 1
      BY Zenon DEF HandleRecord, TypeOK
    <3>2. rec[c] + 1 > 0
      BY <1>n
    <3>3. PICK l \in {"create", "commit"} :
             pc'[c] = l /\ (l = "create" => Commands[rec[c] + 1] \in Payments)
      BY Zenon, <1>g DEF Goto, TypeOK
    <3> QED BY Zenon, <1>n, <2>0, <2>1, <3>1, <3>2, <3>3 DEF Payment, Handling
  <2>2. CASE d # c
    <3>1. rec'[d] = rec[d] /\ pc'[d] = pc[d]
      BY Zenon, <2>2 DEF HandleRecord, Goto, TypeOK
    <3> QED BY Zenon, <2>0, <3>1 DEF HandInv, Payment
  <2> QED BY Zenon, <2>1, <2>2
<1>c. ChargeInv'
  BY Zenon DEF HandleRecord, Valid, Goto, TypeOK, HandInv, ChargeInv, CompletedIsCharged, Payment
<1> QED BY Zenon, <1>t, <1>h, <1>c

\* CreatePending returns the row there is, or a new one.
LEMMA PendingRow ==
    ASSUME NEW row \in Rows
    PROVE  /\ Pending(row) \in Rows
           /\ Pending(row).status = "COMPLETED" => row.status = "COMPLETED"
BY Numbers DEF Pending, Rows, Statuses

\* processPending starts with an attempt number within the limit.
LEMMA FirstAttemptRange ==
    ASSUME NEW n \in 0..MaxAttempts
    PROVE  FirstAttempt(n) \in 1..MaxAttempts
BY Numbers DEF FirstAttempt

\* HandleExecute publishes payment.completed again only for a COMPLETED row.
LEMMA CreatePendingBase ==
    ASSUME BaseInv, NEW c \in Procs, CreatePending(c)
    PROVE  BaseInv'
<1> USE Numbers DEF BaseInv, store, local, group, used
<1>1. Payment(c) \in Payments /\ pc[c] = "create" /\ rec[c] > 0
  BY Zenon, LabelFacts DEF CreatePending, HandInv
<1>2. PICK p \in Payments : p = Payment(c)
  BY Zenon, <1>1
<1>3. PICK row \in Rows : row = Pending(attempt[p])
  BY Zenon, PendingRow DEF TypeOK
<1>4. row.status = "COMPLETED" => p \in charged
  BY Zenon, <1>3, PendingRow DEF TypeOK, ChargeInv
<1>5. PICK n \in 1..MaxAttempts : n = FirstAttempt(row.count)
  BY Zenon, FirstAttemptRange DEF Rows
<1>6. PICK t \in Topics : t = IF row.status = "COMPLETED" THEN "payment.completed"
                                                         ELSE "payment.failed"
  BY Zenon DEF Topics
<1>7. PICK l \in {"start", "publish"} :
         l = IF row.status = "PENDING" THEN "start" ELSE "publish"
  OBVIOUS
<1>8. /\ attempt' = [attempt EXCEPT ![p] = row]
      /\ try' = [try EXCEPT ![c] = n]
      /\ topic' = [topic EXCEPT ![c] = t]
      /\ Returns(c, l)
      /\ UNCHANGED <<charged, calls, published, rec, last, fetch, group>>
  BY Zenon, <1>2, <1>3, <1>5, <1>6, <1>7 DEF CreatePending
<1>9. /\ pc' \in [Procs -> Labels]
      /\ crashes' \in Nat /\ errors' \in Nat /\ moves' \in Nat
      /\ \E m \in {l, "poll"} : pc' = [pc EXCEPT ![c] = m]
  BY <1>8, ReturnsTo, LabelFacts
<1>t. TypeOK'
  <2>1. attempt' \in [Payments -> Rows]
    BY Zenon, <1>8 DEF TypeOK
  <2>2. try' \in [Procs -> 0..MaxAttempts]
    BY <1>8 DEF TypeOK
  <2> QED BY Zenon, <1>8, <1>9, <2>1, <2>2 DEF TypeOK
<1>h. HandInv'
  <2>1. PICK m \in {l, "poll"} : pc' = [pc EXCEPT ![c] = m]
    BY Zenon, <1>9
  <2>2. try'[c] > 0 /\ \A d \in Procs : d # c => try'[d] = try[d]
    BY SMTT(60), <1>8 DEF TypeOK
  <2> QED BY Zenon, <1>1, <1>8, <2>1, <2>2, HandKept, LabelFacts
<1>c. ChargeInv'
  <2>1. t = "payment.completed" => p \in charged
    BY Zenon, <1>4, <1>6
  <2> QED BY Zenon, <1>2, <1>4, <1>8, <1>9, <2>1 DEF TypeOK, ChargeInv, CompletedIsCharged, Payment
<1> QED BY Zenon, <1>t, <1>h, <1>c

\* The attempt is counted before the rail is called.
LEMMA MarkAttemptStartedBase ==
    ASSUME BaseInv, NEW c \in Procs, MarkAttemptStarted(c)
    PROVE  BaseInv'
<1> USE Numbers DEF BaseInv, store, local, group, used
<1>r. /\ pc' \in [Procs -> Labels]
     /\ crashes' \in Nat /\ errors' \in Nat /\ moves' \in Nat
     /\ \E m \in {"charge", "poll"} : pc' = [pc EXCEPT ![c] = m]
  BY Zenon, ReturnsTo, LabelFacts DEF MarkAttemptStarted
<1>p. Payment(c) \in Payments
  BY Zenon, LabelFacts DEF MarkAttemptStarted, HandInv
<1>t. TypeOK'
  BY ZenonT(60), <1>r, <1>p DEF MarkAttemptStarted, TypeOK, Rows, Statuses, Topics, HandInv
<1>h. HandInv'
  <2>1. PICK m \in {"charge", "poll"} : pc' = [pc EXCEPT ![c] = m]
    BY Zenon, <1>r
  <2>2. pc[c] \in Handling /\ pc[c] # "commit" /\ UNCHANGED <<rec, last, try>>
    BY Zenon, LabelFacts DEF MarkAttemptStarted
  <2>3. m \in {"start", "charge"} => try'[c] > 0
    BY Zenon, <2>1, <2>2 DEF MarkAttemptStarted, HandInv
  <2> QED BY Zenon, <2>1, <2>2, <2>3, HandKept
<1>c. ChargeInv'
  <2>1. \A q \in Payments : attempt'[q].status = "COMPLETED" =>
                               attempt[q].status = "COMPLETED"
    BY Zenon, <1>p DEF MarkAttemptStarted, TypeOK, Rows
  <2>2. /\ \A d \in Procs : d # c => pc'[d] = pc[d] /\ topic'[d] = topic[d]
        /\ pc'[c] # "mark_completed"
        /\ ~(pc'[c] = "publish" /\ topic'[c] = "payment.completed")
    BY Zenon, <1>r DEF MarkAttemptStarted, TypeOK
  <2>3. UNCHANGED <<charged, published, rec>>
    BY Zenon DEF MarkAttemptStarted
  <2> QED BY Zenon, <2>1, <2>2, <2>3 DEF ChargeInv, CompletedIsCharged, Payment
<1> QED BY Zenon, <1>t, <1>h, <1>c

\* Only an answer of the rail that says so leads to mark_completed.
LEMMA ChargeBase ==
    ASSUME BaseInv, NEW c \in Procs, Charge(c)
    PROVE  BaseInv'
<1> USE Numbers DEF BaseInv, store, local, group, used
<1>p. Payment(c) \in Payments
  BY Zenon, LabelFacts DEF Charge, HandInv
<1>u. /\ pc[c] = "charge"
      /\ UNCHANGED <<attempt, published, rec, last, fetch, topic, group, used>>
  BY Zenon DEF Charge
<1>1. PICK m \in {"mark_completed", "mark_failed", "start"} :
        /\ pc' = [pc EXCEPT ![c] = m]
        /\ m = "mark_completed" => Payment(c) \in charged'
        /\ charged \subseteq charged' /\ charged' \subseteq Payments
        /\ \/ try' = try
           \/ try[c] < MaxAttempts /\ try' = [try EXCEPT ![c] = try[c] + 1]
  BY Zenon, <1>p DEF Charge, MayCharge, Goto, TypeOK
<1>2. try[c] \in 0..MaxAttempts /\ try[c] > 0
  BY Zenon, <1>u DEF TypeOK, HandInv
<1>3. /\ try' \in [Procs -> 0..MaxAttempts]
      /\ try'[c] > 0
      /\ \A d \in Procs : d # c => try'[d] = try[d]
  <2>1. CASE try' = try
    BY Zenon, <2>1, <1>2 DEF TypeOK
  <2>2. CASE try[c] < MaxAttempts /\ try' = [try EXCEPT ![c] = try[c] + 1]
    <3>1. try[c] + 1 \in 0..MaxAttempts /\ try[c] + 1 > 0
      BY <1>2, <2>2
    <3> QED BY Zenon, <2>2, <3>1 DEF TypeOK
  <2> QED BY Zenon, <1>1, <2>1, <2>2
<1>t. TypeOK'
  <2>1. calls' \in [Payments -> Nat]
    BY SMTT(60), <1>p DEF Charge, TypeOK
  <2>2. pc' \in [Procs -> Labels]
    BY SMTT(60), <1>1, LabelFacts DEF TypeOK
  <2> QED BY Zenon, <1>u, <1>1, <1>3, <2>1, <2>2 DEF TypeOK
<1>h. HandInv'
  BY Zenon, <1>u, <1>1, <1>3, HandKept, LabelFacts
<1>c. ChargeInv'
  BY Zenon, <1>u, <1>1 DEF TypeOK, ChargeInv, CompletedIsCharged, Payment
<1> QED BY Zenon, <1>t, <1>h, <1>c

\* COMPLETED is recorded for a charged payment.
LEMMA MarkCompletedBase ==
    ASSUME BaseInv, NEW c \in Procs, MarkCompleted(c)
    PROVE  BaseInv'
<1> USE Numbers DEF BaseInv, store, local, group, used
<1>r. /\ pc' \in [Procs -> Labels]
     /\ crashes' \in Nat /\ errors' \in Nat /\ moves' \in Nat
     /\ \E m \in {"publish", "poll"} : pc' = [pc EXCEPT ![c] = m]
  BY Zenon, ReturnsTo, LabelFacts DEF MarkCompleted, Mark
<1>p. Payment(c) \in Payments
  BY Zenon, LabelFacts DEF MarkCompleted, Mark, HandInv
<1>t. TypeOK'
  BY ZenonT(60), <1>r, <1>p DEF MarkCompleted, Mark, TypeOK, Rows, Statuses, Topics, HandInv
<1>h. HandInv'
  <2>1. PICK m \in {"publish", "poll"} : pc' = [pc EXCEPT ![c] = m]
    BY Zenon, <1>r
  <2>2. pc[c] \in Handling /\ pc[c] # "commit" /\ UNCHANGED <<rec, last, try>>
    BY Zenon, LabelFacts DEF MarkCompleted, Mark
  <2>3. m \in {"start", "charge"} => try'[c] > 0
    BY Zenon, <2>1, <2>2 DEF MarkCompleted, Mark, HandInv
  <2> QED BY Zenon, <2>1, <2>2, <2>3, HandKept
<1>c. ChargeInv'
  BY ZenonT(60), <1>r, <1>p, <1>t DEF MarkCompleted, Mark, TypeOK, HandInv, ChargeInv, CompletedIsCharged, Payment
<1> QED BY Zenon, <1>t, <1>h, <1>c

\* FAILED may be recorded for any payment.
LEMMA MarkFailedBase ==
    ASSUME BaseInv, NEW c \in Procs, MarkFailed(c)
    PROVE  BaseInv'
<1> USE Numbers DEF BaseInv, store, local, group, used
<1>r. /\ pc' \in [Procs -> Labels]
     /\ crashes' \in Nat /\ errors' \in Nat /\ moves' \in Nat
     /\ \E m \in {"publish", "poll"} : pc' = [pc EXCEPT ![c] = m]
  BY Zenon, ReturnsTo, LabelFacts DEF MarkFailed, Mark
<1>p. Payment(c) \in Payments
  BY Zenon, LabelFacts DEF MarkFailed, Mark, HandInv
<1>t. TypeOK'
  BY ZenonT(60), <1>r, <1>p DEF MarkFailed, Mark, TypeOK, Rows, Statuses, Topics, HandInv
<1>h. HandInv'
  <2>1. PICK m \in {"publish", "poll"} : pc' = [pc EXCEPT ![c] = m]
    BY Zenon, <1>r
  <2>2. pc[c] \in Handling /\ pc[c] # "commit" /\ UNCHANGED <<rec, last, try>>
    BY Zenon, LabelFacts DEF MarkFailed, Mark
  <2>3. m \in {"start", "charge"} => try'[c] > 0
    BY Zenon, <2>1, <2>2 DEF MarkFailed, Mark, HandInv
  <2> QED BY Zenon, <2>1, <2>2, <2>3, HandKept
<1>c. ChargeInv'
  <2>1. \A q \in Payments : attempt'[q].status = "COMPLETED" =>
                               attempt[q].status = "COMPLETED"
    BY Zenon, <1>p DEF MarkFailed, Mark, TypeOK, Rows
  <2>2. /\ \A d \in Procs : d # c => pc'[d] = pc[d] /\ topic'[d] = topic[d]
        /\ pc'[c] # "mark_completed"
        /\ ~(pc'[c] = "publish" /\ topic'[c] = "payment.completed")
    BY Zenon, <1>r DEF MarkFailed, Mark, TypeOK
  <2>3. UNCHANGED <<charged, published, rec>>
    BY Zenon DEF MarkFailed, Mark
  <2> QED BY Zenon, <2>1, <2>2, <2>3 DEF ChargeInv, CompletedIsCharged, Payment
<1> QED BY Zenon, <1>t, <1>h, <1>c

\* The event published is the one the row was read or written with.
LEMMA PublishBase ==
    ASSUME BaseInv, NEW c \in Procs, Publish(c)
    PROVE  BaseInv'
<1> USE Numbers DEF BaseInv, store, local, group, used
<1>r. /\ pc' \in [Procs -> Labels]
     /\ crashes' \in Nat /\ errors' \in Nat /\ moves' \in Nat
     /\ \E m \in {"commit", "poll"} : pc' = [pc EXCEPT ![c] = m]
  BY Zenon, ReturnsTo, LabelFacts DEF Publish
<1>p. Payment(c) \in Payments
  BY Zenon, LabelFacts DEF Publish, HandInv
<1>t. TypeOK'
  <2>1. published' \subseteq Topics \X Payments
    BY SMTT(60), <1>p DEF Publish, TypeOK
  <2> QED BY Zenon, <1>r, <2>1 DEF Publish, TypeOK
<1>h. HandInv'
  <2>1. PICK m \in {"commit", "poll"} : pc' = [pc EXCEPT ![c] = m]
    BY Zenon, <1>r
  <2>2. pc[c] \in Handling /\ pc[c] # "commit" /\ UNCHANGED <<rec, last, try>>
    BY Zenon, LabelFacts DEF Publish
  <2> QED BY Zenon, <2>1, <2>2, HandKept
<1>c. ChargeInv'
  <2>1. UNCHANGED <<attempt, charged, topic, rec>>
    BY Zenon DEF Publish
  <2>2. \A d \in Procs : pc'[d] = pc[d] \/ pc'[d] \in {"commit", "poll"}
    BY Zenon, <1>r DEF TypeOK
  <2>3. \A d \in Procs :
           \/ pc'[d] = "mark_completed"
           \/ pc'[d] = "publish" /\ topic'[d] = "payment.completed"
           => Payment(d)' \in charged'
    BY Zenon, <2>1, <2>2 DEF ChargeInv, Payment
  <2>4. topic[c] = "payment.completed" => Payment(c) \in charged
    BY Zenon DEF Publish, ChargeInv
  <2>5. \A q \in Payments : <<"payment.completed", q>> \in published' =>
           \/ <<"payment.completed", q>> \in published
           \/ topic[c] = "payment.completed" /\ q = Payment(c)
    BY DEF Publish
  <2>6. CompletedIsCharged'
    BY Zenon, <2>1, <2>4, <2>5 DEF ChargeInv, CompletedIsCharged
  <2> QED BY Zenon, <2>1, <2>3, <2>6 DEF ChargeInv
<1> QED BY Zenon, <1>t, <1>h, <1>c

\* The offset has no part in the base invariant.
LEMMA CommitRecordBase ==
    ASSUME BaseInv, NEW c \in Procs, CommitRecord(c)
    PROVE  BaseInv'
<1> USE Numbers DEF BaseInv, store, local, group, used
<1>t. TypeOK'
  BY Zenon, GotoType, LabelFacts DEF CommitRecord, Goto, TypeOK
<1>h. HandInv'
  BY Zenon, LabelFacts DEF CommitRecord, Goto, TypeOK, HandInv, Payment
<1>c. ChargeInv'
  BY Zenon DEF CommitRecord, Goto, TypeOK, HandInv, ChargeInv, CompletedIsCharged, Payment
<1> QED BY Zenon, <1>t, <1>h, <1>c

\* A call without effect only moves the process to the next record.
LEMMA CallFailsBase ==
    ASSUME BaseInv, NEW c \in Procs, CallFails(c)
    PROVE  BaseInv'
<1> USE Numbers DEF BaseInv, store, local, group, used
<1>r. /\ pc' \in [Procs -> Labels]
     /\ crashes' \in Nat /\ errors' \in Nat /\ moves' \in Nat
     /\ \E m \in {"poll"} : pc' = [pc EXCEPT ![c] = m]
  BY Zenon, ReturnsTo, LabelFacts DEF CallFails, Returns
<1>t. TypeOK'
  BY Zenon, <1>r DEF CallFails, TypeOK
<1>h. HandInv'
  <2>1. UNCHANGED <<rec, last, try>>
    BY Zenon DEF CallFails
  <2>2. \A d \in Procs : pc'[d] = pc[d] \/ pc'[d] = "poll"
    BY Zenon, <1>r DEF TypeOK
  <2> QED BY Zenon, <2>1, <2>2, LabelFacts DEF HandInv, Payment
<1>c. ChargeInv'
  BY Zenon, <1>r DEF CallFails, TypeOK, ChargeInv, CompletedIsCharged, Payment
<1> QED BY Zenon, <1>t, <1>h, <1>c

\* The broker's assignment does not touch what processes have in hand.
LEMMA AssignBase ==
    ASSUME BaseInv, NEW c \in Procs, Assign(c)
    PROVE  BaseInv'
<1> USE Numbers DEF BaseInv, store, local, group, used
<1>t. TypeOK'
  <2>1. moves' \in Nat
    BY DEF Assign, TypeOK
  <2>2. fetch' \in [Procs -> 0..Len(Commands)]
    BY Zenon DEF Assign, TypeOK
  <2> QED BY Zenon, <2>1, <2>2 DEF Assign, TypeOK
<1>h. HandInv'
  BY Zenon, LabelFacts DEF Assign, TypeOK, HandInv, Payment
<1>c. ChargeInv'
  BY Zenon DEF Assign, TypeOK, HandInv, ChargeInv, CompletedIsCharged, Payment
<1> QED BY Zenon, <1>t, <1>h, <1>c

\* A crashed process has nothing in hand.
LEMMA CrashBase ==
    ASSUME BaseInv, NEW c \in Procs, Crash(c)
    PROVE  BaseInv'
<1> USE Numbers DEF BaseInv, store, local, group, used
<1>t. TypeOK'
  <2>1. pc' \in [Procs -> Labels]
    BY Zenon, GotoType, LabelFacts DEF Crash
  <2>2. rec' \in [Procs -> 0..Len(Commands)] /\ last' \in [Procs -> 0..Len(Commands)]
    BY DEF Crash, TypeOK
  <2> QED BY SMTT(60), <2>1, <2>2 DEF Crash, TypeOK
<1>h. HandInv'
  BY SMTT(60), LabelFacts DEF Crash, Goto, TypeOK, HandInv, Payment
<1>c. ChargeInv'
  BY Zenon DEF Crash, Goto, TypeOK, HandInv, ChargeInv, CompletedIsCharged, Payment
<1> QED BY Zenon, <1>t, <1>h, <1>c

\* A restarted process has nothing in hand.
LEMMA StartBase ==
    ASSUME BaseInv, NEW c \in Procs, Start(c)
    PROVE  BaseInv'
<1> USE Numbers DEF BaseInv, store, local, group, used
<1>t. TypeOK'
  BY Zenon, GotoType, LabelFacts DEF Start, Goto, TypeOK
<1>h. HandInv'
  BY Zenon, LabelFacts DEF Start, Goto, TypeOK, HandInv, Payment
<1>c. ChargeInv'
  BY Zenon DEF Start, Goto, TypeOK, HandInv, ChargeInv, CompletedIsCharged, Payment
<1> QED BY Zenon, <1>t, <1>h, <1>c

\* Every step of a process, the broker or a fault preserves the base invariant.
LEMMA NextBase == BaseInv /\ [Next]_vars => BaseInv'
<1> SUFFICES ASSUME BaseInv, [Next]_vars PROVE BaseInv'
  BY Zenon
<1>1. CASE UNCHANGED vars
  BY Zenon, <1>1 DEF vars, store, local, group, used, BaseInv, TypeOK, HandInv, ChargeInv,
              CompletedIsCharged, Payment
<1>2. ASSUME NEW c \in Procs,
             Handle(c) \/ CallFails(c) \/ Assign(c) \/ Crash(c) \/ Start(c)
      PROVE  BaseInv'
  BY Zenon, <1>2, PollFetchesBase, HandleRecordBase, CreatePendingBase, MarkAttemptStartedBase, ChargeBase, MarkCompletedBase, MarkFailedBase, PublishBase, CommitRecordBase, CallFailsBase, AssignBase, CrashBase, StartBase DEF Handle
<1> QED BY Zenon, <1>1, <1>2 DEF Next

\* However processes overlap on a payment, crash or lose the store's answers,
\* payment.completed is published only for a payment the rail has charged.
THEOREM CompletedMeansCharged == Spec => []CompletedIsCharged
<1>1. BaseInv => CompletedIsCharged
  BY Zenon DEF BaseInv, ChargeInv
<1> QED BY InitBase, NextBase, <1>1, PTL DEF Spec

-----------------------------------------------------------------------------
(* The offset, when no call of the store fails.                            *)

\* A published result stays in the outbox.
LEMMA DoneStays ==
    ASSUME published \subseteq published', NEW i, Done(i)
    PROVE  Done(i)'
BY Zenon DEF Done, Answered

\* A call that does not fail returns to its continuation.
LEMMA ReturnsOnly ==
    ASSUME OffsetInv, NEW c \in Procs, NEW l, Returns(c, l), errors' = 0
    PROVE  pc' = [pc EXCEPT ![c] = l]
BY DEF OffsetInv, Returns, Skip, Goto, used

\* A step within the handling of a command keeps the offset safe, if the command
\* is done where it is about to be committed.
LEMMA OffsetKept ==
    ASSUME BaseInv, OffsetInv, NEW c \in Procs, pc[c] \in Handling,
           NEW m \in Handling, pc' = [pc EXCEPT ![c] = m], errors' = 0,
           published \subseteq published', UNCHANGED <<rec, last, fetch, group>>,
           m = "commit" => Done(rec[c])'
    PROVE  OffsetInv'
<1>1. \A i \in 1..Len(Commands) : Done(i) => Done(i)'
  BY Zenon, DoneStays
<1>2. \A i \in 1..committed' : Done(i)'
  BY <1>1 DEF OffsetInv, BaseInv, TypeOK, group
<1>3. ASSUME NEW d \in Procs, NEW i \in 1..Len(Commands)
      PROVE  /\ i < rec'[d] => Done(i)'
             /\ i = rec'[d] /\ pc'[d] \in {"poll", "commit", "down"} => Done(i)'
             /\ assigned' = d /\ i <= fetch'[d] => Done(i)' \/ i \in rec'[d]..last'[d]
  <2>1. i < rec'[d] => Done(i)'
    BY Zenon, <1>1 DEF OffsetInv
  <2>2. assigned' = d /\ i <= fetch'[d] => Done(i)' \/ i \in rec'[d]..last'[d]
    BY Zenon, <1>1 DEF OffsetInv, group
  <2>3. ASSUME i = rec'[d], pc'[d] \in {"poll", "commit", "down"} PROVE Done(i)'
    <3>1. CASE d = c
      <4>1. pc'[d] = m
        BY Zenon, <3>1 DEF BaseInv, TypeOK
      <4>2. m = "commit" /\ i = rec[c]
        BY Zenon, <2>3, <3>1, <4>1, LabelFacts
      <4> QED BY Zenon, <4>2
    <3>2. CASE d # c
      BY Zenon, <1>1, <2>3, <3>2 DEF OffsetInv, BaseInv, TypeOK
    <3> QED BY Zenon, <3>1, <3>2
  <2> QED BY Zenon, <2>1, <2>2, <2>3
<1> QED BY Zenon, <1>2, <1>3 DEF OffsetInv

\* Handling a command: it is committed only once its result is published.
LEMMA HandlingOffset ==
    ASSUME BaseInv, OffsetInv, NEW c \in Procs, errors' = 0,
           \/ CreatePending(c) \/ MarkAttemptStarted(c) \/ Charge(c)
           \/ MarkCompleted(c) \/ MarkFailed(c) \/ Publish(c)
    PROVE  OffsetInv'
<1> USE LabelFacts DEF local, group, used
<1>1. CASE CreatePending(c)
  <2>1. PICK m \in {"start", "publish"} : Returns(c, m)
    BY Zenon, <1>1 DEF CreatePending
  <2> QED BY <1>1, <2>1, ReturnsOnly, OffsetKept DEF CreatePending
<1>2. CASE MarkAttemptStarted(c)
  BY <1>2, ReturnsOnly, OffsetKept DEF MarkAttemptStarted
<1>3. CASE Charge(c)
  <2>1. PICK m \in {"mark_completed", "mark_failed", "start"} : pc' = [pc EXCEPT ![c] = m]
    BY Zenon, <1>3 DEF Charge, Goto
  <2>2. errors' = 0 /\ UNCHANGED <<published, rec, last, fetch, group>>
    BY Zenon, <1>3 DEF Charge, OffsetInv
  <2>3. pc[c] = "charge"
    BY Zenon, <1>3 DEF Charge
  <2> QED BY Zenon, <2>1, <2>2, <2>3, OffsetKept
<1>4. CASE MarkCompleted(c)
  BY <1>4, ReturnsOnly, OffsetKept DEF MarkCompleted, Mark
<1>5. CASE MarkFailed(c)
  BY <1>5, ReturnsOnly, OffsetKept DEF MarkFailed, Mark
<1>6. CASE Publish(c)
  <2>1. pc' = [pc EXCEPT ![c] = "commit"]
    BY Zenon, <1>6, ReturnsOnly DEF Publish
  <2>2. <<topic[c], Payment(c)>> \in published' /\ topic[c] \in Topics
    BY Zenon, <1>6 DEF Publish, BaseInv, TypeOK
  <2>3. Done(rec[c])'
    BY Zenon, <1>6, <2>2 DEF Done, Answered, Payment, Publish
  <2> QED BY Zenon, <1>6, <2>1, <2>3, OffsetKept DEF Publish
<1> QED BY Zenon, <1>1, <1>2, <1>3, <1>4, <1>5, <1>6

\* Fetching, taking and committing records, and the steps of the broker.
LEMMA GroupOffset ==
    ASSUME BaseInv, OffsetInv, NEW c \in Procs, errors' = 0,
           \/ PollFetches(c) \/ HandleRecord(c) \/ CommitRecord(c)
           \/ Assign(c) \/ Crash(c) \/ Start(c)
    PROVE  OffsetInv'
<1> USE Numbers, LabelFacts DEF store, local, group, used, BaseInv
<1>0. \A i : Done(i) => Done(i)'
  <2>1. published' = published
    BY Zenon DEF PollFetches, HandleRecord, CommitRecord, Assign, Crash, Start
  <2> QED BY Zenon, <2>1, DoneStays
<1>1. CASE PollFetches(c)
  BY SMTT(60), <1>0, <1>1 DEF PollFetches, OffsetInv, TypeOK
<1>2. CASE HandleRecord(c)
  <2>1. /\ rec' = [rec EXCEPT ![c] = @ + 1] /\ rec[c] < last[c]
        /\ UNCHANGED <<last, fetch, assigned, committed>>
    BY Zenon, <1>2 DEF HandleRecord
  <2>2. errors' = 0 /\ pc[c] = "poll"
    BY Zenon, <1>2 DEF HandleRecord, OffsetInv
  <2>3. /\ \A d \in Procs : d # c => pc'[d] = pc[d]
        /\ pc'[c] # "create" => Commands[rec[c] + 1] \notin Payments
    BY Zenon, <1>2 DEF HandleRecord, Valid, Goto, TypeOK
  <2>4. rec' \in [Procs -> Nat] /\ rec'[c] = rec[c] + 1
        /\ \A d \in Procs : d # c => rec'[d] = rec[d]
    BY SMTT(60), <2>1 DEF TypeOK
  <2>6. \A i \in 1..committed' : Done(i)'
    BY Zenon, <1>0, <2>1 DEF OffsetInv
  <2>7. ASSUME NEW i \in 1..Len(Commands)
        PROVE  /\ i < rec[c] + 1 => i < rec[c] \/ i = rec[c]
               /\ i \in rec[c]..last[c] => i = rec[c] \/ i \in (rec[c] + 1)..last[c]
    BY DEF TypeOK
  <2>8. ASSUME NEW d \in Procs, NEW i \in 1..Len(Commands)
        PROVE  /\ i < rec'[d] => Done(i)'
               /\ i = rec'[d] /\ pc'[d] \in {"poll", "commit", "down"} => Done(i)'
               /\ assigned' = d /\ i <= fetch'[d] => Done(i)' \/ i \in rec'[d]..last'[d]
    <3>1. CASE d = c
      <4>1. i = rec[c] => Done(i)'
        BY Zenon, <1>0, <2>2 DEF OffsetInv
      <4>2. i = rec[c] + 1 /\ pc'[c] \in {"poll", "commit", "down"} => Done(i)'
        BY Zenon, <2>3 DEF Done
      <4>3. i < rec[c] => Done(i)'
        BY Zenon, <1>0 DEF OffsetInv
      <4>4. assigned = c /\ i <= fetch[c] => Done(i)' \/ i \in rec[c]..last[c]
        BY Zenon, <1>0 DEF OffsetInv
      <4> QED BY Zenon, <2>1, <2>4, <2>7, <3>1, <4>1, <4>2, <4>3, <4>4
    <3>2. CASE d # c
      BY Zenon, <1>0, <2>1, <2>3, <2>4, <3>2 DEF OffsetInv
    <3> QED BY Zenon, <3>1, <3>2
  <2> QED BY Zenon, <2>2, <2>6, <2>8 DEF OffsetInv
<1>3. CASE CommitRecord(c)
  <2>1. \A i \in 1..rec[c] : Done(i)'
    BY SMTT(60), <1>0, <1>3 DEF CommitRecord, OffsetInv, TypeOK
  <2>2. \A i \in 1..committed' : Done(i)'
    BY Zenon, <1>0, <1>3, <2>1 DEF CommitRecord, OffsetInv, TypeOK
  <2> QED BY Zenon, <1>0, <1>3, <2>2 DEF CommitRecord, Goto, OffsetInv, TypeOK
<1>4. CASE Assign(c)
  BY SMTT(60), <1>0, <1>4 DEF Assign, OffsetInv, TypeOK
<1>5. CASE Crash(c)
  <2>1. assigned' # c /\ (assigned' = "nobody" \/ assigned' = assigned)
    BY Zenon, <1>5, ProcessorAssumption DEF Crash
  <2>2. \A i \in 1..committed' : Done(i)'
    BY Zenon, <1>0, <1>5 DEF Crash, OffsetInv
  <2>3. rec'[c] = 0 /\ \A d \in Procs : d # c =>
           UNCHANGED <<rec[d], last[d], fetch[d], pc[d]>>
    BY Zenon, <1>5 DEF Crash, Goto, TypeOK
  <2>4. "nobody" \notin Procs
    BY Zenon, ProcessorAssumption
  <2> QED BY <1>0, <1>5, <2>1, <2>2, <2>3, <2>4 DEF Crash, OffsetInv
<1>6. CASE Start(c)
  BY Zenon, <1>0, <1>6 DEF Start, Goto, OffsetInv, TypeOK
<1> QED BY Zenon, <1>1, <1>2, <1>3, <1>4, <1>5, <1>6

\* A failure stays counted.
LEMMA ErrorsStay == BaseInv /\ [Next]_vars /\ errors' = 0 => errors = 0
<1> SUFFICES ASSUME BaseInv, [Next]_vars, errors' = 0 PROVE errors = 0
  OBVIOUS
<1> USE DEF used
<1>0. errors \in Nat
  BY Zenon DEF BaseInv, TypeOK
<1>1. CASE UNCHANGED vars
  BY Zenon, <1>1 DEF vars
<1>2. ASSUME NEW c \in Procs, NEW l, Returns(c, l) PROVE errors = 0
  BY <1>0, <1>2 DEF Returns, Skip
<1>3. ASSUME NEW c \in Procs, CallFails(c) PROVE errors = 0
  BY <1>0, <1>3 DEF CallFails, Skip
<1>4. ASSUME NEW c \in Procs,
             CreatePending(c) \/ MarkAttemptStarted(c) \/ MarkCompleted(c)
                \/ MarkFailed(c) \/ Publish(c)
      PROVE  errors = 0
  BY Zenon, <1>2, <1>4 DEF CreatePending, MarkAttemptStarted, MarkCompleted, MarkFailed, Mark,
                    Publish
<1>5. ASSUME NEW c \in Procs,
             PollFetches(c) \/ HandleRecord(c) \/ Charge(c) \/ CommitRecord(c)
                \/ Assign(c) \/ Crash(c) \/ Start(c)
      PROVE  errors = 0
  BY Zenon, <1>5 DEF PollFetches, HandleRecord, Charge, CommitRecord, Assign, Crash, Start
<1> QED BY Zenon, <1>1, <1>3, <1>4, <1>5 DEF Next, Handle

\* Every step preserves the safety of the offset.
LEMMA NextOffset == ProcessorInv /\ [Next]_vars => ProcessorInv'
<1> SUFFICES ASSUME ProcessorInv, [Next]_vars, errors' = 0 PROVE OffsetInv'
  BY Zenon, NextBase DEF ProcessorInv
<1>0. BaseInv /\ OffsetInv
  BY Zenon, ErrorsStay DEF ProcessorInv
<1>1. CASE UNCHANGED vars
  BY Zenon, <1>0, <1>1 DEF vars, store, local, group, used, OffsetInv, Done, Answered
<1>2. ASSUME NEW c \in Procs, CallFails(c) PROVE FALSE
  BY <1>0, <1>2 DEF CallFails, Skip, OffsetInv
<1>3. ASSUME NEW c \in Procs,
             Handle(c) \/ Assign(c) \/ Crash(c) \/ Start(c)
      PROVE  OffsetInv'
  BY Zenon, <1>0, <1>3, HandlingOffset, GroupOffset DEF Handle
<1> QED BY Zenon, <1>1, <1>2, <1>3 DEF Next

\* As long as no store call has failed, any number of crashes and rebalances
\* leaves every command the group's offset has passed with a published result.
THEOREM OffsetIsSafe == Spec => []CommitOnlyIfPublished
<1>1. Init => ProcessorInv
  <2>1. Init => OffsetInv
    BY Numbers, ProcessorAssumption DEF Init, OffsetInv
  <2> QED BY Zenon, <2>1, InitBase DEF ProcessorInv
<1>2. ProcessorInv => CommitOnlyIfPublished
  BY Zenon DEF ProcessorInv, OffsetInv, CommitOnlyIfPublished, OffsetBehindResults, Done
<1> QED BY <1>1, <1>2, NextOffset, PTL DEF Spec

-----------------------------------------------------------------------------
(* One process at a time: the partition is never taken from a live one.    *)

\* The labels of a pursuit, and publish, are labels of a handling.
LEMMA PursuingFacts ==
    /\ \A l \in Pursuing : l \in Handling /\ l # "commit" /\ l # "publish"
    /\ "create" \notin Pursuing /\ "publish" \notin Pursuing /\ "commit" \notin Pursuing
    /\ "poll" \notin Pursuing /\ "down" \notin Pursuing
    /\ "start" \in Pursuing /\ "charge" \in Pursuing
    /\ "mark_completed" \in Pursuing /\ "mark_failed" \in Pursuing
BY Zenon DEF Pursuing, Handling

\* While one process handles a record no other does.
LEMMA OthersRest ==
    ASSUME SoleInv, NEW c \in Procs, pc[c] \in Handling, NEW d \in Procs, d # c
    PROVE  pc[d] \notin Handling
BY Zenon DEF SoleInv

\* A step of a handling leaves the partition and the fetched records alone.
LEMMA SoleKept ==
    ASSUME TypeOK, SoleInv, NEW c \in Procs, pc[c] \in Handling, NEW m,
           pc' = [pc EXCEPT ![c] = m], UNCHANGED <<rec, last, assigned>>
    PROVE  SoleInv'
<1> SUFFICES ASSUME NEW d \in Procs, pc'[d] \in Handling \/ rec'[d] < last'[d]
             PROVE  assigned' = d
  BY Zenon DEF SoleInv
<1>1. CASE d = c
  BY Zenon, <1>1 DEF SoleInv
<1>2. CASE d # c
  <2>1. pc'[d] = pc[d]
    BY Zenon, <1>2 DEF TypeOK
  <2> QED BY Zenon, <2>1 DEF SoleInv
<1> QED BY Zenon, <1>1, <1>2

\* Only the process that moves may be at a label RowInv or CountInv speaks of.
LEMMA OnlyMover ==
    ASSUME TypeOK, SoleInv, NEW c \in Procs, pc[c] \in Handling, NEW m,
           pc' = [pc EXCEPT ![c] = m],
           NEW d \in Procs, pc'[d] \in Pursuing \cup {"publish"}
    PROVE  d = c /\ pc'[d] = m
<1>1. pc'[d] \in Handling
  BY Zenon, PursuingFacts, LabelFacts
<1>2. d # c => pc'[d] = pc[d]
  BY Zenon DEF TypeOK
<1>3. d = c
  BY Zenon, <1>1, <1>2, OthersRest
<1> QED BY Zenon, <1>3 DEF TypeOK

\* What a step of a handling owes to RowInv: its own row, and what it publishes.
LEMMA RowKept ==
    ASSUME TypeOK, SoleInv, NEW c \in Procs, pc[c] \in Handling, NEW m,
           pc' = [pc EXCEPT ![c] = m], rec' = rec,
           m \in Pursuing => attempt'[Payment(c)].status = "PENDING",
           m = "publish" =>
              \/ topic'[c] = "payment.completed" /\ attempt'[Payment(c)].status = "COMPLETED"
              \/ topic'[c] = "payment.failed" /\ attempt'[Payment(c)].status = "FAILED",
           \A p \in Payments :
              /\ <<"payment.completed", p>> \in published' => attempt'[p].status = "COMPLETED"
              /\ <<"payment.failed", p>> \in published' => attempt'[p].status = "FAILED"
    PROVE  RowInv'
<1> SUFFICES ASSUME NEW d \in Procs
             PROVE  /\ pc'[d] \in Pursuing => StatusOf(d)' = "PENDING"
                    /\ pc'[d] = "publish" =>
                          \/ topic'[d] = "payment.completed" /\ StatusOf(d)' = "COMPLETED"
                          \/ topic'[d] = "payment.failed" /\ StatusOf(d)' = "FAILED"
  BY Zenon DEF RowInv
<1>1. Payment(d)' = Payment(d) /\ StatusOf(d)' = attempt'[Payment(d)].status
  BY Zenon DEF Payment, StatusOf
<1>2. pc'[d] \in Pursuing \cup {"publish"} => d = c /\ pc'[d] = m
  BY Zenon, OnlyMover
<1> QED BY Zenon, <1>1, <1>2

\* The bounds of a payment that is not called stay: cut handlings are never uncounted.
LEMMA SpentDrops ==
    ASSUME TypeOK, TypeOK', NEW q \in Payments, calls'[q] = calls[q],
           crashes' + errors' >= crashes + errors
    PROVE  /\ Spent(q) < attempt[q].count => Spent(q)' < attempt[q].count
           /\ Spent(q) <= MaxAttempts => Spent(q)' <= MaxAttempts
<1>1. calls[q] \in Nat /\ attempt[q].count \in Nat
  BY Numbers DEF TypeOK, Rows
<1>2. crashes \in Nat /\ errors \in Nat /\ crashes' \in Nat /\ errors' \in Nat
  BY Zenon DEF TypeOK
<1>3. \A k, n, a, b \in Nat : b >= a =>
         (k - a < n => k - b < n) /\ (k - a <= n => k - b <= n)
  OBVIOUS
<1>4. \A a, b \in Nat : a + b \in Nat
  OBVIOUS
<1> QED BY Zenon, <1>1, <1>2, <1>3, <1>4, Numbers DEF Spent

\* What it owes to CountInv: the count and the calls of its own payment.
CountStep(c, p, m) ==
    /\ pc[c] \in Handling /\ p = Payment(c)
    /\ pc' = [pc EXCEPT ![c] = m] /\ rec' = rec
    /\ crashes' + errors' >= crashes + errors
    /\ \A q \in Payments : q # p => attempt'[q] = attempt[q] /\ calls'[q] = calls[q]
    /\ attempt'[p].status # "none"
    /\ attempt'[p].status = "PENDING" /\ m \notin Pursuing => Spent(p)' < attempt'[p].count
    /\ attempt'[p].status \in {"COMPLETED", "FAILED"} => Spent(p)' <= MaxAttempts
    /\ m = "start" => Spent(p)' < try'[c] /\ try'[c] <= attempt'[p].count + 1
    /\ m = "charge" => Spent(p)' < try'[c] /\ attempt'[p].count = try'[c]
    /\ m \in {"mark_completed", "mark_failed"} =>
          Spent(p)' <= try'[c] /\ attempt'[p].count = try'[c]

\* That is all: the other payments keep their bounds.
LEMMA CountKept ==
    ASSUME TypeOK, TypeOK', SoleInv, CountInv,
           NEW c \in Procs, NEW p \in Payments, NEW m, CountStep(c, p, m)
    PROVE  CountInv'
<1> USE DEF CountStep
<1>1. ASSUME NEW q \in Payments
      PROVE  /\ attempt'[q].status = "none" => attempt'[q].count = 0 /\ calls'[q] = 0
             /\ attempt'[q].status = "PENDING" /\ Idle(q)' => Spent(q)' < attempt'[q].count
             /\ attempt'[q].status \in {"COMPLETED", "FAILED"} => Spent(q)' <= MaxAttempts
  <2>1. CASE q = p
    <3>1. Idle(p)' => m \notin Pursuing
      BY Zenon DEF Idle, Payment, TypeOK
    <3> QED BY Zenon, <2>1, <3>1
  <2>2. CASE q # p
    <3>1. Idle(q)
      <4> SUFFICES ASSUME NEW d \in Procs, pc[d] \in Pursuing PROVE Payment(d) # q
        BY Zenon DEF Idle
      <4>1. d = c
        BY Zenon, OthersRest, PursuingFacts
      <4> QED BY Zenon, <2>2, <4>1
    <3>4. /\ attempt[q].status = "none" => attempt[q].count = 0 /\ calls[q] = 0
          /\ attempt[q].status = "PENDING" => Spent(q) < attempt[q].count
          /\ attempt[q].status \in {"COMPLETED", "FAILED"} => Spent(q) <= MaxAttempts
      BY Zenon, <3>1 DEF CountInv
    <3>5. attempt'[q] = attempt[q] /\ calls'[q] = calls[q]
      BY Zenon, <2>2
    <3>6. /\ Spent(q) < attempt[q].count => Spent(q)' < attempt[q].count
          /\ Spent(q) <= MaxAttempts => Spent(q)' <= MaxAttempts
      BY Zenon, <3>5, SpentDrops
    <3> QED BY Zenon, <3>4, <3>5, <3>6
  <2> QED BY Zenon, <2>1, <2>2
<1>2. ASSUME NEW d \in Procs, NEW q \in Payments, q = Payment(d)'
      PROVE  /\ pc'[d] = "start" => Spent(q)' < try'[d] /\ try'[d] <= attempt'[q].count + 1
             /\ pc'[d] = "charge" => Spent(q)' < try'[d] /\ attempt'[q].count = try'[d]
             /\ pc'[d] \in {"mark_completed", "mark_failed"} =>
                   Spent(q)' <= try'[d] /\ attempt'[q].count = try'[d]
  <2>1. q = Payment(d)
    BY Zenon, <1>2 DEF Payment
  <2>2. pc'[d] \in Pursuing => d = c /\ pc'[d] = m
    BY Zenon, OnlyMover
  <2>3. pc'[d] \in Pursuing => q = p
    BY Zenon, <2>1, <2>2
  <2> QED BY Zenon, <2>2, <2>3, PursuingFacts
<1> QED BY Zenon, <1>1, <1>2 DEF CountInv

\* Between two handlings nothing changes for RowInv and CountInv.
LEMMA QuietSingle ==
    ASSUME RowInv, CountInv,
           UNCHANGED <<attempt, published, calls, crashes, errors, try, topic>>,
           \A d \in Procs :
              /\ pc'[d] \in Pursuing \cup {"publish"} => pc'[d] = pc[d] /\ rec'[d] = rec[d]
              /\ pc[d] \in Pursuing => pc'[d] = pc[d] /\ rec'[d] = rec[d]
    PROVE  RowInv' /\ CountInv'
<1>0. \A d \in Procs : pc'[d] \in Pursuing \cup {"publish"} =>
         pc'[d] = pc[d] /\ StatusOf(d)' = StatusOf(d)
  BY Zenon DEF StatusOf, Payment
<1>1. RowInv'
  BY Zenon, <1>0 DEF RowInv
<1>2. \A p \in Payments : Idle(p)' => Idle(p)
  BY Zenon DEF Idle, Payment
<1>3. \A d \in Procs : pc'[d] \in Pursuing => pc[d] = pc'[d] /\ Payment(d)' = Payment(d)
  BY Zenon DEF Payment
<1>4. \A p \in Payments : Spent(p)' = Spent(p)
  BY Zenon DEF Spent
<1>5. ASSUME NEW p \in Payments
      PROVE  /\ attempt'[p].status = "none" => attempt'[p].count = 0 /\ calls'[p] = 0
             /\ attempt'[p].status = "PENDING" /\ Idle(p)' => Spent(p)' < attempt'[p].count
             /\ attempt'[p].status \in {"COMPLETED", "FAILED"} => Spent(p)' <= MaxAttempts
  BY Zenon, <1>2, <1>4 DEF CountInv
<1>6. ASSUME NEW d \in Procs, NEW p \in Payments, p = Payment(d)'
      PROVE  /\ pc'[d] = "start" => Spent(p)' < try'[d] /\ try'[d] <= attempt'[p].count + 1
             /\ pc'[d] = "charge" => Spent(p)' < try'[d] /\ attempt'[p].count = try'[d]
             /\ pc'[d] \in {"mark_completed", "mark_failed"} =>
                   Spent(p)' <= try'[d] /\ attempt'[p].count = try'[d]
  <2>1. CASE pc'[d] \in Pursuing
    <3>1. pc[d] = pc'[d] /\ p = Payment(d)
      BY Zenon, <1>3, <1>6, <2>1
    <3> QED BY Zenon, <1>4, <2>1, <3>1 DEF CountInv
  <2> QED BY Zenon, <2>1, PursuingFacts
<1>7. CountInv'
  BY Zenon, <1>5, <1>6 DEF CountInv
<1> QED BY Zenon, <1>1, <1>7

\* Fetching, taking and committing records, restarts, and the broker's first choice.
LEMMA GroupSingle ==
    ASSUME TypeOK, HandInv, SoleInv, RowInv, CountInv, NEW c \in Procs, moves' = 0,
           \/ PollFetches(c) \/ HandleRecord(c) \/ CommitRecord(c)
           \/ Assign(c) \/ Start(c)
    PROVE  SoleInv' /\ RowInv' /\ CountInv'
<1> USE DEF store, local, group, used
<1>0. UNCHANGED <<attempt, published, calls, crashes, errors, try, topic>>
  BY Zenon DEF PollFetches, HandleRecord, CommitRecord, Assign, Start
<1>1. \A d \in Procs :
         /\ pc'[d] \in Pursuing \cup {"publish"} => pc'[d] = pc[d] /\ rec'[d] = rec[d]
         /\ pc[d] \in Pursuing => pc'[d] = pc[d] /\ rec'[d] = rec[d]
  <2> SUFFICES ASSUME NEW d \in Procs
               PROVE  /\ pc'[d] \in Pursuing \cup {"publish"} =>
                            pc'[d] = pc[d] /\ rec'[d] = rec[d]
                      /\ pc[d] \in Pursuing => pc'[d] = pc[d] /\ rec'[d] = rec[d]
    OBVIOUS
  <2>1. CASE d = c
    BY <2>1, PursuingFacts
       DEF PollFetches, HandleRecord, CommitRecord, Assign, Start, Goto, TypeOK
  <2>2. CASE d # c
    BY Zenon, <2>2 DEF PollFetches, HandleRecord, CommitRecord, Assign, Start, Goto, TypeOK
  <2> QED BY Zenon, <2>1, <2>2
<1>2. SoleInv'
  <2>1. CASE PollFetches(c)
    BY Zenon, <2>1 DEF PollFetches, SoleInv, TypeOK
  <2>2. CASE HandleRecord(c)
    <3>1. assigned = c /\ assigned' = assigned /\ last' = last
      BY Zenon, <2>2 DEF HandleRecord, SoleInv
    <3>2. \A d \in Procs : d # c => pc'[d] = pc[d] /\ rec'[d] = rec[d]
      BY Zenon, <2>2 DEF HandleRecord, Goto, TypeOK
    <3> QED BY Zenon, <3>1, <3>2 DEF SoleInv
  <2>3. CASE CommitRecord(c)
    BY Zenon, <2>3, SoleKept, LabelFacts DEF CommitRecord, Goto
  <2>4. CASE Assign(c)
    <3>0. moves \in Nat /\ \A n \in Nat : n + 1 # 0
      BY DEF TypeOK
    <3>1. assigned = "nobody" /\ pc' = pc /\ rec' = rec /\ last' = last
      BY Zenon, <2>4, <3>0 DEF Assign
    <3> QED BY Zenon, <3>1, ProcessorAssumption DEF SoleInv
  <2>5. CASE Start(c)
    <3>1. /\ \A d \in Procs : d # c => pc'[d] = pc[d]
          /\ pc'[c] = "poll" /\ rec' = rec /\ last' = last /\ assigned' = assigned
      BY Zenon, <2>5 DEF Start, Goto, TypeOK
    <3> QED BY Zenon, <3>1, LabelFacts DEF SoleInv
  <2> QED BY Zenon, <2>1, <2>2, <2>3, <2>4, <2>5
<1> QED BY Zenon, <1>0, <1>1, <1>2, QuietSingle

\* A call returns to its continuation, or Run counts a failure and goes on.
LEMMA ReturnsCounted ==
    ASSUME NEW c \in Procs, NEW l, Returns(c, l)
    PROVE  \E m \in {l, "poll"} :
              /\ pc' = [pc EXCEPT ![c] = m]
              /\ \/ m = l /\ UNCHANGED used
                 \/ m = "poll" /\ errors' = errors + 1 /\ UNCHANGED <<crashes, moves>>
BY Zenon DEF Returns, Skip, Goto

\* How a step changes what is spent on a payment.
LEMMA SpentChange ==
    ASSUME TypeOK, NEW p \in Payments
    PROVE  /\ Spent(p) \in Int
           /\ calls'[p] = calls[p] /\ UNCHANGED used => Spent(p)' = Spent(p)
           /\ calls'[p] = calls[p] + 1 /\ UNCHANGED used => Spent(p)' = Spent(p) + 1
           /\ calls'[p] = calls[p] /\ errors' = errors + 1 /\ crashes' = crashes =>
                 Spent(p)' = Spent(p) - 1
           /\ calls'[p] = calls[p] /\ errors' = errors /\ crashes' = crashes + 1 =>
                 Spent(p)' = Spent(p) - 1
<1>1. calls[p] \in Nat /\ crashes \in Nat /\ errors \in Nat
  BY Zenon DEF TypeOK
<1>2. /\ calls[p] - (crashes + errors) \in Int
      /\ (calls[p] + 1) - (crashes + errors) = (calls[p] - (crashes + errors)) + 1
      /\ calls[p] - (crashes + (errors + 1)) = (calls[p] - (crashes + errors)) - 1
      /\ calls[p] - ((crashes + 1) + errors) = (calls[p] - (crashes + errors)) - 1
  BY <1>1
<1> QED BY Zenon, <1>2 DEF Spent, used

\* Cut handlings are never uncounted.
LEMMA CutsGrow ==
    ASSUME TypeOK,
           \/ UNCHANGED used
           \/ errors' = errors + 1 /\ crashes' = crashes
           \/ errors' = errors /\ crashes' = crashes + 1
    PROVE  crashes' + errors' >= crashes + errors
<1>1. crashes \in Nat /\ errors \in Nat
  BY Zenon DEF TypeOK
<1>2. \A a, b \in Nat : a + b >= a + b /\ a + (b + 1) >= a + b /\ (a + 1) + b >= a + b
  OBVIOUS
<1> QED BY Zenon, <1>1, <1>2 DEF used

\* The first attempt of a row that is within its bound.
LEMMA FirstAttemptSpends ==
    ASSUME NEW x \in Int, NEW n \in 0..MaxAttempts, x < n \/ (n = 0 /\ x <= 0)
    PROVE  x < FirstAttempt(n) /\ FirstAttempt(n) <= n + 1 /\ x - 1 < n
BY Numbers DEF FirstAttempt

\* CountInv of one payment.
LEMMA CountOf ==
    ASSUME CountInv, NEW p \in Payments
    PROVE  /\ attempt[p].status = "none" => attempt[p].count = 0 /\ calls[p] = 0
           /\ attempt[p].status = "PENDING" /\ Idle(p) => Spent(p) < attempt[p].count
           /\ attempt[p].status \in {"COMPLETED", "FAILED"} => Spent(p) <= MaxAttempts
BY Zenon DEF CountInv

\* CountInv of the payment a process is at.
LEMMA CountAt ==
    ASSUME CountInv, NEW c \in Procs, NEW p \in Payments, p = Payment(c)
    PROVE  /\ pc[c] = "start" => Spent(p) < try[c] /\ try[c] <= attempt[p].count + 1
           /\ pc[c] = "charge" => Spent(p) < try[c] /\ attempt[p].count = try[c]
           /\ pc[c] \in {"mark_completed", "mark_failed"} =>
                 Spent(p) <= try[c] /\ attempt[p].count = try[c]
BY Zenon, PursuingFacts DEF CountInv

\* HandleExecute takes up a PENDING row where it was left, and repeats the result
\* of a settled one.
LEMMA CreatePendingSingle ==
    ASSUME BaseInv, BaseInv', SoleInv, RowInv, CountInv, NEW c \in Procs, CreatePending(c)
    PROVE  SoleInv' /\ RowInv' /\ CountInv'
<1>1. TypeOK /\ TypeOK' /\ HandInv
  BY Zenon DEF BaseInv
<1>2. pc[c] = "create" /\ pc[c] \in Handling
  BY Zenon, LabelFacts DEF CreatePending
<1>3. PICK p \in Payments : p = Payment(c)
  BY Zenon, <1>2, <1>1 DEF HandInv
<1>4. PICK row \in Rows : row = Pending(attempt[p])
  BY Zenon, <1>1, PendingRow DEF TypeOK
<1>5. /\ attempt' = [attempt EXCEPT ![p] = row]
      /\ try' = [try EXCEPT ![c] = FirstAttempt(row.count)]
      /\ topic' = [topic EXCEPT ![c] = IF row.status = "COMPLETED"
                                      THEN "payment.completed" ELSE "payment.failed"]
      /\ Returns(c, IF row.status = "PENDING" THEN "start" ELSE "publish")
      /\ UNCHANGED <<calls, published, rec, last, assigned>>
  BY Zenon, <1>3, <1>4 DEF CreatePending, group
<1>6. PICK m \in {IF row.status = "PENDING" THEN "start" ELSE "publish", "poll"} :
         /\ pc' = [pc EXCEPT ![c] = m]
         /\ \/ m = (IF row.status = "PENDING" THEN "start" ELSE "publish") /\ UNCHANGED used
            \/ m = "poll" /\ errors' = errors + 1 /\ UNCHANGED <<crashes, moves>>
  BY Zenon, <1>5, ReturnsCounted
<1>7. /\ attempt'[p] = row
      /\ \A q \in Payments : q # p => attempt'[q] = attempt[q] /\ calls'[q] = calls[q]
      /\ try'[c] = FirstAttempt(row.count)
      /\ topic'[c] = IF row.status = "COMPLETED" THEN "payment.completed"
                                                  ELSE "payment.failed"
  BY Zenon, <1>1, <1>5 DEF TypeOK
<1>8. /\ attempt[p] \in Rows
      /\ row.status \in {"PENDING", "COMPLETED", "FAILED"}
      /\ attempt[p].status = "none" => row.status = "PENDING" /\ row.count = 0
      /\ attempt[p].status # "none" => row = attempt[p]
  <2>1. attempt[p] \in Rows
    BY Zenon, <1>1 DEF TypeOK
  <2> QED BY Zenon, <1>4, <2>1 DEF Pending, Rows, Statuses
<1>s. SoleInv'
  BY Zenon, <1>1, <1>2, <1>5, <1>6, SoleKept
<1>r. RowInv'
  <2>1. m \in Pursuing => attempt'[Payment(c)].status = "PENDING"
    BY Zenon, <1>3, <1>6, <1>7, PursuingFacts
  <2>2. m = "publish" =>
           \/ topic'[c] = "payment.completed" /\ attempt'[Payment(c)].status = "COMPLETED"
           \/ topic'[c] = "payment.failed" /\ attempt'[Payment(c)].status = "FAILED"
    <3>1. m = "publish" => row.status # "PENDING"
      BY Zenon, <1>6
    <3> QED BY Zenon, <1>3, <1>7, <1>8, <3>1
  <2>3. \A q \in Payments :
           /\ <<"payment.completed", q>> \in published' => attempt'[q].status = "COMPLETED"
           /\ <<"payment.failed", q>> \in published' => attempt'[q].status = "FAILED"
    <3> TAKE q \in Payments
    <3>1. attempt[q].status # "none" => attempt'[q] = attempt[q]
      BY Zenon, <1>7, <1>8
    <3> QED BY Zenon, <1>5, <3>1 DEF RowInv
  <2> QED BY Zenon, <1>1, <1>2, <1>5, <1>6, <2>1, <2>2, <2>3, RowKept
<1>c. CountInv'
  <2>1. Spent(p) \in Int /\ row.count \in 0..MaxAttempts
    BY Zenon, <1>1, SpentChange DEF Rows
  <2>2. /\ m # "poll" => UNCHANGED used /\ Spent(p)' = Spent(p)
        /\ m = "poll" => Spent(p)' = Spent(p) - 1
    <3>1. calls'[p] = calls[p]
      BY Zenon, <1>5
    <3>2. m # "poll" => UNCHANGED used
      BY Zenon, <1>6
    <3>3. m = "poll" => errors' = errors + 1 /\ crashes' = crashes
      BY Zenon, <1>6
    <3> QED BY Zenon, <1>1, <3>1, <3>2, <3>3, SpentChange
  <2>3. row.status = "PENDING" => Spent(p) < row.count \/ (row.count = 0 /\ Spent(p) <= 0)
    <3>1. CASE attempt[p].status = "none"
      <4>1. calls[p] = 0 /\ row.count = 0
        BY Zenon, <1>8, <3>1, CountOf
      <4>2. crashes \in Nat /\ errors \in Nat /\ \A a, b \in Nat : 0 - (a + b) <= 0
        BY <1>1 DEF TypeOK
      <4> QED BY Zenon, <4>1, <4>2 DEF Spent
    <3>2. CASE attempt[p].status # "none"
      <4>1. Idle(p)
        BY Zenon, <1>2, OthersRest, PursuingFacts DEF Idle
      <4>2. row = attempt[p]
        BY Zenon, <1>8, <3>2
      <4>3. attempt[p].status = "PENDING" => Spent(p) < attempt[p].count
        BY Zenon, <4>1, CountOf
      <4> QED BY Zenon, <4>2, <4>3
    <3> QED BY Zenon, <3>1, <3>2
  <2>4. row.status \in {"COMPLETED", "FAILED"} => Spent(p) <= MaxAttempts
    BY Zenon, <1>8, CountOf
  <2>5. /\ row.status = "PENDING" =>
              /\ Spent(p) < FirstAttempt(row.count) /\ FirstAttempt(row.count) <= row.count + 1
              /\ Spent(p) - 1 < row.count
        /\ row.status \in {"COMPLETED", "FAILED"} => Spent(p) - 1 <= MaxAttempts
    <3>1. Spent(p) <= MaxAttempts => Spent(p) - 1 <= MaxAttempts
      BY <2>1, Numbers
    <3> QED BY Zenon, <2>1, <2>3, <2>4, <3>1, FirstAttemptSpends
  <2>6. m \in {"start", "publish", "poll"} /\ (m = "start" => row.status = "PENDING")
        /\ (m = "publish" => row.status # "PENDING")
    BY Zenon, <1>6
  <2>7. crashes' + errors' >= crashes + errors
    BY Zenon, <1>1, <1>6, CutsGrow
  <2>8. attempt'[p].status = "PENDING" /\ m \notin Pursuing => Spent(p)' < attempt'[p].count
    BY Zenon, <1>7, <2>2, <2>5, <2>6, PursuingFacts
  <2>9. attempt'[p].status \in {"COMPLETED", "FAILED"} => Spent(p)' <= MaxAttempts
    BY Zenon, <1>7, <2>2, <2>4, <2>5
  <2>10. m = "start" => Spent(p)' < try'[c] /\ try'[c] <= attempt'[p].count + 1
    BY Zenon, <1>7, <2>2, <2>5, <2>6
  <2>11. /\ attempt'[p].status # "none"
         /\ m = "charge" => Spent(p)' < try'[c] /\ attempt'[p].count = try'[c]
         /\ m \in {"mark_completed", "mark_failed"} =>
               Spent(p)' <= try'[c] /\ attempt'[p].count = try'[c]
    BY Zenon, <1>7, <1>8, <2>6
  <2>12. /\ pc' = [pc EXCEPT ![c] = m] /\ rec' = rec
         /\ \A q \in Payments : q # p => attempt'[q] = attempt[q] /\ calls'[q] = calls[q]
    BY Zenon, <1>5, <1>6, <1>7
  <2>13. CountStep(c, p, m)
    BY Zenon, <1>2, <1>3, <2>7, <2>8, <2>9, <2>10, <2>11, <2>12 DEF CountStep
  <2> QED BY Zenon, <1>1, <2>13, CountKept
<1> QED BY Zenon, <1>s, <1>r, <1>c

\* A handling that is cut short by a failing call or a crash: its PENDING row is left
\* with one more handling to account for.
LEMMA CutShort ==
    ASSUME TypeOK, SoleInv, RowInv, CountInv, NEW c \in Procs,
           UNCHANGED <<attempt, calls, published, try, topic>>,
           \/ errors' = errors + 1 /\ crashes' = crashes
           \/ errors' = errors /\ crashes' = crashes + 1,
           NEW l \in {"poll", "down"}, pc' = [pc EXCEPT ![c] = l],
           \A d \in Procs : d # c => rec'[d] = rec[d]
    PROVE  RowInv' /\ CountInv'
<1>1. \A q \in Payments : Spent(q) \in Int /\ Spent(q)' = Spent(q) - 1
  BY Zenon, SpentChange
<1>2. \A q \in Payments : attempt[q].count \in Nat
  BY Numbers DEF TypeOK, Rows
<1>3. \A d \in Procs :
         /\ d # c => pc'[d] = pc[d] /\ Payment(d)' = Payment(d)
         /\ pc'[d] \in Pursuing \cup {"publish"} => d # c
  BY Zenon, PursuingFacts DEF TypeOK, Payment
<1>4. RowInv'
  <2> SUFFICES ASSUME NEW d \in Procs
               PROVE  /\ pc'[d] \in Pursuing => StatusOf(d)' = "PENDING"
                      /\ pc'[d] = "publish" =>
                            \/ topic'[d] = "payment.completed" /\ StatusOf(d)' = "COMPLETED"
                            \/ topic'[d] = "payment.failed" /\ StatusOf(d)' = "FAILED"
    BY Zenon DEF RowInv
  <2>1. CASE pc'[d] \in Pursuing \cup {"publish"}
    <3>1. pc[d] = pc'[d] /\ topic'[d] = topic[d]
      BY Zenon, <1>3, <2>1
    <3>2. StatusOf(d)' = StatusOf(d)
      BY ZenonT(60), <1>3, <2>1 DEF StatusOf
    <3> QED BY Zenon, <3>1, <3>2 DEF RowInv
  <2> QED BY Zenon, <2>1
<1>5. \A x \in Int, n \in Nat : /\ x < n => x - 1 < n
                                /\ x <= n => x - 1 < n
                                /\ x <= n => x - 1 <= n
  OBVIOUS
<1>6. \A x \in Int, t, n \in Nat : x < t /\ t <= n + 1 => x - 1 < n
  OBVIOUS
<1>7. \A d \in Procs : try[d] \in Nat
  BY Numbers DEF TypeOK
<1>8. ASSUME NEW q \in Payments
      PROVE  /\ attempt'[q].status = "none" => attempt'[q].count = 0 /\ calls'[q] = 0
             /\ attempt'[q].status = "PENDING" /\ Idle(q)' => Spent(q)' < attempt'[q].count
             /\ attempt'[q].status \in {"COMPLETED", "FAILED"} => Spent(q)' <= MaxAttempts
  <2>1. attempt'[q] = attempt[q] /\ calls'[q] = calls[q]
    OBVIOUS
  <2>2. attempt[q].status = "none" => attempt[q].count = 0 /\ calls[q] = 0
    BY Zenon, CountOf
  <2>3. attempt[q].status \in {"COMPLETED", "FAILED"} => Spent(q) - 1 <= MaxAttempts
    BY Zenon, <1>1, <1>5, CountOf, Numbers
  <2>4. ASSUME attempt[q].status = "PENDING", Idle(q)' PROVE Spent(q) - 1 < attempt[q].count
    <3>1. CASE Idle(q)
      BY Zenon, <1>1, <1>2, <1>5, <2>4, <3>1, CountOf
    <3>2. CASE ~Idle(q)
      <4>1. PICK d \in Procs : pc[d] \in Pursuing /\ Payment(d) = q
        BY Zenon, <3>2 DEF Idle
      <4>2. d = c
        BY Zenon, <1>3, <2>4, <4>1 DEF Idle
      <4>3. /\ pc[c] = "start" => Spent(q) < try[c] /\ try[c] <= attempt[q].count + 1
            /\ pc[c] = "charge" => Spent(q) < try[c] /\ attempt[q].count = try[c]
            /\ pc[c] \in {"mark_completed", "mark_failed"} =>
                  Spent(q) <= try[c] /\ attempt[q].count = try[c]
        BY Zenon, <4>1, <4>2, CountAt
      <4>4. pc[c] \in {"start", "charge", "mark_completed", "mark_failed"}
        BY Zenon, <4>1, <4>2 DEF Pursuing
      <4> QED BY Zenon, <1>1, <1>2, <1>5, <1>6, <1>7, <4>3, <4>4
    <3> QED BY Zenon, <3>1, <3>2
  <2> QED BY Zenon, <1>1, <2>1, <2>2, <2>3, <2>4
<1>9. ASSUME NEW d \in Procs, NEW q \in Payments, q = Payment(d)'
      PROVE  /\ pc'[d] = "start" => Spent(q)' < try'[d] /\ try'[d] <= attempt'[q].count + 1
             /\ pc'[d] = "charge" => Spent(q)' < try'[d] /\ attempt'[q].count = try'[d]
             /\ pc'[d] \in {"mark_completed", "mark_failed"} =>
                   Spent(q)' <= try'[d] /\ attempt'[q].count = try'[d]
  <2>1. CASE pc'[d] \in Pursuing
    <3>1. pc[d] = pc'[d] /\ q = Payment(d)
      BY Zenon, <1>3, <1>9, <2>1
    <3>2. attempt'[q] = attempt[q] /\ try'[d] = try[d] /\ Spent(q)' = Spent(q) - 1
      BY Zenon, <1>1
    <3>3. /\ Spent(q) < try[d] => Spent(q) - 1 < try[d]
          /\ Spent(q) <= try[d] => Spent(q) - 1 <= try[d]
      BY Zenon, <1>1, <1>5, <1>7
    <3>4. /\ pc[d] = "start" => Spent(q) < try[d] /\ try[d] <= attempt[q].count + 1
          /\ pc[d] = "charge" => Spent(q) < try[d] /\ attempt[q].count = try[d]
          /\ pc[d] \in {"mark_completed", "mark_failed"} =>
                Spent(q) <= try[d] /\ attempt[q].count = try[d]
      BY Zenon, <3>1, CountAt
    <3> QED BY Zenon, <3>1, <3>2, <3>3, <3>4
  <2> QED BY Zenon, <2>1, PursuingFacts
<1> QED BY Zenon, <1>4, <1>8, <1>9 DEF CountInv

\* MarkAttemptStarted writes the attempt number the bound is stated with.
LEMMA MarkAttemptStartedSingle ==
    ASSUME BaseInv, BaseInv', SoleInv, RowInv, CountInv, NEW c \in Procs,
           MarkAttemptStarted(c)
    PROVE  SoleInv' /\ RowInv' /\ CountInv'
<1>1. TypeOK /\ TypeOK' /\ HandInv
  BY Zenon DEF BaseInv
<1>2. pc[c] = "start" /\ pc[c] \in Handling
  BY Zenon, LabelFacts DEF MarkAttemptStarted
<1>3. PICK p \in Payments : p = Payment(c)
  BY Zenon, <1>2, <1>1 DEF HandInv
<1>4. /\ attempt' = [attempt EXCEPT ![p].count = try[c]]
      /\ Returns(c, "charge")
      /\ UNCHANGED <<calls, published, rec, last, try, topic, assigned>>
  BY Zenon, <1>3 DEF MarkAttemptStarted, group, local
<1>5. PICK m \in {"charge", "poll"} :
         /\ pc' = [pc EXCEPT ![c] = m]
         /\ \/ m = "charge" /\ UNCHANGED used
            \/ m = "poll" /\ errors' = errors + 1 /\ UNCHANGED <<crashes, moves>>
  BY Zenon, <1>4, ReturnsCounted
<1>6. /\ attempt'[p].count = try[c] /\ attempt'[p].status = attempt[p].status
      /\ \A q \in Payments : q # p => attempt'[q] = attempt[q] /\ calls'[q] = calls[q]
  BY <1>1, <1>4 DEF TypeOK, Rows
<1>7. attempt[p].status = "PENDING"
  BY Zenon, <1>2, <1>3, PursuingFacts DEF RowInv, StatusOf
<1>s. SoleInv'
  BY Zenon, <1>1, <1>2, <1>4, <1>5, SoleKept
<1>r. RowInv'
  <2>1. m \in Pursuing => attempt'[Payment(c)].status = "PENDING"
    BY Zenon, <1>3, <1>6, <1>7
  <2>2. m # "publish"
    BY Zenon, <1>5
  <2>3. \A q \in Payments :
           /\ <<"payment.completed", q>> \in published' => attempt'[q].status = "COMPLETED"
           /\ <<"payment.failed", q>> \in published' => attempt'[q].status = "FAILED"
    BY Zenon, <1>4, <1>6 DEF RowInv
  <2> QED BY Zenon, <1>1, <1>2, <1>4, <1>5, <2>1, <2>2, <2>3, RowKept
<1>c. CountInv'
  <2>0. try[c] \in Nat
    BY <1>1, Numbers DEF TypeOK
  <2>1. Spent(p) \in Int /\ try[c] \in Nat /\ Spent(p) < try[c]
    BY Zenon, <1>1, <1>2, <1>3, <2>0, SpentChange, CountAt
  <2>2. m = "charge" => Spent(p)' = Spent(p)
    BY Zenon, <1>1, <1>4, <1>5, SpentChange
  <2>3. m = "poll" => Spent(p)' = Spent(p) - 1
    BY Zenon, <1>1, <1>4, <1>5, SpentChange
  <2>4. Spent(p) - 1 < try[c]
    BY <2>1
  <2>5. crashes' + errors' >= crashes + errors
    BY Zenon, <1>1, <1>5, CutsGrow
  <2>6. /\ attempt'[p].status # "none"
        /\ attempt'[p].status \notin {"COMPLETED", "FAILED"}
        /\ m \notin Pursuing => Spent(p)' < attempt'[p].count
        /\ m = "charge" => Spent(p)' < try'[c] /\ attempt'[p].count = try'[c]
        /\ m # "start" /\ m \notin {"mark_completed", "mark_failed"}
    BY Zenon, <1>4, <1>5, <1>6, <1>7, <2>1, <2>2, <2>3, <2>4, PursuingFacts
  <2>7. CountStep(c, p, m)
    BY Zenon, <1>2, <1>3, <1>4, <1>5, <1>6, <2>5, <2>6 DEF CountStep
  <2> QED BY Zenon, <1>1, <2>7, CountKept
<1> QED BY Zenon, <1>s, <1>r, <1>c

\* Charge counts a call, and goes on to the next attempt only below the limit.
LEMMA ChargeSingle ==
    ASSUME BaseInv, BaseInv', SoleInv, RowInv, CountInv, NEW c \in Procs, Charge(c)
    PROVE  SoleInv' /\ RowInv' /\ CountInv'
<1>1. TypeOK /\ TypeOK' /\ HandInv
  BY Zenon DEF BaseInv
<1>2. pc[c] = "charge" /\ pc[c] \in Handling
  BY Zenon, LabelFacts DEF Charge
<1>3. PICK p \in Payments : p = Payment(c)
  BY Zenon, <1>2, <1>1 DEF HandInv
<1>4. /\ calls' = [calls EXCEPT ![p] = @ + 1]
      /\ UNCHANGED <<attempt, published, rec, last, topic, assigned, used>>
  BY Zenon, <1>3 DEF Charge, group
<1>5. PICK m \in {"mark_completed", "mark_failed", "start"} :
         /\ pc' = [pc EXCEPT ![c] = m]
         /\ m # "start" => try' = try
         /\ m = "start" => try' = [try EXCEPT ![c] = @ + 1]
  BY Zenon DEF Charge, Goto
<1>6. /\ calls'[p] = calls[p] + 1
      /\ \A q \in Payments : q # p => attempt'[q] = attempt[q] /\ calls'[q] = calls[q]
      /\ m # "start" => try'[c] = try[c]
      /\ m = "start" => try'[c] = try[c] + 1
  BY Zenon, <1>1, <1>4, <1>5 DEF TypeOK
<1>7. attempt[p].status = "PENDING"
  BY Zenon, <1>2, <1>3, PursuingFacts DEF RowInv, StatusOf
<1>s. SoleInv'
  BY Zenon, <1>1, <1>2, <1>4, <1>5, SoleKept
<1>r. RowInv'
  <2>1. m \in Pursuing => attempt'[Payment(c)].status = "PENDING"
    BY Zenon, <1>3, <1>4, <1>7
  <2>2. m # "publish"
    BY Zenon, <1>5
  <2>3. \A q \in Payments :
           /\ <<"payment.completed", q>> \in published' => attempt'[q].status = "COMPLETED"
           /\ <<"payment.failed", q>> \in published' => attempt'[q].status = "FAILED"
    BY Zenon, <1>4 DEF RowInv
  <2> QED BY Zenon, <1>1, <1>2, <1>4, <1>5, <2>1, <2>2, <2>3, RowKept
<1>c. CountInv'
  <2>0. try[c] \in Nat
    BY <1>1, Numbers DEF TypeOK
  <2>1. /\ Spent(p) \in Int /\ Spent(p) < try[c] /\ attempt[p].count = try[c]
        /\ Spent(p)' = Spent(p) + 1
    BY Zenon, <1>1, <1>2, <1>3, <1>4, <1>6, SpentChange, CountAt
  <2>2. \A x \in Int, t \in Nat : x < t => x + 1 <= t /\ x + 1 < t + 1 /\ t + 1 <= t + 1
    OBVIOUS
  <2>3. /\ Spent(p)' <= try[c] /\ Spent(p)' < try[c] + 1
        /\ try[c] + 1 <= attempt'[p].count + 1 /\ attempt'[p].count = try[c]
    BY Zenon, <1>4, <2>0, <2>1, <2>2
  <2>4. crashes' + errors' >= crashes + errors
    BY Zenon, <1>1, <1>4, CutsGrow
  <2>5. /\ attempt'[p].status # "none"
        /\ attempt'[p].status \notin {"COMPLETED", "FAILED"}
        /\ m \in Pursuing /\ m # "charge"
        /\ m = "start" => Spent(p)' < try'[c] /\ try'[c] <= attempt'[p].count + 1
        /\ m \in {"mark_completed", "mark_failed"} =>
              Spent(p)' <= try'[c] /\ attempt'[p].count = try'[c]
    BY Zenon, <1>4, <1>5, <1>6, <1>7, <2>3, PursuingFacts
  <2>6. CountStep(c, p, m)
    BY Zenon, <1>2, <1>3, <1>4, <1>5, <1>6, <2>4, <2>5 DEF CountStep
  <2> QED BY Zenon, <1>1, <2>6, CountKept
<1> QED BY Zenon, <1>s, <1>r, <1>c

\* MarkCompleted and MarkFailed settle a PENDING row, of which nothing is published.
LEMMA MarkSingle ==
    ASSUME BaseInv, BaseInv', SoleInv, RowInv, CountInv, NEW c \in Procs,
           pc[c] \in {"mark_completed", "mark_failed"}, NEW status, NEW t,
           \/ status = "COMPLETED" /\ t = "payment.completed"
           \/ status = "FAILED" /\ t = "payment.failed",
           Mark(c, status, t)
    PROVE  SoleInv' /\ RowInv' /\ CountInv'
<1>1. TypeOK /\ TypeOK' /\ HandInv
  BY Zenon DEF BaseInv
<1>2. pc[c] \in Handling /\ pc[c] # "commit" /\ pc[c] \in Pursuing
  BY Zenon, LabelFacts, PursuingFacts
<1>3. PICK p \in Payments : p = Payment(c)
  BY Zenon, <1>2, <1>1 DEF HandInv
<1>4. /\ attempt' = [attempt EXCEPT ![p].status = status]
      /\ topic' = [topic EXCEPT ![c] = t]
      /\ Returns(c, "publish")
      /\ UNCHANGED <<calls, published, rec, last, try, assigned>>
  BY Zenon, <1>3 DEF Mark, group
<1>5. PICK m \in {"publish", "poll"} :
         /\ pc' = [pc EXCEPT ![c] = m]
         /\ \/ m = "publish" /\ UNCHANGED used
            \/ m = "poll" /\ errors' = errors + 1 /\ UNCHANGED <<crashes, moves>>
  BY Zenon, <1>4, ReturnsCounted
<1>6. /\ attempt'[p].status = status /\ topic'[c] = t
      /\ \A q \in Payments : q # p => attempt'[q] = attempt[q] /\ calls'[q] = calls[q]
  BY Zenon, <1>1, <1>4 DEF TypeOK, Rows
<1>7. attempt[p].status = "PENDING"
  BY Zenon, <1>2, <1>3 DEF RowInv, StatusOf
<1>s. SoleInv'
  BY Zenon, <1>1, <1>2, <1>4, <1>5, SoleKept
<1>r. RowInv'
  <2>1. m \notin Pursuing
    BY Zenon, <1>5, PursuingFacts
  <2>2. m = "publish" =>
           \/ topic'[c] = "payment.completed" /\ attempt'[Payment(c)].status = "COMPLETED"
           \/ topic'[c] = "payment.failed" /\ attempt'[Payment(c)].status = "FAILED"
    BY Zenon, <1>3, <1>6
  <2>3. \A q \in Payments :
           /\ <<"payment.completed", q>> \in published' => attempt'[q].status = "COMPLETED"
           /\ <<"payment.failed", q>> \in published' => attempt'[q].status = "FAILED"
    BY Zenon, <1>4, <1>6, <1>7 DEF RowInv
  <2> QED BY Zenon, <1>1, <1>2, <1>4, <1>5, <2>1, <2>2, <2>3, RowKept
<1>c. CountInv'
  <2>0. try[c] \in 0..MaxAttempts
    BY Zenon, <1>1 DEF TypeOK
  <2>1. Spent(p) \in Int /\ Spent(p) <= try[c]
    BY Zenon, <1>1, <1>3, SpentChange, CountAt
  <2>2. Spent(p) <= MaxAttempts /\ Spent(p) - 1 <= MaxAttempts
    BY <2>0, <2>1, Numbers
  <2>3. m = "publish" => Spent(p)' = Spent(p)
    BY Zenon, <1>1, <1>4, <1>5, SpentChange
  <2>4. m = "poll" => Spent(p)' = Spent(p) - 1
    BY Zenon, <1>1, <1>4, <1>5, SpentChange
  <2>5. crashes' + errors' >= crashes + errors
    BY Zenon, <1>1, <1>5, CutsGrow
  <2>6. /\ attempt'[p].status # "none" /\ attempt'[p].status # "PENDING"
        /\ Spent(p)' <= MaxAttempts
        /\ m # "start" /\ m # "charge" /\ m \notin {"mark_completed", "mark_failed"}
    BY Zenon, <1>5, <1>6, <2>2, <2>3, <2>4
  <2>7. CountStep(c, p, m)
    BY Zenon, <1>2, <1>3, <1>4, <1>5, <1>6, <2>5, <2>6 DEF CountStep
  <2> QED BY Zenon, <1>1, <2>7, CountKept
<1> QED BY Zenon, <1>s, <1>r, <1>c

\* publishCompleted and publishFailed repeat what the row says.
LEMMA PublishSingle ==
    ASSUME BaseInv, BaseInv', SoleInv, RowInv, CountInv, NEW c \in Procs, Publish(c)
    PROVE  SoleInv' /\ RowInv' /\ CountInv'
<1>1. TypeOK /\ TypeOK' /\ HandInv
  BY Zenon DEF BaseInv
<1>2. pc[c] = "publish" /\ pc[c] \in Handling
  BY Zenon, LabelFacts DEF Publish
<1>3. PICK p \in Payments : p = Payment(c)
  BY Zenon, <1>2, <1>1 DEF HandInv
<1>4. /\ published' = published \cup {<<topic[c], p>>}
      /\ Returns(c, "commit")
      /\ UNCHANGED <<attempt, calls, rec, last, try, topic, assigned>>
  BY Zenon, <1>3 DEF Publish, group, local
<1>5. PICK m \in {"commit", "poll"} :
         /\ pc' = [pc EXCEPT ![c] = m]
         /\ \/ m = "commit" /\ UNCHANGED used
            \/ m = "poll" /\ errors' = errors + 1 /\ UNCHANGED <<crashes, moves>>
  BY Zenon, <1>4, ReturnsCounted
<1>6. \/ topic[c] = "payment.completed" /\ attempt[p].status = "COMPLETED"
      \/ topic[c] = "payment.failed" /\ attempt[p].status = "FAILED"
  BY Zenon, <1>2, <1>3 DEF RowInv, StatusOf
<1>s. SoleInv'
  BY Zenon, <1>1, <1>2, <1>4, <1>5, SoleKept
<1>r. RowInv'
  <2>1. m \notin Pursuing /\ m # "publish"
    BY Zenon, <1>5, PursuingFacts
  <2>2. \A q \in Payments, t \in Topics :
           <<t, q>> \in published' => <<t, q>> \in published \/ (t = topic[c] /\ q = p)
    BY <1>4
  <2>3. \A q \in Payments :
           /\ <<"payment.completed", q>> \in published' => attempt'[q].status = "COMPLETED"
           /\ <<"payment.failed", q>> \in published' => attempt'[q].status = "FAILED"
    BY Zenon, <1>4, <1>6, <2>2 DEF RowInv, Topics
  <2> QED BY Zenon, <1>1, <1>2, <1>4, <1>5, <2>1, <2>3, RowKept
<1>c. CountInv'
  <2>1. Spent(p) \in Int /\ Spent(p) <= MaxAttempts
    BY Zenon, <1>1, <1>6, SpentChange, CountOf
  <2>2. crashes' + errors' >= crashes + errors
    BY Zenon, <1>1, <1>5, CutsGrow
  <2>3. Spent(p)' <= MaxAttempts
    <3>1. Spent(p) - 1 <= MaxAttempts
      BY <2>1, Numbers
    <3>2. Spent(p)' = Spent(p) \/ Spent(p)' = Spent(p) - 1
      BY Zenon, <1>1, <1>4, <1>5, SpentChange
    <3> QED BY Zenon, <2>1, <3>1, <3>2
  <2>4. /\ attempt'[p].status # "none" /\ attempt'[p].status # "PENDING"
        /\ m # "start" /\ m # "charge" /\ m \notin {"mark_completed", "mark_failed"}
    BY Zenon, <1>4, <1>5, <1>6
  <2>5. CountStep(c, p, m)
    BY Zenon, <1>2, <1>3, <1>4, <1>5, <2>2, <2>3, <2>4 DEF CountStep
  <2> QED BY Zenon, <1>1, <2>5, CountKept
<1> QED BY Zenon, <1>s, <1>r, <1>c

\* A failing call leaves the record, and its row as it is.
LEMMA CallFailsSingle ==
    ASSUME BaseInv, SoleInv, RowInv, CountInv, NEW c \in Procs, CallFails(c)
    PROVE  SoleInv' /\ RowInv' /\ CountInv'
<1>1. TypeOK
  BY Zenon DEF BaseInv
<1>2. /\ pc[c] \in Handling /\ pc' = [pc EXCEPT ![c] = "poll"]
      /\ errors' = errors + 1 /\ crashes' = crashes
      /\ UNCHANGED <<attempt, calls, published, rec, last, try, topic, assigned>>
  BY Zenon DEF CallFails, Skip, Goto, store, local, group
<1>3. SoleInv'
  BY Zenon, <1>1, <1>2, SoleKept
<1>4. RowInv' /\ CountInv'
  BY Zenon, <1>1, <1>2, CutShort
<1> QED BY Zenon, <1>3, <1>4

\* A crash frees the partition with the row of the record in hand as it is.
LEMMA CrashSingle ==
    ASSUME BaseInv, SoleInv, RowInv, CountInv, NEW c \in Procs, Crash(c)
    PROVE  SoleInv' /\ RowInv' /\ CountInv'
<1>1. TypeOK
  BY Zenon DEF BaseInv
<1>2. /\ pc' = [pc EXCEPT ![c] = "down"]
      /\ errors' = errors /\ crashes' = crashes + 1
      /\ rec' = [rec EXCEPT ![c] = 0] /\ last' = [last EXCEPT ![c] = 0]
      /\ assigned' = IF assigned = c THEN "nobody" ELSE assigned
      /\ UNCHANGED <<attempt, calls, published, try, topic>>
  BY Zenon DEF Crash, Goto, store
<1>3. /\ \A d \in Procs : d # c =>
            pc'[d] = pc[d] /\ rec'[d] = rec[d] /\ last'[d] = last[d]
      /\ pc'[c] = "down" /\ rec'[c] = 0 /\ last'[c] = 0
  BY Zenon, <1>1, <1>2 DEF TypeOK
<1>4. SoleInv'
  <2> SUFFICES ASSUME NEW d \in Procs, pc'[d] \in Handling \/ rec'[d] < last'[d]
               PROVE  assigned' = d
    BY DEF SoleInv
  <2>1. ~(0 < 0)
    OBVIOUS
  <2>2. d # c
    BY Zenon, <1>3, <2>1, LabelFacts
  <2>3. assigned = d
    BY Zenon, <1>3, <2>2 DEF SoleInv
  <2> QED BY Zenon, <1>2, <2>2, <2>3
<1>5. RowInv' /\ CountInv'
  BY Zenon, <1>1, <1>2, <1>3, CutShort
<1> QED BY Zenon, <1>4, <1>5

\* A rebalance away from a live process stays counted.
LEMMA MovesStay == BaseInv /\ [Next]_vars /\ moves' = 0 => moves = 0
<1> SUFFICES ASSUME BaseInv, [Next]_vars, moves' = 0 PROVE moves = 0
  OBVIOUS
<1> USE DEF used
<1>0. moves \in Nat
  BY Zenon DEF BaseInv, TypeOK
<1>1. CASE UNCHANGED vars
  BY Zenon, <1>1 DEF vars
<1>2. ASSUME NEW c \in Procs, NEW l, Returns(c, l) PROVE moves = 0
  BY Zenon, <1>2 DEF Returns, Skip
<1>3. ASSUME NEW c \in Procs,
             CreatePending(c) \/ MarkAttemptStarted(c) \/ MarkCompleted(c)
                \/ MarkFailed(c) \/ Publish(c)
      PROVE  moves = 0
  BY Zenon, <1>2, <1>3 DEF CreatePending, MarkAttemptStarted, MarkCompleted, MarkFailed, Mark,
                    Publish
<1>4. ASSUME NEW c \in Procs,
             PollFetches(c) \/ HandleRecord(c) \/ Charge(c) \/ CommitRecord(c)
                \/ CallFails(c) \/ Crash(c) \/ Start(c)
      PROVE  moves = 0
  BY Zenon, <1>4 DEF PollFetches, HandleRecord, Charge, CommitRecord, CallFails, Skip,
                     Crash, Start
<1>5. ASSUME NEW c \in Procs, Assign(c) PROVE moves = 0
  BY <1>0, <1>5 DEF Assign
<1> QED BY Zenon, <1>1, <1>3, <1>4, <1>5 DEF Next, Handle

\* Every step preserves the invariant of one process at a time.
LEMMA NextSingle == SingleInv /\ [Next]_vars => SingleInv'
<1> SUFFICES ASSUME SingleInv, [Next]_vars, moves' = 0
             PROVE  SoleInv' /\ RowInv' /\ CountInv'
  BY Zenon, NextBase DEF SingleInv
<1>0. BaseInv /\ BaseInv' /\ TypeOK /\ HandInv /\ SoleInv /\ RowInv /\ CountInv
  BY Zenon, MovesStay, NextBase DEF SingleInv, BaseInv
<1>1. CASE UNCHANGED vars
  <2>1. SoleInv'
    BY Zenon, <1>0, <1>1 DEF vars, local, group, SoleInv
  <2>2. RowInv' /\ CountInv'
    BY Zenon, <1>0, <1>1, QuietSingle DEF vars, store, local, used
  <2> QED BY Zenon, <2>1, <2>2
<1>2. ASSUME NEW c \in Procs, MarkCompleted(c) \/ MarkFailed(c)
      PROVE  SoleInv' /\ RowInv' /\ CountInv'
  <2>1. CASE MarkCompleted(c)
    BY Zenon, <1>0, <2>1, MarkSingle DEF MarkCompleted
  <2>2. CASE MarkFailed(c)
    BY Zenon, <1>0, <2>2, MarkSingle DEF MarkFailed
  <2> QED BY Zenon, <1>2, <2>1, <2>2
<1>3. ASSUME NEW c \in Procs,
             \/ PollFetches(c) \/ HandleRecord(c) \/ CommitRecord(c)
             \/ Assign(c) \/ Start(c)
      PROVE  SoleInv' /\ RowInv' /\ CountInv'
  BY Zenon, <1>0, <1>3, GroupSingle
<1>4. ASSUME NEW c \in Procs,
             \/ CreatePending(c) \/ MarkAttemptStarted(c) \/ Charge(c) \/ Publish(c)
             \/ CallFails(c) \/ Crash(c)
      PROVE  SoleInv' /\ RowInv' /\ CountInv'
  BY Zenon, <1>0, <1>4, CreatePendingSingle, MarkAttemptStartedSingle, ChargeSingle,
     PublishSingle, CallFailsSingle, CrashSingle
<1> QED BY Zenon, <1>1, <1>2, <1>3, <1>4 DEF Next, Handle

\* The invariant holds initially: nothing is in hand, recorded or published.
LEMMA InitSingle == Init => SingleInv
<1> SUFFICES ASSUME Init PROVE SoleInv /\ RowInv /\ CountInv
  BY Zenon, InitBase DEF SingleInv
<1>1. ~(0 < 0)
  OBVIOUS
<1>2. "poll" \notin Handling /\ "poll" \notin Pursuing /\ "poll" # "publish"
  BY Zenon, LabelFacts, PursuingFacts
<1>3. SoleInv
  BY Zenon, <1>1, <1>2 DEF Init, SoleInv
<1>4. RowInv
  BY Zenon, <1>2 DEF Init, RowInv
<1>5. CountInv
  BY Zenon, <1>2 DEF Init, CountInv
<1> QED BY Zenon, <1>3, <1>4, <1>5

\* While one process at a time handles a payment, redeliveries, duplicates, crashes
\* and failing store calls never bring both result events about for one payment.
THEOREM ResultsAreStable == Spec => []ResultIsStable
<1>1. SingleInv => ResultIsStable
  BY Zenon DEF SingleInv, RowInv, ResultIsStable
<1> QED BY InitSingle, NextSingle, <1>1, PTL DEF Spec

\* Then the rail is called at most MaxAttempts times for a payment, and once more
\* for every handling a crash or a failing store call cut short.
THEOREM CallsStayBounded == Spec => []CallsBounded
<1>1. SingleInv => CallsBounded
  <2> SUFFICES ASSUME SingleInv, moves = 0, NEW p \in Payments
               PROVE  calls[p] <= MaxAttempts + crashes + errors
    BY Zenon DEF CallsBounded
  <2>1. TypeOK /\ HandInv /\ CountInv
    BY Zenon DEF SingleInv, BaseInv
  <2>2. /\ calls[p] \in Nat /\ crashes \in Nat /\ errors \in Nat
        /\ attempt[p].status \in Statuses /\ attempt[p].count \in 0..MaxAttempts
        /\ \A c \in Procs : try[c] \in 0..MaxAttempts
    BY Zenon, <2>1 DEF TypeOK, Rows
  <2>3. CASE attempt[p].status = "none"
    <3>1. calls[p] = 0
      BY Zenon, <2>1, <2>3, CountOf
    <3> QED BY <2>2, <3>1, Numbers
  <2>4. Spent(p) <= MaxAttempts => calls[p] <= MaxAttempts + crashes + errors
    BY <2>2, Numbers DEF Spent
  <2>5. Spent(p) \in Int /\ \A x \in Int, n \in 0..MaxAttempts :
           (x < n => x <= MaxAttempts) /\ (x <= n => x <= MaxAttempts)
    BY <2>1, SpentChange, Numbers
  <2>6. CASE attempt[p].status \in {"COMPLETED", "FAILED"}
    BY Zenon, <2>1, <2>4, <2>6, CountOf
  <2>7. CASE attempt[p].status = "PENDING"
    <3>1. CASE Idle(p)
      BY Zenon, <2>1, <2>2, <2>4, <2>5, <2>7, <3>1, CountOf
    <3>2. CASE ~Idle(p)
      <4>1. PICK c \in Procs : pc[c] \in Pursuing /\ Payment(c) = p
        BY Zenon, <3>2 DEF Idle
      <4>2. Spent(p) < try[c] \/ Spent(p) <= try[c]
        BY Zenon, <2>1, <4>1, CountAt DEF Pursuing
      <4> QED BY Zenon, <2>2, <2>4, <2>5, <4>2
    <3> QED BY Zenon, <3>1, <3>2
  <2> QED BY Zenon, <2>2, <2>3, <2>6, <2>7 DEF Statuses
<1> QED BY InitSingle, NextSingle, <1>1, PTL DEF Spec

=============================================================================
