--------------------------- MODULE DeliveryProofs ---------------------------
(***************************************************************************)
(* No message is lost on its way. The outbox delivers at least once, for   *)
(* any number of rows, publishers, faults and crashes and any batch size.  *)
(* What the consumer, its dead-letter topic and dlq-redrive keep, for any  *)
(* records, any number of runs, restarts and failing calls: the operator's *)
(* offset passes only decided records, and while no call fails no message  *)
(* is lost between the two topics. The second needs to look past the       *)
(* commits that are due: Safe says that they would lose nothing either.    *)
(***************************************************************************)
EXTENDS Outbox, DeadLetters, TLAPS

-----------------------------------------------------------------------------
(* The outbox.                                                             *)

\* What the publishers have produced stays in Kafka, and an append adds its row.
LEMMA LogGrows ==
    ASSUME OutboxTypeOK, NEW e \in Events, log' = Append(log, e)
    PROVE  /\ log' \in Seq(Events)
           /\ Produced(e)'
           /\ \A f : Produced(f) => Produced(f)'
<1>1. log \in Seq(Events) BY Zenon DEF OutboxTypeOK
<1>2. /\ Len(log') = Len(log) + 1
      /\ log'[Len(log) + 1] = e
      /\ \A i \in 1..Len(log) : log'[i] = log[i]
      /\ log' \in Seq(Events)
      /\ Len(log) \in Nat
  BY <1>1
<1>3. Produced(e)' BY <1>2 DEF Produced
<1>4. \A f : Produced(f) => Produced(f)' BY <1>2 DEF Produced
<1> QED BY Zenon, <1>2, <1>3, <1>4

\* A publisher starts with nothing claimed and a table with nothing published.
LEMMA OutboxStarts == OutboxInit => OutboxInv
BY OutboxAssumption DEF OutboxInit, OutboxInv, OutboxTypeOK, MarkedIsProduced

\* Claim, RestartPublisher, Crash and a call without effect leave Kafka alone and
\* mark no row.
LEMMA QuietSteps ==
    ASSUME OutboxInv, NEW p \in Publishers,
           Claim(p) \/ PublishFails(p) \/ Crash(p) \/ RestartPublisher(p)
    PROVE  OutboxInv'
<1> USE OutboxAssumption
<1>2. CASE Claim(p)
  <2>1. PICK claimed \in SUBSET Events : batch' = [batch EXCEPT ![p] = claimed]
    BY Zenon, <1>2 DEF Claim, Oldest, Unpublished
  <2> QED
    BY <1>2, <2>1 DEF Claim, OutboxInv, OutboxTypeOK, MarkedIsProduced, Produced
<1>3. CASE PublishFails(p)
  BY <1>3 DEF PublishFails, Fault, EndBatch, OutboxInv, OutboxTypeOK, MarkedIsProduced, Produced
<1>4. CASE Crash(p)
  BY <1>4 DEF Crash, OutboxInv, OutboxTypeOK, MarkedIsProduced, Produced
<1>5. CASE RestartPublisher(p)
  BY <1>5 DEF RestartPublisher, OutboxInv, OutboxTypeOK, MarkedIsProduced, Produced
<1> QED BY Zenon, <1>2, <1>3, <1>4, <1>5

\* Produce appends the row it then goes on to mark.
LEMMA ProduceStep ==
    ASSUME OutboxInv, NEW p \in Publishers, Produce(p)
    PROVE  OutboxInv'
<1> USE OutboxAssumption
<1>1. PICK e \in batch[p] : /\ log' = Append(log, e)
                            /\ current' = [current EXCEPT ![p] = e]
  BY Zenon DEF Produce
<1>2. OutboxTypeOK /\ e \in Events BY Zenon DEF OutboxInv, OutboxTypeOK
<1>3. /\ log' \in Seq(Events)
      /\ Produced(e)'
      /\ \A f : Produced(f) => Produced(f)'
  BY Zenon, <1>1, <1>2, LogGrows
<1>4. OutboxTypeOK'
  BY <1>1, <1>2, <1>3 DEF Produce, Fault, EndBatch, OutboxTypeOK
<1>5. MarkedIsProduced'
  BY Zenon, <1>3 DEF Produce, OutboxInv, MarkedIsProduced
<1>6. ASSUME NEW q \in Publishers, stage'[q] = "mark" PROVE Produced(current[q])'
  <2>1. CASE q = p BY Zenon, <1>1, <1>2, <1>3, <2>1 DEF OutboxTypeOK
  <2>2. CASE q # p
    <3>1. stage[q] = "mark" /\ current'[q] = current[q]
      BY Zenon, <1>1, <1>2, <1>6, <2>2 DEF Produce, Fault, EndBatch, OutboxTypeOK
    <3>2. Produced(current[q]) BY Zenon, <3>1 DEF OutboxInv
    <3> QED BY Zenon, <1>3, <3>1, <3>2 DEF Produced
  <2> QED BY Zenon, <2>1, <2>2
<1> QED BY Zenon, <1>4, <1>5, <1>6 DEF OutboxInv

\* MarkPublished marks the row its publisher has produced, and no other.
LEMMA MarkStep ==
    ASSUME OutboxInv, NEW p \in Publishers, MarkPublished(p)
    PROVE  OutboxInv'
<1> USE OutboxAssumption
<1>1. OutboxTypeOK /\ current[p] \in Events /\ Produced(current[p])
  BY Zenon DEF MarkPublished, OutboxInv, OutboxTypeOK
<1>2. OutboxTypeOK'
  BY SMTT(60), <1>1 DEF MarkPublished, Fault, EndBatch, OutboxTypeOK
<1>3. MarkedIsProduced'
  BY Zenon, <1>1 DEF MarkPublished, OutboxInv, OutboxTypeOK, MarkedIsProduced, Produced
<1>4. \A q \in Publishers : stage'[q] = "mark" => Produced(current[q])'
  BY <1>1 DEF MarkPublished, Fault, EndBatch, OutboxInv, OutboxTypeOK, Produced
<1> QED BY Zenon, <1>2, <1>3, <1>4 DEF OutboxInv

\* The inductive invariant holds in every state of the outbox.
THEOREM OutboxInvariant == OutboxSpec => []OutboxInv
<1>1. OutboxInv /\ [OutboxNext]_outboxVars => OutboxInv'
  <2> SUFFICES ASSUME OutboxInv, [OutboxNext]_outboxVars PROVE OutboxInv'
    OBVIOUS
  <2>1. ASSUME NEW e \in Events, Enqueue(e) PROVE OutboxInv'
    BY Zenon, <2>1, OutboxAssumption DEF Enqueue, OutboxInv, OutboxTypeOK, MarkedIsProduced, Produced
  <2>2. ASSUME NEW p \in Publishers, PublishBatch(p) \/ PublishFails(p) \/ Crash(p) \/ RestartPublisher(p)
        PROVE OutboxInv'
    BY Zenon, <2>2, QuietSteps, ProduceStep, MarkStep DEF PublishBatch
  <2>3. CASE UNCHANGED outboxVars
    BY Zenon, <2>3 DEF outboxVars, OutboxInv, OutboxTypeOK, MarkedIsProduced, Produced
  <2> QED BY Zenon, <2>1, <2>2, <2>3 DEF OutboxNext
<1> QED BY <1>1, OutboxStarts, PTL DEF OutboxSpec

\* At least once: a row marked as published, which no publisher claims again, has
\* been produced, whatever failed in between.
THEOREM AtLeastOnce == OutboxSpec => []MarkedIsProduced
<1>1. OutboxInv => MarkedIsProduced BY Zenon DEF OutboxInv
<1> QED BY <1>1, OutboxInvariant, PTL

-----------------------------------------------------------------------------
(* The consumer and its dead letters.                                      *)

\* The number of records on the topics.
LEMMA Lengths ==
    ASSUME TypeOK
    PROVE  Len(topic) \in Nat /\ Len(dlq) \in Nat
<1>1. topic \in Seq(Records) /\ dlq \in Seq(Parked)
  BY Zenon DEF TypeOK
<1> QED BY <1>1

-----------------------------------------------------------------------------
(* What a step does to the messages that are safe.                         *)

\* A step keeps every record of the source topic, and of the dead-letter topic, that
\* is after its offset, but for those of the messages in X.
TopicAfter(X) ==
    \A i \in Handled + 1..Len(topic) : topic[i].msg \notin X =>
       i \in (Handled + 1..Len(topic))' /\ topic'[i] = topic[i]

ParkedAfter(X) ==
    \A j \in Passed + 1..Len(dlq) : dlq[j].msg \notin X =>
       j \in (Passed + 1..Len(dlq))' /\ dlq'[j] = dlq[j]

\* It takes back no effect and no decision either.
KeepsAfter(X) ==
    /\ TopicAfter(X) /\ ParkedAfter(X)
    /\ \A m \in Messages : Delivered(m) => Delivered(m)'
    /\ discarded \subseteq discarded'

\* Messages whose records stay are as safe as before.
LEMMA SafeStays ==
    ASSUME NEW X, KeepsAfter(X), NEW m \in Messages, Safe(m), m \notin X
    PROVE  Safe(m)'
<1>1. CASE \E i \in Handled + 1..Len(topic) : topic[i].msg = m
  <2>1. PICK i \in Handled + 1..Len(topic) : topic[i].msg = m
    BY Zenon, <1>1
  <2>2. i \in (Handled + 1..Len(topic))' /\ topic'[i].msg = m
    BY Zenon, <2>1 DEF KeepsAfter, TopicAfter, ParkedAfter
  <2> QED BY Zenon, <2>2 DEF Safe
<1>2. CASE \E j \in Passed + 1..Len(dlq) : dlq[j].msg = m
  <2>1. PICK j \in Passed + 1..Len(dlq) : dlq[j].msg = m
    BY Zenon, <1>2
  <2>2. j \in (Passed + 1..Len(dlq))' /\ dlq'[j].msg = m
    BY Zenon, <2>1 DEF KeepsAfter, TopicAfter, ParkedAfter
  <2> QED BY Zenon, <2>2 DEF Safe
<1>3. CASE Delivered(m) \/ m \in discarded
  BY Zenon, <1>3 DEF KeepsAfter, Safe
<1> QED BY Zenon, <1>1, <1>2, <1>3 DEF Safe

\* If one message is seen to, all are.
LEMMA AllSafe ==
    ASSUME \A m \in Messages : Safe(m), NEW x, KeepsAfter({x}), x \in Messages => Safe(x)'
    PROVE  \A m \in Messages : Safe(m)'
<1> SUFFICES ASSUME NEW m \in Messages, m # x PROVE Safe(m)'
  BY Zenon
<1>1. Safe(m) /\ m \notin {x}
  BY Zenon
<1> QED BY Zenon, <1>1, SafeStays

\* If no message is touched, all are safe as before.
LEMMA NoneTouched ==
    ASSUME \A m \in Messages : Safe(m), KeepsAfter({})
    PROVE  \A m \in Messages : Safe(m)'
<1> SUFFICES ASSUME NEW m \in Messages PROVE Safe(m)'
  BY Zenon
<1>1. PICK X : X = {}
  BY Zenon
<1>2. Safe(m) /\ m \notin X /\ KeepsAfter(X)
  BY Zenon, <1>1
<1> QED BY Zenon, <1>2, SafeStays

\* The topics only grow.
Grows ==
    /\ Len(topic)' \in Nat /\ Len(topic) <= Len(topic)'
    /\ Len(dlq)' \in Nat /\ Len(dlq) <= Len(dlq)'
    /\ \A i \in 1..Len(topic) : topic'[i] = topic[i]
    /\ \A j \in 1..Len(dlq) : dlq'[j] = dlq[j]

\* The offsets that stand are offsets.
LEMMA OffsetFacts ==
    ASSUME TypeOK
    PROVE  /\ Handled \in 0..Len(topic) /\ Passed \in 0..Len(dlq)
           /\ Handled \in Nat /\ Passed \in Nat
<1>1. Handled \in 0..Len(topic) /\ Passed \in 0..Len(dlq)
  BY Zenon DEF TypeOK, Handled, Passed
<1>2. Len(topic) \in Nat /\ Len(dlq) \in Nat
  BY Zenon, Lengths
<1> QED BY <1>1, <1>2

\* An offset of the source topic that does not move forward leaves its records.
LEMMA TopicStays ==
    ASSUME TypeOK, Grows, NEW X, NEW b \in Nat, Handled' = b, b <= Handled
    PROVE  TopicAfter(X)
<1>1. PICK a \in Nat, n \in Nat, k \in Nat :
         a = Handled /\ n = Len(topic) /\ k = Len(topic)' /\ b <= a /\ n <= k
  BY Zenon, OffsetFacts, Lengths DEF Grows
<1>2. \A i \in a + 1..n : i \in b + 1..k /\ i \in 1..n
  BY <1>1
<1>3. \A i \in 1..n : topic'[i] = topic[i]
  BY Zenon, <1>1 DEF Grows
<1>4. (Handled + 1..Len(topic))' = b + 1..k
  BY Zenon, <1>1
<1> QED BY Zenon, <1>1, <1>2, <1>3, <1>4 DEF TopicAfter

\* One that moves past one record leaves all but that one.
LEMMA TopicNext ==
    ASSUME TypeOK, Grows, NEW a \in Nat, Handled = a, Handled' = a + 1,
           NEW x, x = topic[a + 1].msg
    PROVE  TopicAfter({x})
<1>1. PICK n \in Nat, k \in Nat : n = Len(topic) /\ k = Len(topic)' /\ n <= k
  BY Zenon, Lengths DEF Grows
<1>2. \A i \in a + 1..n : (i = a + 1 \/ i \in a + 1 + 1..k) /\ i \in 1..n
  BY <1>1
<1>3. \A i \in 1..n : topic'[i] = topic[i]
  BY Zenon, <1>1 DEF Grows
<1>4. (Handled + 1..Len(topic))' = a + 1 + 1..k
  BY Zenon, <1>1
<1>5. ASSUME NEW i \in Handled + 1..Len(topic), topic[i].msg \notin {x}
      PROVE  i \in (Handled + 1..Len(topic))' /\ topic'[i] = topic[i]
  <2>1. i \in a + 1..n /\ i # a + 1
    BY Zenon, <1>1, <1>5
  <2> QED BY Zenon, <1>2, <1>3, <1>4, <2>1
<1> QED BY Zenon, <1>5 DEF TopicAfter

\* The same of the operator's offset of the dead-letter topic.
LEMMA ParkedStays ==
    ASSUME TypeOK, Grows, NEW X, NEW b \in Nat, Passed' = b, b <= Passed
    PROVE  ParkedAfter(X)
<1>1. PICK a \in Nat, n \in Nat, k \in Nat :
         a = Passed /\ n = Len(dlq) /\ k = Len(dlq)' /\ b <= a /\ n <= k
  BY Zenon, OffsetFacts, Lengths DEF Grows
<1>2. \A i \in a + 1..n : i \in b + 1..k /\ i \in 1..n
  BY <1>1
<1>3. \A i \in 1..n : dlq'[i] = dlq[i]
  BY Zenon, <1>1 DEF Grows
<1>4. (Passed + 1..Len(dlq))' = b + 1..k
  BY Zenon, <1>1
<1> QED BY Zenon, <1>1, <1>2, <1>3, <1>4 DEF ParkedAfter

\* And when it moves past one record.
LEMMA ParkedNext ==
    ASSUME TypeOK, Grows, NEW a \in Nat, Passed = a, Passed' = a + 1,
           NEW x, x = dlq[a + 1].msg
    PROVE  ParkedAfter({x})
<1>1. PICK n \in Nat, k \in Nat : n = Len(dlq) /\ k = Len(dlq)' /\ n <= k
  BY Zenon, Lengths DEF Grows
<1>2. \A i \in a + 1..n : (i = a + 1 \/ i \in a + 1 + 1..k) /\ i \in 1..n
  BY <1>1
<1>3. \A i \in 1..n : dlq'[i] = dlq[i]
  BY Zenon, <1>1 DEF Grows
<1>4. (Passed + 1..Len(dlq))' = a + 1 + 1..k
  BY Zenon, <1>1
<1>5. ASSUME NEW i \in Passed + 1..Len(dlq), dlq[i].msg \notin {x}
      PROVE  i \in (Passed + 1..Len(dlq))' /\ dlq'[i] = dlq[i]
  <2>1. i \in a + 1..n /\ i # a + 1
    BY Zenon, <1>1, <1>5
  <2> QED BY Zenon, <1>2, <1>3, <1>4, <2>1
<1> QED BY Zenon, <1>5 DEF ParkedAfter

\* Topics that do not change grow, and a topic grows by what is appended to it.
LEMMA GrowFacts ==
    ASSUME TypeOK
    PROVE  /\ topic' = topic /\ dlq' = dlq => Grows
           /\ \A x \in Parked : topic' = topic /\ dlq' = Append(dlq, x) =>
                 Grows /\ dlq' \in Seq(Parked) /\ Len(dlq)' = Len(dlq) + 1 /\ dlq'[Len(dlq) + 1] = x
           /\ \A x \in Records : topic' = Append(topic, x) /\ dlq' = dlq =>
                 /\ Grows /\ topic' \in Seq(Records)
                 /\ Len(topic)' = Len(topic) + 1 /\ topic'[Len(topic) + 1] = x
<1>1. topic \in Seq(Records) /\ dlq \in Seq(Parked)
  BY Zenon DEF TypeOK
<1>2. Len(topic) \in Nat /\ Len(dlq) \in Nat
  BY Zenon, Lengths
<1>3. \A n \in Nat : n <= n /\ n + 1 \in Nat /\ n <= n + 1
  OBVIOUS
<1>4. topic' = topic /\ dlq' = dlq => Grows
  BY Zenon, <1>2, <1>3 DEF Grows
<1>5. ASSUME NEW x \in Parked, topic' = topic, dlq' = Append(dlq, x)
      PROVE  Grows /\ dlq' \in Seq(Parked) /\ Len(dlq)' = Len(dlq) + 1 /\ dlq'[Len(dlq) + 1] = x
  <2>1. /\ Append(dlq, x) \in Seq(Parked) /\ Len(Append(dlq, x)) = Len(dlq) + 1
        /\ \A i \in 1..Len(dlq) : Append(dlq, x)[i] = dlq[i]
        /\ Append(dlq, x)[Len(dlq) + 1] = x
    BY <1>1
  <2> QED BY Zenon, <1>2, <1>3, <1>5, <2>1 DEF Grows
<1>6. ASSUME NEW x \in Records, topic' = Append(topic, x), dlq' = dlq
      PROVE  /\ Grows /\ topic' \in Seq(Records)
             /\ Len(topic)' = Len(topic) + 1 /\ topic'[Len(topic) + 1] = x
  <2>1. /\ Append(topic, x) \in Seq(Records) /\ Len(Append(topic, x)) = Len(topic) + 1
        /\ \A i \in 1..Len(topic) : Append(topic, x)[i] = topic[i]
        /\ Append(topic, x)[Len(topic) + 1] = x
    BY <1>1
  <2> QED BY Zenon, <1>2, <1>3, <1>6, <2>1 DEF Grows
<1> QED BY Zenon, <1>4, <1>5, <1>6

-----------------------------------------------------------------------------
(* The steps of the consumer.                                              *)

\* A sequence over a set is one over a larger set.
LEMMA SeqSub ==
    ASSUME NEW S, NEW T, S \subseteq T, NEW s \in Seq(S)
    PROVE  s \in Seq(T)
<1>1. PICK n \in Nat : s \in [1..n -> S]
  OBVIOUS
<1>2. s \in [1..n -> T]
  BY Zenon, <1>1
<1> QED BY <1>2

\* What the invariant says.
LEMMA Given ==
    ASSUME LettersInv
    PROVE  /\ TypeOK /\ OperatorInv /\ (pc # "poll" => position > 0)
           /\ errors = 0 => ConsumerInv /\ \A m \in Messages : Safe(m)
           /\ errors \in Nat /\ errors + 1 \in Nat /\ errors + 1 # 0
           /\ crashes \in Nat /\ crashes + 1 \in Nat /\ runs \in Nat /\ runs + 1 \in Nat
<1>1. TypeOK
  BY Zenon DEF LettersInv
<1>2. errors \in Nat /\ crashes \in Nat /\ runs \in Nat
  BY Zenon, <1>1 DEF TypeOK
<1>3. \A n \in Nat : n + 1 \in Nat /\ n + 1 # 0
  OBVIOUS
<1> QED BY Zenon, <1>1, <1>2, <1>3 DEF LettersInv

\* The operator is not concerned.
LEMMA OperatorRests ==
    ASSUME OperatorInv, UNCHANGED <<run, opPosition, opCommitted, decided>>
    PROVE  OperatorInv' /\ Passed' = Passed
BY Zenon DEF OperatorInv, CommitOnlyIfDecided, Passed

\* A record that was fetched is a record.
LEMMA MessageFacts ==
    ASSUME TypeOK, position > 0
    PROVE  position \in 1..Len(topic) /\ topic[position] \in Records /\ Message \in Messages
<1>1. topic \in Seq(Records) /\ position \in 0..Len(topic)
  BY Zenon DEF TypeOK
<1>2. position \in 1..Len(topic)
  BY <1>1
<1>3. topic[position] \in Records
  BY <1>1, <1>2
<1> QED BY Zenon, <1>2, <1>3 DEF Message, Records

\* EachRecord: the next record.
LEMMA FetchKeeps ==
    ASSUME LettersInv, Fetch
    PROVE  LettersInv'
<1>0. /\ TypeOK /\ OperatorInv
      /\ errors = 0 => ConsumerInv /\ \A m \in Messages : Safe(m)
  BY Zenon, Given
<1>1. PICK k : k = position /\ k + 1 \in 0..Len(topic) /\ k + 1 > 0
  <2>1. Len(topic) \in Nat /\ position \in 0..Len(topic) /\ position < Len(topic)
    BY Zenon, <1>0, Lengths DEF Fetch, TypeOK
  <2>2. position + 1 \in 0..Len(topic) /\ position + 1 > 0
    BY <2>1
  <2> QED BY Zenon, <2>1, <2>2
<1>2. /\ pc = "poll" /\ position' = k + 1 /\ pc' \in {"dispatch", "park"} /\ step' = 1
      /\ UNCHANGED <<topic, dlq, committed, sent, run, opPosition, opCommitted, decided,
                     discarded, runs, crashes, errors>>
  BY Zenon, <1>1 DEF Fetch, operator
<1>3. 1 \in 1..Len(Effects) /\ \A e \in 1..1 - 1 : FALSE
  BY DeadLettersAssumption
<1>4. TypeOK'
  BY Zenon, <1>0, <1>1, <1>2, <1>3 DEF TypeOK
<1>5. OperatorInv' /\ Passed' = Passed
  BY Zenon, <1>0, <1>2, OperatorRests
<1>6. ASSUME errors' = 0 PROVE ConsumerInv' /\ \A m \in Messages : Safe(m)'
  <2>1. ConsumerInv /\ \A m \in Messages : Safe(m)
    BY Zenon, <1>0, <1>2, <1>6
  <2>2. ConsumerInv'
    BY Zenon, <1>1, <1>2, <1>3, <2>1 DEF ConsumerInv
  <2>3. Handled' = Handled
    BY Zenon, <1>2 DEF Handled
  <2>4. KeepsAfter({})
    BY Zenon, <1>2, <1>5, <2>3 DEF KeepsAfter, TopicAfter, ParkedAfter, Delivered
  <2> QED BY Zenon, <2>1, <2>2, <2>4, NoneTouched
<1> QED BY Zenon, <1>1, <1>2, <1>4, <1>5, <1>6 DEF LettersInv

\* An effect that was done stays done.
LEMMA SentFacts ==
    ASSUME TypeOK, position > 0, Sent
    PROVE  /\ sent' \in [Messages -> [1..Len(Effects) -> Nat]]
           /\ sent'[Message][step] > 0
           /\ \A m \in Messages : \A e \in 1..Len(Effects) :
                 sent[m][e] > 0 => sent'[m][e] > 0
<1>1. PICK x \in Messages, k \in 1..Len(Effects) : x = Message /\ k = step
  BY Zenon, MessageFacts DEF TypeOK
<1>2. sent \in [Messages -> [1..Len(Effects) -> Nat]]
  BY Zenon DEF TypeOK
<1>3. PICK s : s = [sent EXCEPT ![x][k] = @ + 1] /\ sent' = s
  BY Zenon, <1>1 DEF Sent
<1>4. s \in [Messages -> [1..Len(Effects) -> Nat]]
  BY <1>2, <1>3
<1>5. s[x][k] = sent[x][k] + 1 /\ sent[x][k] \in Nat
  BY <1>2, <1>3
<1>6. ASSUME NEW m \in Messages, NEW e \in 1..Len(Effects), sent[m][e] > 0
      PROVE  s[m][e] > 0
  BY <1>2, <1>3, <1>6
<1>7. s[x][k] > 0
  BY <1>5
<1> QED BY Zenon, <1>1, <1>3, <1>4, <1>6, <1>7

\* Dispatch and AppendTransferEntries: the effects one after the other.  The message
\* is delivered when its record is due to be committed.
LEMMA DispatchKeeps ==
    ASSUME LettersInv, Dispatch
    PROVE  LettersInv'
<1>0. /\ TypeOK /\ OperatorInv /\ position > 0
      /\ errors = 0 => ConsumerInv /\ \A m \in Messages : Safe(m)
      /\ errors + 1 \in Nat /\ errors + 1 # 0
  BY Zenon, Given DEF Dispatch
<1>1. /\ pc = "dispatch" /\ pc' \in {"poll", "dispatch", "commit"}
      /\ UNCHANGED <<topic, dlq, committed, position, run, opPosition, opCommitted, decided,
                     discarded, runs, crashes>>
      /\ Sent \/ UNCHANGED sent
      /\ errors' \in {errors, errors + 1}
  BY Zenon DEF Dispatch, operator, Fail
<1>2. /\ sent' \in [Messages -> [1..Len(Effects) -> Nat]]
      /\ \A m \in Messages : \A e \in 1..Len(Effects) :
            sent[m][e] > 0 => sent'[m][e] > 0
  BY Zenon, <1>0, <1>1, SentFacts DEF TypeOK
<1>3. /\ step \in 1..Len(Effects) /\ step' \in 1..Len(Effects)
      /\ \A e \in 1..(step + 1) - 1 : e \in 1..Len(Effects) /\ (e = step \/ e \in 1..step - 1)
  <2>1. step \in 1..Len(Effects)
    BY Zenon, <1>0 DEF TypeOK
  <2>2. step < Len(Effects) => step + 1 \in 1..Len(Effects)
    BY <2>1, DeadLettersAssumption
  <2>3. \A e \in 1..(step + 1) - 1 : e \in 1..Len(Effects) /\ (e = step \/ e \in 1..step - 1)
    BY <2>1, DeadLettersAssumption
  <2> QED BY Zenon, <2>1, <2>2, <2>3 DEF Dispatch
<1>4. TypeOK'
  <2>1. errors' \in Nat
    BY Zenon, <1>0, <1>1, Given
  <2> QED BY Zenon, <1>0, <1>1, <1>2, <1>3, <2>1 DEF TypeOK
<1>5. OperatorInv' /\ Passed' = Passed
  BY Zenon, <1>0, <1>1, OperatorRests
<1>6. ASSUME errors' = 0 PROVE ConsumerInv' /\ \A m \in Messages : Safe(m)'
  <2>1. errors = 0 /\ Sent
    BY Zenon, <1>0, <1>1, <1>6 DEF Dispatch, Fail
  <2>2. ConsumerInv /\ \A m \in Messages : Safe(m)
    BY Zenon, <1>0, <2>1
  <2>3. PICK x \in Messages : x = Message /\ x = Message' /\ x = topic[position].msg
    BY Zenon, <1>0, <1>1, MessageFacts DEF Message
  <2>4. \A e \in 1..(step + 1) - 1 : sent'[x][e] > 0
    <3>1. sent'[x][step] > 0
      BY Zenon, <1>0, <2>1, <2>3, SentFacts
    <3>2. \A e \in 1..step - 1 : sent[x][e] > 0
      BY Zenon, <1>1, <2>2, <2>3 DEF ConsumerInv
    <3> QED BY Zenon, <1>2, <1>3, <3>1, <3>2
  <2>5. position = committed + 1
    BY Zenon, <1>1, <2>2 DEF ConsumerInv
  <2>6. \A m \in Messages : Delivered(m) => Delivered(m)'
    BY Zenon, <1>2 DEF Delivered
  <2>7. CASE step' = step + 1 /\ UNCHANGED pc
    <3>1. ConsumerInv'
      <4>1. \A e \in 1..step' - 1 : sent'[Message'][e] > 0
        BY Zenon, <2>3, <2>4, <2>7
      <4>2. pc' = "dispatch" /\ position' = committed' + 1
        BY Zenon, <1>1, <2>5, <2>7
      <4> QED BY Zenon, <4>1, <4>2 DEF ConsumerInv
    <3>2. Handled' = Handled
      BY Zenon, <1>1, <2>7 DEF Handled
    <3>3. KeepsAfter({})
      BY Zenon, <1>1, <1>5, <2>6, <3>2 DEF KeepsAfter, TopicAfter, ParkedAfter
    <3> QED BY Zenon, <2>2, <3>1, <3>3, NoneTouched
  <2>8. CASE step = Len(Effects) /\ pc' = "commit"
    <3>1. ConsumerInv'
      BY Zenon, <1>1, <2>5, <2>8 DEF ConsumerInv
    <3>2. Delivered(x)'
      <4>1. \A n \in Nat : \A k \in 1..n : k = (k + 1) - 1
        OBVIOUS
      <4>2. step = (step + 1) - 1
        BY Zenon, <1>3, <4>1, DeadLettersAssumption
      <4> QED BY Zenon, <2>4, <2>8, <4>2 DEF Delivered
    <3>3. Safe(x)'
      BY Zenon, <3>2 DEF Safe
    <3>4. TopicAfter({x}) /\ ParkedAfter({x})
      <4>1. PICK a \in Nat : a = Handled /\ a + 1 = position
        BY Zenon, <1>0, <1>1, <2>5, OffsetFacts DEF Handled
      <4>2. Grows /\ Handled' = a + 1
        BY Zenon, <1>0, <1>1, <2>8, <4>1, GrowFacts DEF Handled
      <4>3. x = topic[a + 1].msg
        BY Zenon, <2>3, <4>1
      <4>4. TopicAfter({x})
        BY Zenon, <1>0, <4>1, <4>2, <4>3, TopicNext
      <4> QED BY Zenon, <1>1, <1>5, <4>4 DEF ParkedAfter
    <3>5. KeepsAfter({x})
      BY Zenon, <1>1, <2>6, <3>4 DEF KeepsAfter
    <3> QED BY Zenon, <2>2, <3>1, <3>3, <3>5, AllSafe
  <2> QED BY Zenon, <1>0, <1>6, <2>1, <2>7, <2>8 DEF Dispatch, Fail
<1> QED BY Zenon, <1>0, <1>1, <1>4, <1>5, <1>6 DEF LettersInv

\* deadLetter: the record is on the dead-letter topic, after the operator's offset,
\* when it is due to be committed.
LEMMA ParkKeeps ==
    ASSUME LettersInv, Park
    PROVE  LettersInv'
<1>0. /\ TypeOK /\ OperatorInv /\ position > 0
      /\ errors = 0 => ConsumerInv /\ \A m \in Messages : Safe(m)
      /\ errors + 1 \in Nat /\ errors + 1 # 0
  BY Zenon, Given DEF Park
<1>1. /\ pc = "park" /\ pc' \in {"poll", "commit"}
      /\ UNCHANGED <<topic, committed, position, step, sent, run, opPosition, opCommitted,
                     decided, discarded, runs, crashes>>
      /\ Parks \/ UNCHANGED dlq
      /\ errors' \in {errors, errors + 1}
      /\ errors' # errors + 1 => Parks /\ pc' = "commit"
  BY Zenon DEF Park, operator, Fail
<1>2. PICK x \in Messages : x = Message /\ x = topic[position].msg
  BY Zenon, <1>0, MessageFacts DEF Message
<1>3. PICK r \in Parked : r = [msg |-> x, known |-> TRUE] /\ r.msg = x
  <2>1. [msg |-> x, known |-> TRUE] \in Parked /\ [msg |-> x, known |-> TRUE].msg = x
    BY DEF Parked
  <2> QED BY Zenon, <2>1
<1>4. Parks => /\ Grows /\ dlq' \in Seq(Parked) /\ Len(dlq)' = Len(dlq) + 1
               /\ dlq'[Len(dlq) + 1] = r
  <2>1. Parks => dlq' = Append(dlq, r)
    BY Zenon, <1>2, <1>3 DEF Parks
  <2> QED BY Zenon, <1>0, <1>1, <2>1, GrowFacts
<1>5. /\ Len(dlq) \in Nat
      /\ \A k \in 0..Len(dlq) : k \in 0..Len(dlq) + 1 /\ Len(dlq) + 1 \in k + 1..Len(dlq) + 1
      /\ \A k \in 1..Len(dlq) : k \in 1..Len(dlq) + 1
  <2>1. Len(dlq) \in Nat
    BY Zenon, <1>0, Lengths
  <2> QED BY <2>1
<1>6. TypeOK'
  <2>1. errors' \in Nat
    BY Zenon, <1>0, <1>1, Given
  <2>2. /\ dlq' \in Seq(Parked) /\ opPosition' \in 0..Len(dlq)' /\ opCommitted' \in 0..Len(dlq)'
        /\ decided' \subseteq 1..Len(dlq)'
    <3>1. CASE UNCHANGED dlq
      BY Zenon, <1>0, <1>1, <3>1 DEF TypeOK
    <3>2. CASE Parks
      <4>1. opPosition \in 0..Len(dlq) /\ opCommitted \in 0..Len(dlq) /\ decided \subseteq 1..Len(dlq)
        BY Zenon, <1>0 DEF TypeOK
      <4> QED BY Zenon, <1>1, <1>4, <1>5, <3>2, <4>1
    <3> QED BY Zenon, <1>1, <3>1, <3>2
  <2> QED BY Zenon, <1>0, <1>1, <2>1, <2>2 DEF TypeOK
<1>7. OperatorInv' /\ Passed' = Passed
  BY Zenon, <1>0, <1>1, OperatorRests
<1>8. ASSUME errors' = 0 PROVE ConsumerInv' /\ \A m \in Messages : Safe(m)'
  <2>1. errors = 0 /\ Parks /\ pc' = "commit"
    BY Zenon, <1>0, <1>1, <1>8
  <2>2. ConsumerInv /\ \A m \in Messages : Safe(m)
    BY Zenon, <1>0, <2>1
  <2>3. position = committed + 1
    BY Zenon, <1>1, <2>2 DEF ConsumerInv
  <2>4. ConsumerInv'
    BY Zenon, <1>1, <2>1, <2>3 DEF ConsumerInv
  <2>5. Passed \in 0..Len(dlq) /\ Passed \in Nat /\ Passed <= Passed
    <3>1. Passed \in 0..Len(dlq) /\ Passed \in Nat
      BY Zenon, <1>0, OffsetFacts
    <3> QED BY <3>1
  <2>6. Safe(x)'
    <3>1. PICK k : k = Len(dlq) + 1 /\ k \in Passed + 1..k /\ Len(dlq)' = k /\ dlq'[k].msg = x
      BY Zenon, <1>3, <1>4, <1>5, <2>1, <2>5
    <3>2. k \in (Passed + 1..Len(dlq))'
      BY Zenon, <1>7, <3>1
    <3> QED BY Zenon, <3>1, <3>2 DEF Safe
  <2>7. TopicAfter({x})
    <3>1. PICK a \in Nat : a = Handled /\ a + 1 = position
      BY Zenon, <1>0, <1>1, <2>3, OffsetFacts DEF Handled
    <3>2. Handled' = a + 1 /\ x = topic[a + 1].msg
      BY Zenon, <1>1, <1>2, <2>1, <3>1 DEF Handled
    <3>3. Grows
      BY Zenon, <1>4, <2>1
    <3> QED BY Zenon, <1>0, <3>1, <3>2, <3>3, TopicNext
  <2>8. ParkedAfter({x})
    BY Zenon, <1>0, <1>4, <1>7, <2>1, <2>5, ParkedStays
  <2>9. KeepsAfter({x})
    BY Zenon, <1>1, <2>7, <2>8 DEF KeepsAfter, Delivered
  <2> QED BY Zenon, <2>2, <2>4, <2>6, <2>9, AllSafe
<1> QED BY Zenon, <1>0, <1>1, <1>6, <1>7, <1>8 DEF LettersInv

\* A record that is committed was delivered or parked before.
LEMMA CommitKeeps ==
    ASSUME LettersInv, Commit
    PROVE  LettersInv'
<1>0. /\ TypeOK /\ OperatorInv /\ position > 0
      /\ errors = 0 => ConsumerInv /\ \A m \in Messages : Safe(m)
      /\ errors + 1 \in Nat /\ errors + 1 # 0
  BY Zenon, Given DEF Commit
<1>1. /\ pc = "commit" /\ pc' = "poll" /\ committed' \in {committed, position}
      /\ UNCHANGED <<topic, dlq, position, step, sent, run, opPosition, opCommitted, decided,
                     discarded, runs, crashes>>
      /\ errors' \in {errors, errors + 1}
      /\ errors' # errors + 1 => committed' = position
  BY Zenon DEF Commit, operator, Fail
<1>2. TypeOK'
  <2>1. errors' \in Nat
    BY Zenon, <1>0, <1>1, Given
  <2> QED BY Zenon, <1>0, <1>1, <2>1 DEF TypeOK
<1>3. OperatorInv' /\ Passed' = Passed
  BY Zenon, <1>0, <1>1, OperatorRests
<1>4. ASSUME errors' = 0 PROVE ConsumerInv' /\ \A m \in Messages : Safe(m)'
  <2>1. errors = 0 /\ committed' = position
    BY Zenon, <1>0, <1>1, <1>4
  <2>2. ConsumerInv' /\ Handled' = Handled
    BY Zenon, <1>1, <2>1 DEF ConsumerInv, Handled
  <2>3. KeepsAfter({})
    BY Zenon, <1>1, <1>3, <2>2 DEF KeepsAfter, TopicAfter, ParkedAfter, Delivered
  <2> QED BY Zenon, <1>0, <2>1, <2>2, <2>3, NoneTouched
<1> QED BY Zenon, <1>1, <1>2, <1>3, <1>4 DEF LettersInv

\* The consumer restarts at its committed offset, which is not past the one that
\* stands.
LEMMA RestartKeeps ==
    ASSUME LettersInv, Restart
    PROVE  LettersInv'
<1>0. /\ TypeOK /\ OperatorInv
      /\ errors = 0 => ConsumerInv /\ \A m \in Messages : Safe(m)
      /\ crashes + 1 \in Nat
  BY Zenon, Given
<1>1. /\ pc' = "poll" /\ position' = committed /\ step' = 1 /\ crashes' = crashes + 1
      /\ UNCHANGED <<topic, dlq, committed, sent, run, opPosition, opCommitted, decided,
                     discarded, runs, errors>>
  BY Zenon DEF Restart, operator
<1>2. 1 \in 1..Len(Effects)
  BY DeadLettersAssumption
<1>3. TypeOK'
  BY Zenon, <1>0, <1>1, <1>2 DEF TypeOK
<1>4. OperatorInv' /\ Passed' = Passed
  BY Zenon, <1>0, <1>1, OperatorRests
<1>5. ASSUME errors' = 0 PROVE ConsumerInv' /\ \A m \in Messages : Safe(m)'
  <2>1. ConsumerInv /\ \A m \in Messages : Safe(m)
    BY Zenon, <1>0, <1>1, <1>5
  <2>2. ConsumerInv'
    BY Zenon, <1>1 DEF ConsumerInv
  <2>3. committed \in Nat /\ committed <= committed /\ committed <= committed + 1
    <3>1. committed \in 0..Len(topic) /\ Len(topic) \in Nat
      BY Zenon, <1>0, Lengths DEF TypeOK
    <3> QED BY <3>1
  <2>4. Handled' = committed /\ committed <= Handled
    BY Zenon, <1>1, <2>1, <2>3 DEF Handled, ConsumerInv
  <2>5. Grows
    BY Zenon, <1>0, <1>1, GrowFacts
  <2>6. TopicAfter({})
    BY Zenon, <1>0, <2>3, <2>4, <2>5, TopicStays
  <2>7. KeepsAfter({})
    BY Zenon, <1>1, <1>4, <2>6 DEF KeepsAfter, ParkedAfter, Delivered
  <2> QED BY Zenon, <2>1, <2>2, <2>7, NoneTouched
<1> QED BY Zenon, <1>1, <1>3, <1>4, <1>5 DEF LettersInv

-----------------------------------------------------------------------------
(* The steps of dlq-redrive.                                               *)

\* The consumer is not concerned, though the topic may grow.
LEMMA ConsumerRests ==
    ASSUME LettersInv, Grows, UNCHANGED <<committed, position, pc, step, sent>>
    PROVE  /\ Handled' = Handled
           /\ committed' \in 0..Len(topic)' /\ position' \in 0..Len(topic)'
           /\ (pc # "poll" => position > 0)'
           /\ ConsumerInv => ConsumerInv'
           /\ \A X : TopicAfter(X)
<1>0. TypeOK /\ (pc # "poll" => position > 0)
  BY Zenon, Given
<1>1. PICK n \in Nat, k \in Nat : n = Len(topic) /\ k = Len(topic)' /\ n <= k
  BY Zenon, <1>0, Lengths DEF Grows
<1>2. committed \in 0..n /\ position \in 0..n
  BY Zenon, <1>0, <1>1 DEF TypeOK
<1>3. \A i \in 0..n : i \in 0..k
  BY <1>1
<1>4. pc # "poll" => Message' = Message
  BY Zenon, <1>0, MessageFacts DEF Message, Grows
<1>5. ConsumerInv => ConsumerInv'
  BY Zenon, <1>4 DEF ConsumerInv
<1>6. Handled' = Handled
  BY Zenon DEF Handled
<1>7. PICK h \in Nat : h = Handled /\ h <= h
  <2>1. Handled \in Nat
    BY Zenon, <1>0, OffsetFacts
  <2>2. Handled <= Handled
    BY <2>1
  <2> QED BY Zenon, <2>1, <2>2
<1>8. ASSUME NEW X PROVE TopicAfter(X)
  BY Zenon, <1>0, <1>6, <1>7, TopicStays
<1> QED BY Zenon, <1>0, <1>1, <1>2, <1>3, <1>5, <1>6, <1>8

\* What a run of dlq-redrive becomes.
LEMMA RunFacts ==
    ASSUME run \in Runs
    PROVE  /\ NoRun \in Runs /\ ~NoRun.on
           /\ \A o \in Options : Started(o) \in Runs /\ Started(o).on /\ Started(o).at = "poll"
           /\ run.on =>
                 /\ [run EXCEPT !.at = "poll", !.seen = TRUE] \in Runs
                 /\ [run EXCEPT !.at = "poll", !.seen = TRUE].on
                 /\ [run EXCEPT !.at = "poll", !.seen = TRUE].action = run.action
                 /\ [run EXCEPT !.at = "poll", !.seen = TRUE].at = "poll"
                 /\ [run EXCEPT !.at = "commit"] \in Runs
                 /\ [run EXCEPT !.at = "commit"].on
                 /\ [run EXCEPT !.at = "commit"].action = run.action
                 /\ [run EXCEPT !.at = "commit"].at = "commit"
                 /\ run.fix \in BOOLEAN /\ run.at \in {"poll", "commit"}
<1>1. NoRun \in Runs /\ ~NoRun.on
  BY DEF NoRun, Runs
<1>2. ASSUME NEW o \in Options
      PROVE  Started(o) \in Runs /\ Started(o).on /\ Started(o).at = "poll"
  <2>1. o.action \in {"list", "discard", "redrive"} /\ o.all \in BOOLEAN /\ o.fix \in BOOLEAN
    BY Zenon DEF Options
  <2> QED BY <2>1 DEF Started, Runs
<1>3. ASSUME run.on
      PROVE  run \in [on : {TRUE}, action : {"list", "discard", "redrive"}, all : BOOLEAN,
                      fix : BOOLEAN, at : {"poll", "commit"}, seen : BOOLEAN]
  BY Zenon, <1>1, <1>3 DEF Runs
<1>4. ASSUME run.on
      PROVE  /\ [run EXCEPT !.at = "poll", !.seen = TRUE] \in Runs
             /\ [run EXCEPT !.at = "poll", !.seen = TRUE].on
             /\ [run EXCEPT !.at = "poll", !.seen = TRUE].action = run.action
             /\ [run EXCEPT !.at = "poll", !.seen = TRUE].at = "poll"
  BY Zenon, <1>3, <1>4 DEF Runs
<1>5. ASSUME run.on
      PROVE  /\ [run EXCEPT !.at = "commit"] \in Runs
             /\ [run EXCEPT !.at = "commit"].on
             /\ [run EXCEPT !.at = "commit"].action = run.action
             /\ [run EXCEPT !.at = "commit"].at = "commit"
             /\ run.fix \in BOOLEAN /\ run.at \in {"poll", "commit"}
  BY Zenon, <1>3, <1>5 DEF Runs
<1> QED BY Zenon, <1>1, <1>2, <1>4, <1>5

\* A step of the operator that leaves the consumer alone.
OperatorStep ==
    /\ Grows /\ topic' \in Seq(Records) /\ dlq' = dlq
    /\ UNCHANGED <<committed, position, pc, step, sent>>
    /\ run' \in Runs
    /\ opPosition' \in 0..Len(dlq) /\ opCommitted' \in 0..Len(dlq)
    /\ decided' \subseteq 1..Len(dlq)
    /\ discarded \subseteq discarded' /\ discarded' \subseteq Messages
    /\ runs' \in Nat /\ crashes' \in Nat /\ errors' \in Nat
    /\ OperatorInv'
    /\ errors' = 0 => errors = 0

\* It keeps the invariant if it keeps the messages safe while no call fails.
LEMMA OperatorKeeps ==
    ASSUME LettersInv, OperatorStep,
           errors' = 0 => \/ ParkedAfter({})
                          \/ \E x \in Messages : ParkedAfter({x}) /\ Safe(x)'
    PROVE  LettersInv'
<1>0. TypeOK /\ (errors = 0 => ConsumerInv /\ \A m \in Messages : Safe(m))
  BY Zenon, Given
<1>1. /\ committed' \in 0..Len(topic)' /\ position' \in 0..Len(topic)'
      /\ (pc # "poll" => position > 0)'
      /\ ConsumerInv => ConsumerInv'
      /\ \A X : TopicAfter(X)
  BY Zenon, ConsumerRests DEF OperatorStep
<1>2. TypeOK'
  BY Zenon, <1>0, <1>1 DEF OperatorStep, TypeOK
<1>3. ASSUME errors' = 0 PROVE ConsumerInv' /\ \A m \in Messages : Safe(m)'
  <2>1. ConsumerInv /\ \A m \in Messages : Safe(m)
    BY Zenon, <1>0, <1>3 DEF OperatorStep
  <2>2. \A m \in Messages : Delivered(m) => Delivered(m)'
    BY Zenon DEF OperatorStep, Delivered
  <2>3. CASE ParkedAfter({})
    <3>1. KeepsAfter({})
      BY Zenon, <1>1, <2>2, <2>3 DEF KeepsAfter, OperatorStep
    <3> QED BY Zenon, <1>1, <2>1, <3>1, NoneTouched
  <2>4. CASE \E x \in Messages : ParkedAfter({x}) /\ Safe(x)'
    <3>1. PICK x \in Messages : ParkedAfter({x}) /\ Safe(x)'
      BY Zenon, <2>4
    <3>2. KeepsAfter({x})
      BY Zenon, <1>1, <2>2, <3>1 DEF KeepsAfter, OperatorStep
    <3> QED BY Zenon, <1>1, <2>1, <3>1, <3>2, AllSafe
  <2> QED BY Zenon, <1>3, <2>3, <2>4
<1> QED BY Zenon, <1>1, <1>2, <1>3 DEF LettersInv, OperatorStep

\* The record that a run decides next.
LEMMA DecidingFacts ==
    ASSUME LettersInv, NEW a, Deciding(a)
    PROVE  /\ run \in Runs /\ run.on /\ run.action = a /\ run.at = "poll"
           /\ opPosition' = opPosition + 1
           /\ opPosition + 1 \in 1..Len(dlq) /\ opPosition + 1 \in 0..Len(dlq)
           /\ dlq[opPosition + 1] \in Parked /\ dlq[opPosition + 1].msg \in Messages
           /\ Passed = opCommitted
           /\ a # "list" => /\ opPosition = opCommitted
                            /\ \A i \in 1..opPosition + 1 : i = opPosition + 1 \/ i \in 1..opCommitted
<1>0. TypeOK /\ OperatorInv
  BY Zenon, Given
<1>1. /\ run \in Runs /\ run.on /\ run.action = a /\ run.at = "poll"
      /\ opPosition < Len(dlq) /\ opPosition' = opPosition + 1
  BY Zenon, <1>0 DEF Deciding, TypeOK
<1>2. opPosition \in 0..Len(dlq) /\ dlq \in Seq(Parked) /\ Len(dlq) \in Nat
  BY Zenon, <1>0, Lengths DEF TypeOK
<1>3. opPosition + 1 \in 1..Len(dlq) /\ opPosition + 1 \in 0..Len(dlq)
  BY <1>1, <1>2
<1>4. dlq[opPosition + 1] \in Parked
  BY <1>2, <1>3
<1>5. dlq[opPosition + 1].msg \in Messages
  BY Zenon, <1>4 DEF Parked
<1>6. Passed = opCommitted
  BY Zenon, <1>1 DEF Passed
<1>7. a # "list" => opPosition = opCommitted
  BY Zenon, <1>0, <1>1 DEF OperatorInv
<1>8. \A i \in 1..opPosition + 1 : i = opPosition + 1 \/ i \in 1..opPosition
  BY <1>2
<1> QED BY Zenon, <1>1, <1>3, <1>4, <1>5, <1>6, <1>7, <1>8

\* What a step of a run starts from.
LEMMA RunGiven ==
    ASSUME LettersInv
    PROVE  /\ run \in Runs /\ OperatorInv /\ CommitOnlyIfDecided
           /\ topic \in Seq(Records) /\ dlq \in Seq(Parked)
           /\ opPosition \in 0..Len(dlq) /\ opCommitted \in 0..Len(dlq)
           /\ decided \subseteq 1..Len(dlq) /\ discarded \subseteq Messages
           /\ Passed \in Nat /\ Passed <= Passed /\ opCommitted \in Nat /\ opCommitted <= opCommitted
           /\ topic' = topic /\ dlq' = dlq => Grows
<1>0. TypeOK /\ OperatorInv
  BY Zenon, Given
<1>1. /\ Passed \in Nat /\ opCommitted \in 0..Len(dlq) /\ Len(dlq) \in Nat
  BY Zenon, <1>0, OffsetFacts, Lengths DEF TypeOK
<1>2. Passed <= Passed /\ opCommitted \in Nat /\ opCommitted <= opCommitted
  BY <1>1
<1> QED BY Zenon, <1>0, <1>1, <1>2, GrowFacts DEF TypeOK, OperatorInv

\* A run starts at the committed offset, and ends where it is.
LEMMA RunBordersKeep ==
    ASSUME LettersInv, StartRun \/ EndRun \/ Interrupt
    PROVE  LettersInv'
<1>0. /\ run \in Runs /\ OperatorInv /\ CommitOnlyIfDecided
      /\ topic \in Seq(Records)
      /\ opPosition \in 0..Len(dlq) /\ opCommitted \in 0..Len(dlq)
      /\ decided \subseteq 1..Len(dlq) /\ discarded \subseteq Messages
      /\ Passed \in Nat /\ Passed <= Passed /\ opCommitted \in Nat /\ opCommitted <= opCommitted
  BY Zenon, RunGiven
<1>1. /\ UNCHANGED <<topic, dlq, committed, position, pc, step, sent, opCommitted, decided,
                     discarded, errors>>
      /\ runs' \in {runs, runs + 1} /\ crashes' \in {crashes, crashes + 1}
  BY Zenon DEF StartRun, EndRun, Interrupt, consumer
<1>2. Grows /\ runs' \in Nat /\ crashes' \in Nat /\ errors' \in Nat
  BY Zenon, <1>1, Given, RunGiven
<1>3. /\ run' \in Runs /\ opPosition' \in {opPosition, opCommitted}
      /\ run'.on => ~run.on /\ run'.at = "poll" /\ opPosition' = opCommitted
  BY Zenon, <1>0, RunFacts DEF StartRun, EndRun, Interrupt
<1>4. OperatorInv'
  BY Zenon, <1>0, <1>1, <1>3 DEF OperatorInv, CommitOnlyIfDecided
<1>5. OperatorStep
  BY Zenon, <1>0, <1>1, <1>2, <1>3, <1>4 DEF OperatorStep
<1>6. Passed' = opCommitted
  BY Zenon, <1>1, <1>3 DEF Passed
<1>7. opCommitted <= Passed
  <2>1. opCommitted <= opCommitted + 1
    BY <1>0
  <2> QED BY Zenon, <1>0, <2>1 DEF Passed, OperatorInv
<1>8. ParkedAfter({})
  BY Zenon, <1>0, <1>2, <1>6, <1>7, Given, ParkedStays
<1> QED BY Zenon, <1>5, <1>8, OperatorKeeps

\* list commits nothing.
LEMMA ListKeeps ==
    ASSUME LettersInv, List
    PROVE  LettersInv'
<1>0. /\ OperatorInv /\ CommitOnlyIfDecided
      /\ topic \in Seq(Records)
      /\ opCommitted \in 0..Len(dlq)
      /\ decided \subseteq 1..Len(dlq) /\ discarded \subseteq Messages
      /\ opCommitted \in Nat /\ opCommitted <= opCommitted
  BY Zenon, RunGiven
<1>1. /\ run \in Runs /\ run.on /\ run.action = "list" /\ run.at = "poll"
      /\ opPosition' \in 0..Len(dlq) /\ Passed = opCommitted
  BY Zenon, DecidingFacts DEF List
<1>2. UNCHANGED <<topic, dlq, committed, position, pc, step, sent, opCommitted, decided,
                  discarded, runs, crashes, errors>>
  BY Zenon DEF List, consumer
<1>3. Grows /\ runs' \in Nat /\ crashes' \in Nat /\ errors' \in Nat
  BY Zenon, <1>2, Given, RunGiven
<1>4. run' \in Runs /\ run'.action = "list" /\ run'.at = "poll"
  BY Zenon, <1>1, RunFacts DEF List, DecidedOne
<1>5. OperatorInv'
  BY Zenon, <1>0, <1>2, <1>4 DEF OperatorInv, CommitOnlyIfDecided
<1>6. OperatorStep
  BY Zenon, <1>0, <1>1, <1>2, <1>3, <1>4, <1>5 DEF OperatorStep
<1>7. Passed' = opCommitted /\ opCommitted <= Passed
  BY Zenon, <1>0, <1>1, <1>2, <1>4 DEF Passed
<1>8. ParkedAfter({})
  BY Zenon, <1>0, <1>3, <1>7, Given, ParkedStays
<1> QED BY Zenon, <1>6, <1>8, OperatorKeeps

\* A run that is cut off by a failing call owes nothing more, if what it committed
\* was decided.
LEMMA FailKeeps ==
    ASSUME LettersInv, Fail, run' = NoRun,
           Grows, topic' \in Seq(Records), dlq' = dlq,
           UNCHANGED <<committed, position, pc, step, sent, runs, crashes>>,
           opPosition' \in 0..Len(dlq), opCommitted' \in 0..Len(dlq),
           decided' \subseteq 1..Len(dlq), CommitOnlyIfDecided',
           discarded \subseteq discarded', discarded' \subseteq Messages
    PROVE  LettersInv'
<1>1. NoRun \in Runs /\ ~NoRun.on
  BY Zenon, RunGiven, RunFacts
<1>2. errors' \in Nat /\ errors' # 0 /\ runs' \in Nat /\ crashes' \in Nat
  BY Zenon, Given DEF Fail
<1>3. OperatorInv'
  BY Zenon, <1>1 DEF OperatorInv
<1>4. OperatorStep
  BY Zenon, <1>1, <1>2, <1>3 DEF OperatorStep
<1> QED BY Zenon, <1>2, <1>4, OperatorKeeps

\* discard: the message is dropped as its record is committed.
LEMMA DiscardKeeps ==
    ASSUME LettersInv, Discard
    PROVE  LettersInv'
<1>0. /\ CommitOnlyIfDecided
      /\ topic \in Seq(Records)
      /\ opCommitted \in 0..Len(dlq) /\ opCommitted \in Nat
      /\ decided \subseteq 1..Len(dlq) /\ discarded \subseteq Messages
  BY Zenon, RunGiven
<1>1. PICK p \in 1..Len(dlq) :
         /\ run \in Runs /\ run.on /\ run.action = "discard" /\ run.at = "poll"
         /\ p = opPosition + 1 /\ p = opPosition' /\ p \in 0..Len(dlq)
         /\ dlq[p] \in Parked /\ dlq[p].msg \in Messages
         /\ p = opCommitted + 1 /\ Passed = opCommitted
         /\ \A i \in 1..p : i = p \/ i \in 1..opCommitted
  <2>1. Deciding("discard") /\ "discard" # "list"
    BY Zenon DEF Discard
  <2>2. PICK a : a = "discard" /\ Deciding(a) /\ a # "list"
    BY Zenon, <2>1
  <2>3. /\ run \in Runs /\ run.on /\ run.action = a /\ run.at = "poll"
        /\ opPosition' = opPosition + 1
        /\ opPosition + 1 \in 1..Len(dlq) /\ opPosition + 1 \in 0..Len(dlq)
        /\ dlq[opPosition + 1] \in Parked /\ dlq[opPosition + 1].msg \in Messages
        /\ Passed = opCommitted /\ opPosition = opCommitted
        /\ \A i \in 1..opPosition + 1 : i = opPosition + 1 \/ i \in 1..opCommitted
    BY Zenon, <2>2, DecidingFacts
  <2> QED BY Zenon, <2>2, <2>3
<1>2. UNCHANGED <<topic, dlq, committed, position, pc, step, sent, runs, crashes>>
  BY Zenon DEF Discard, consumer
<1>3. Grows /\ runs' \in Nat /\ crashes' \in Nat /\ errors \in Nat
  BY Zenon, <1>2, Given, RunGiven
<1>4. Drop => /\ opCommitted' = p /\ decided' = decided \cup {p}
              /\ discarded' = discarded \cup {dlq[p].msg}
              /\ decided' \subseteq 1..Len(dlq) /\ CommitOnlyIfDecided'
              /\ discarded \subseteq discarded' /\ discarded' \subseteq Messages
  BY Zenon, <1>0, <1>1 DEF Drop, CommitOnlyIfDecided
<1>5. CASE Drop /\ DecidedOne /\ UNCHANGED errors
  <2>1. run' \in Runs /\ run'.action = "discard" /\ run'.at = "poll" /\ run'.on
    BY Zenon, <1>1, <1>5, RunFacts DEF DecidedOne
  <2>2. OperatorInv'
    BY Zenon, <1>1, <1>4, <1>5, <2>1 DEF OperatorInv
  <2>3. OperatorStep
    BY Zenon, <1>0, <1>1, <1>2, <1>3, <1>4, <1>5, <2>1, <2>2 DEF OperatorStep
  <2>4. Passed' = opCommitted + 1
    BY Zenon, <1>1, <1>4, <1>5, <2>1 DEF Passed
  <2>5. PICK x \in Messages : x = dlq[opCommitted + 1].msg /\ x \in discarded'
    BY Zenon, <1>1, <1>4, <1>5
  <2>6. ParkedAfter({x})
    BY Zenon, <1>0, <1>1, <1>3, <2>4, <2>5, Given, ParkedNext
  <2>7. Safe(x)'
    BY Zenon, <2>5 DEF Safe
  <2> QED BY Zenon, <2>3, <2>6, <2>7, OperatorKeeps
<1>6. CASE /\ Drop \/ UNCHANGED <<opCommitted, decided, discarded>>
           /\ Fail /\ run' = NoRun
  <2>1. /\ opPosition' \in 0..Len(dlq) /\ opCommitted' \in 0..Len(dlq)
        /\ decided' \subseteq 1..Len(dlq) /\ CommitOnlyIfDecided'
        /\ discarded \subseteq discarded' /\ discarded' \subseteq Messages
    <3>1. CASE Drop
      BY Zenon, <1>1, <1>4, <3>1
    <3>2. CASE UNCHANGED <<opCommitted, decided, discarded>>
      BY Zenon, <1>0, <1>1, <3>2 DEF CommitOnlyIfDecided
    <3> QED BY Zenon, <1>6, <3>1, <3>2
  <2>2. topic' \in Seq(Records)
    BY Zenon, <1>0, <1>2
  <2> QED BY Zenon, <1>2, <1>3, <1>6, <2>1, <2>2, FailKeeps
<1> QED BY Zenon, <1>5, <1>6 DEF Discard

\* redrive: the message is on the source topic again, after the consumer's offset,
\* when its parked record is due to be committed.
LEMMA RedriveKeeps ==
    ASSUME LettersInv, Redrive
    PROVE  LettersInv'
<1>0. /\ CommitOnlyIfDecided
      /\ topic \in Seq(Records)
      /\ opCommitted \in 0..Len(dlq) /\ opCommitted \in Nat
      /\ decided \subseteq 1..Len(dlq) /\ discarded \subseteq Messages
  BY Zenon, RunGiven
<1>1. PICK p \in 1..Len(dlq) :
         /\ run \in Runs /\ run.on /\ run.action = "redrive" /\ run.at = "poll"
         /\ p = opPosition + 1 /\ p = opPosition' /\ p \in 0..Len(dlq)
         /\ dlq[p] \in Parked /\ dlq[p].msg \in Messages
         /\ p = opCommitted + 1 /\ Passed = opCommitted
  <2>1. Deciding("redrive") /\ "redrive" # "list"
    BY Zenon DEF Redrive
  <2>2. PICK a : a = "redrive" /\ Deciding(a) /\ a # "list"
    BY Zenon, <2>1
  <2>3. /\ run \in Runs /\ run.on /\ run.action = a /\ run.at = "poll"
        /\ opPosition' = opPosition + 1
        /\ opPosition + 1 \in 1..Len(dlq) /\ opPosition + 1 \in 0..Len(dlq)
        /\ dlq[opPosition + 1] \in Parked /\ dlq[opPosition + 1].msg \in Messages
        /\ Passed = opCommitted /\ opPosition = opCommitted
    BY Zenon, <2>2, DecidingFacts
  <2> QED BY Zenon, <2>2, <2>3
<1>2. /\ UNCHANGED <<dlq, committed, position, pc, step, sent, opCommitted, discarded,
                     runs, crashes>>
      /\ runs' \in Nat /\ crashes' \in Nat /\ errors \in Nat
  BY Zenon, Given DEF Redrive, consumer
<1>3. PICK r \in Records : r = [msg |-> dlq[p].msg, ok |-> run.fix] /\ r.msg = dlq[p].msg
  <2>1. PICK x \in Messages, f \in BOOLEAN : x = dlq[p].msg /\ f = run.fix
    BY Zenon, <1>1, RunFacts
  <2>2. [msg |-> x, ok |-> f] \in Records /\ [msg |-> x, ok |-> f].msg = x
    BY DEF Records
  <2> QED BY Zenon, <2>1, <2>2
<1>4. Replayed =>
         /\ Grows /\ topic' \in Seq(Records) /\ Len(topic)' = Len(topic) + 1
         /\ topic'[Len(topic) + 1] = r
         /\ decided' = decided \cup {p} /\ decided' \subseteq 1..Len(dlq) /\ CommitOnlyIfDecided'
  <2>1. Replayed => topic' = Append(topic, r) /\ decided' = decided \cup {p}
    BY Zenon, <1>1, <1>3 DEF Replayed
  <2>2. Replayed => CommitOnlyIfDecided' /\ decided' \subseteq 1..Len(dlq)
    BY Zenon, <1>0, <1>2, <2>1 DEF CommitOnlyIfDecided
  <2>3. TypeOK
    BY Zenon, Given
  <2> QED BY Zenon, <1>2, <2>1, <2>2, <2>3, GrowFacts
<1>5. UNCHANGED <<topic, decided>> =>
         Grows /\ topic' \in Seq(Records) /\ decided' \subseteq 1..Len(dlq) /\ CommitOnlyIfDecided'
  BY Zenon, <1>0, <1>2, RunGiven DEF CommitOnlyIfDecided
<1>6. CASE Replayed /\ run' = [run EXCEPT !.at = "commit"] /\ UNCHANGED errors
  <2>1. run' \in Runs /\ run'.action = "redrive" /\ run'.at = "commit" /\ run'.on
    BY Zenon, <1>1, <1>6, RunFacts
  <2>2. opPosition' = opCommitted' + 1 /\ opPosition' \in decided' /\ CommitOnlyIfDecided'
    BY Zenon, <1>1, <1>2, <1>4, <1>6
  <2>3. OperatorInv'
    BY Zenon, <2>1, <2>2 DEF OperatorInv
  <2>4. OperatorStep
    BY Zenon, <1>0, <1>1, <1>2, <1>4, <1>6, <2>1, <2>3 DEF OperatorStep
  <2>5. Passed' = opCommitted + 1
    BY Zenon, <1>1, <2>1 DEF Passed
  <2>6. PICK x \in Messages : x = dlq[opCommitted + 1].msg /\ x = r.msg
    BY Zenon, <1>1, <1>3
  <2>7. ParkedAfter({x})
    BY Zenon, <1>0, <1>1, <1>4, <1>6, <2>5, <2>6, Given, ParkedNext
  <2>8. Safe(x)'
    <3>1. Len(topic) + 1 \in Handled + 1..Len(topic) + 1
      <4>1. Handled \in 0..Len(topic) /\ Len(topic) \in Nat
        BY Zenon, Given, OffsetFacts, Lengths
      <4> QED BY <4>1
    <3>2. Handled' = Handled
      BY Zenon, <1>2, <1>4, <1>6, ConsumerRests
    <3>3. PICK k : k \in (Handled + 1..Len(topic))' /\ topic'[k].msg = x
      BY Zenon, <1>4, <1>6, <2>6, <3>1, <3>2
    <3> QED BY Zenon, <3>3 DEF Safe
  <2> QED BY Zenon, <2>4, <2>7, <2>8, OperatorKeeps
<1>7. CASE (Replayed \/ UNCHANGED <<topic, decided>>) /\ Fail /\ run' = NoRun
  <2>1. /\ Grows /\ topic' \in Seq(Records)
        /\ decided' \subseteq 1..Len(dlq) /\ CommitOnlyIfDecided'
    BY Zenon, <1>4, <1>5, <1>7
  <2>2. /\ opPosition' \in 0..Len(dlq) /\ opCommitted' \in 0..Len(dlq)
        /\ discarded \subseteq discarded' /\ discarded' \subseteq Messages
    BY Zenon, <1>0, <1>1, <1>2
  <2> QED BY Zenon, <1>2, <1>7, <2>1, <2>2, FailKeeps
<1>8. CASE run' = NoRun /\ UNCHANGED <<topic, decided, errors>>
  <2>1. run' \in Runs /\ ~run'.on
    BY Zenon, <1>1, <1>8, RunFacts
  <2>2. OperatorInv'
    BY Zenon, <1>5, <1>8, <2>1 DEF OperatorInv
  <2>3. OperatorStep
    BY Zenon, <1>0, <1>1, <1>2, <1>5, <1>8, <2>1, <2>2 DEF OperatorStep
  <2>4. Passed' = Passed /\ Passed \in Nat /\ Passed <= Passed
    BY Zenon, <1>1, <1>2, <2>1, RunGiven DEF Passed
  <2>5. ParkedAfter({})
    BY Zenon, <1>5, <1>8, <2>4, Given, ParkedStays
  <2> QED BY Zenon, <2>3, <2>5, OperatorKeeps
<1> QED BY Zenon, <1>6, <1>7, <1>8 DEF Redrive

\* The commit of a redriven record passes a record that was replayed.
LEMMA CommitRedriveKeeps ==
    ASSUME LettersInv, CommitRedrive
    PROVE  LettersInv'
<1>0. /\ run \in Runs /\ OperatorInv /\ CommitOnlyIfDecided
      /\ topic \in Seq(Records)
      /\ opPosition \in 0..Len(dlq) /\ opCommitted \in 0..Len(dlq)
      /\ decided \subseteq 1..Len(dlq) /\ discarded \subseteq Messages
      /\ Passed \in Nat /\ Passed <= Passed
  BY Zenon, RunGiven
<1>1. /\ run.on /\ run.at = "commit" /\ opCommitted' \in {opCommitted, opPosition}
      /\ UNCHANGED <<topic, dlq, committed, position, pc, step, sent, opPosition, decided,
                     discarded, runs, crashes>>
  BY Zenon DEF CommitRedrive, consumer
<1>2. Grows /\ topic' \in Seq(Records) /\ runs' \in Nat /\ crashes' \in Nat /\ errors \in Nat
  BY Zenon, <1>0, <1>1, Given, RunGiven
<1>3. run.action = "redrive" /\ opPosition = opCommitted + 1 /\ opPosition \in decided
  BY Zenon, <1>0, <1>1 DEF OperatorInv
<1>4. \A i \in 1..opPosition : i = opPosition \/ i \in 1..opCommitted
  BY <1>0, <1>3
<1>5. /\ CommitOnlyIfDecided' /\ opPosition' \in 0..Len(dlq) /\ opCommitted' \in 0..Len(dlq)
      /\ decided' \subseteq 1..Len(dlq)
      /\ discarded \subseteq discarded' /\ discarded' \subseteq Messages
  BY Zenon, <1>0, <1>1, <1>3, <1>4 DEF CommitOnlyIfDecided
<1>6. CASE opCommitted' = opPosition /\ DecidedOne /\ UNCHANGED errors
  <2>1. run' \in Runs /\ run'.action = "redrive" /\ run'.at = "poll" /\ run'.on
    BY Zenon, <1>0, <1>1, <1>3, <1>6, RunFacts DEF DecidedOne
  <2>2. OperatorInv'
    BY Zenon, <1>1, <1>5, <1>6, <2>1 DEF OperatorInv
  <2>3. OperatorStep
    BY Zenon, <1>1, <1>2, <1>5, <1>6, <2>1, <2>2 DEF OperatorStep
  <2>4. Passed' = Passed
    BY Zenon, <1>1, <1>6, <2>1 DEF Passed
  <2>5. ParkedAfter({})
    BY Zenon, <1>0, <1>2, <2>4, Given, ParkedStays
  <2> QED BY Zenon, <2>3, <2>5, OperatorKeeps
<1>7. CASE Fail /\ run' = NoRun
  BY Zenon, <1>1, <1>2, <1>5, <1>7, FailKeeps
<1> QED BY Zenon, <1>6, <1>7 DEF CommitRedrive

\* Every step keeps the invariant.
LEMMA NextLetters ==
    ASSUME LettersInv, [Next]_vars
    PROVE  LettersInv'
<1>1. CASE UNCHANGED vars
  BY Zenon, <1>1 DEF vars, consumer, operator, LettersInv, TypeOK, OperatorInv, ConsumerInv,
     CommitOnlyIfDecided, Safe, Handled, Passed, Delivered, Message
<1>2. CASE Handle \/ Restart
  BY Zenon, <1>2, FetchKeeps, DispatchKeeps, ParkKeeps, CommitKeeps, RestartKeeps DEF Handle
<1>3. CASE \/ StartRun \/ List \/ Discard \/ Redrive \/ CommitRedrive \/ EndRun \/ Interrupt
  BY Zenon, <1>3, RunBordersKeep, ListKeeps, DiscardKeeps, RedriveKeeps, CommitRedriveKeeps
<1> QED BY Zenon, <1>1, <1>2, <1>3 DEF Next

\* The invariant holds at the start: every message is on one of the topics.
LEMMA InitLetters == Init => LettersInv
<1> SUFFICES ASSUME Init PROVE LettersInv
  OBVIOUS
<1>0. /\ topic = Log /\ dlq = Foreign /\ committed = 0 /\ position = 0
      /\ pc = "poll" /\ step = 1 /\ run = NoRun /\ opPosition = 0 /\ opCommitted = 0
      /\ decided = {} /\ discarded = {} /\ runs = 0 /\ crashes = 0 /\ errors = 0
      /\ sent = [m \in Messages |-> [e \in 1..Len(Effects) |-> 0]]
  BY Zenon DEF Init
<1>1. topic \in Seq(Records) /\ dlq \in Seq(Parked)
  <2>1. PICK S : S = [msg : Messages, known : {FALSE}] /\ S \subseteq Parked
    BY Zenon DEF Parked
  <2>2. Foreign \in Seq(Parked)
    BY Zenon, <2>1, SeqSub, DeadLettersAssumption
  <2> QED BY Zenon, <1>0, <2>2, DeadLettersAssumption
<1>2. Len(topic) \in Nat /\ Len(dlq) \in Nat
  BY <1>1
<1>3. 0 \in 0..Len(topic) /\ 0 \in 0..Len(dlq) /\ 1 \in 1..Len(Effects) /\ 0 \in Nat
  BY <1>2, DeadLettersAssumption
<1>4. NoRun \in Runs /\ ~NoRun.on
  BY DEF NoRun, Runs
<1>5. sent \in [Messages -> [1..Len(Effects) -> Nat]]
  BY <1>0
<1>6. TypeOK
  BY Zenon, <1>0, <1>1, <1>3, <1>4, <1>5 DEF TypeOK
<1>7. OperatorInv
  <2>1. \A i \in 1..0 : FALSE
    OBVIOUS
  <2> QED BY Zenon, <1>0, <1>4, <2>1 DEF OperatorInv, CommitOnlyIfDecided
<1>8. ConsumerInv
  BY Zenon, <1>0 DEF ConsumerInv
<1>9. ASSUME NEW m \in Messages PROVE Safe(m)
  <2>1. Handled = 0 /\ Passed = 0
    BY Zenon, <1>0, <1>4 DEF Handled, Passed
  <2>2. 0 + 1 = 1
    OBVIOUS
  <2>3. \/ \E i \in 1..Len(topic) : topic[i].msg = m
        \/ \E j \in 1..Len(dlq) : dlq[j].msg = m
    BY Zenon, <1>0, DeadLettersAssumption
  <2> QED BY Zenon, <2>1, <2>2, <2>3 DEF Safe
<1> QED BY Zenon, <1>0, <1>6, <1>7, <1>8, <1>9 DEF LettersInv

-----------------------------------------------------------------------------
(* What follows.                                                           *)

\* The invariant holds in every reachable state.
THEOREM LettersInvariant == Spec => []LettersInv
BY InitLetters, NextLetters, PTL DEF Spec

\* dlq-redrive, whatever calls fail and wherever it is interrupted: a parked record is
\* passed by the committed offset only after it was replayed or discarded.
THEOREM CommitsAreDecided == Spec => []CommitOnlyIfDecided
<1>1. LettersInv => CommitOnlyIfDecided
  BY Zenon DEF LettersInv, OperatorInv
<1> QED BY <1>1, LettersInvariant, PTL

\* HandleRecord, deadLetter and dlq-redrive between them lose no message while no call
\* fails, however often the consumer restarts and a run is interrupted.
THEOREM MessagesAreKept == Spec => []NoMessageLost
<1>1. LettersInv => NoMessageLost
  <2> SUFFICES ASSUME LettersInv, errors = 0, NEW m \in Messages
               PROVE  Waiting(m) \/ Delivered(m) \/ m \in discarded
    BY Zenon DEF NoMessageLost
  <2>1. TypeOK /\ OperatorInv /\ ConsumerInv /\ Safe(m)
    BY Zenon, Given
  <2>2. /\ committed \in 0..Len(topic) /\ opCommitted \in 0..Len(dlq)
        /\ Len(topic) \in Nat /\ Len(dlq) \in Nat
    BY Zenon, <2>1, Lengths DEF TypeOK
  <2>3. Handled \in {committed, committed + 1} /\ Passed \in {opCommitted, opCommitted + 1}
    BY Zenon, <2>1 DEF Handled, Passed, ConsumerInv, OperatorInv
  <2>4. \A i \in Handled + 1..Len(topic) : i \in committed + 1..Len(topic)
    BY <2>2, <2>3
  <2>5. \A j \in Passed + 1..Len(dlq) : j \in opCommitted + 1..Len(dlq)
    BY <2>2, <2>3
  <2> QED BY Zenon, <2>1, <2>4, <2>5 DEF Safe, Waiting
<1> QED BY <1>1, LettersInvariant, PTL

=============================================================================
