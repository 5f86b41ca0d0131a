----------------------------- MODULE DeadLetters -----------------------------
(***************************************************************************)
(* A Kafka consumer of the notification or the ledger service              *)
(* (internal/notification, internal/ledgerconsumer), the dead-letter topic *)
(* on which it parks records it cannot decode (internal/deadletter), and   *)
(* the operator who works through that topic with cmd/dlq-redrive.  One    *)
(* partition of the source topic and one of the dead-letter topic.         *)
(***************************************************************************)
EXTENDS Integers, Sequences

CONSTANTS
    Messages,      \* what records are about
    Log,           \* the records on the source topic at first
    Foreign,       \* parked records of an unknown schema version, at first
    Effects,       \* what the handler does with a record, in order
    MaxTopic,      \* bound: records on the source topic
    MaxRuns,       \* bound: runs of dlq-redrive
    MaxCrashes,    \* bound: restarts of the consumer, interrupted runs
    MaxErrors      \* bound: calls that fail, or whose answer is lost

\* A record of the source topic; one that is not ok does not decode.
Records == [msg : Messages, ok : BOOLEAN]

\* A record of the dead-letter topic; one that is not known does not decode.
Parked == [msg : Messages, known : BOOLEAN]

ASSUME DeadLettersAssumption ==
    /\ Log \in Seq(Records)
    /\ Foreign \in Seq([msg : Messages, known : {FALSE}])
    /\ \A m \in Messages :
          \/ \E i \in 1..Len(Log) : Log[i].msg = m
          \/ \E j \in 1..Len(Foreign) : Foreign[j].msg = m
    /\ Len(Effects) \in Nat \ {0}
    /\ {MaxTopic, MaxRuns, MaxCrashes, MaxErrors} \subseteq Nat

VARIABLES
    topic,         \* the source topic
    committed,     \* committed offset of the consumer group
    position,      \* the last record the consumer fetched
    pc,            \* what the consumer does next
    step,          \* the effect it is at
    sent,          \* how often each effect was done, by message
    dlq,           \* the dead-letter topic
    run,           \* the run of dlq-redrive in progress
    opPosition,    \* the last parked record it read
    opCommitted,   \* committed offset of its group
    decided,       \* history: parked records that were replayed or discarded
    discarded,     \* history: messages the operator dropped
    runs, crashes, errors

consumer == <<committed, position, pc, step, sent>>
operator == <<run, opPosition, opCommitted, decided, discarded, runs>>

vars == <<topic, dlq, consumer, operator, crashes, errors>>

\* What the operator may ask for: --max 1 or every pending record, and with
\* redrive --max 1 a corrected value.
Options ==
    [action : {"list", "discard", "redrive"}, all : BOOLEAN, fix : {FALSE}]
       \cup [action : {"redrive"}, all : {FALSE}, fix : {TRUE}]

\* A run is its options, what it does next and whether it has decided a record.
NoRun == [on |-> FALSE]

Runs == {NoRun} \cup [on : {TRUE}, action : {"list", "discard", "redrive"}, all : BOOLEAN,
                      fix : BOOLEAN, at : {"poll", "commit"}, seen : BOOLEAN]

Init ==
    /\ topic = Log
    /\ dlq = Foreign
    /\ committed = 0 /\ position = 0
    /\ pc = "poll" /\ step = 1
    /\ sent = [m \in Messages |-> [e \in 1..Len(Effects) |-> 0]]
    /\ run = NoRun
    /\ opPosition = 0 /\ opCommitted = 0
    /\ decided = {} /\ discarded = {}
    /\ runs = 0 /\ crashes = 0 /\ errors = 0

Fail == errors < MaxErrors /\ errors' = errors + 1

-----------------------------------------------------------------------------
(* The consumer.  An error of HandleRecord is logged, and the next record  *)
(* is taken.                                                               *)

Message == topic[position].msg

\* EachRecord: the next record.  Dispatch and decodeTransfer decode it first.
Fetch ==
    /\ pc = "poll"
    /\ position < Len(topic)
    /\ position' = position + 1
    /\ pc' = IF topic[position'].ok THEN "dispatch" ELSE "park"
    /\ step' = 1
    /\ UNCHANGED <<topic, dlq, committed, sent, operator, crashes, errors>>

Sent == sent' = [sent EXCEPT ![Message][step] = @ + 1]

\* Dispatch: e-mail, then text message.  AppendTransferEntries: the entries.
Dispatch ==
    /\ pc = "dispatch"
    /\ \/ Sent /\ step < Len(Effects) /\ step' = step + 1 /\ UNCHANGED <<pc, errors>>
       \/ Sent /\ step = Len(Effects) /\ pc' = "commit" /\ UNCHANGED <<step, errors>>
       \/ (Sent \/ UNCHANGED sent) /\ Fail /\ pc' = "poll" /\ UNCHANGED step
    /\ UNCHANGED <<topic, dlq, committed, position, operator, crashes>>

Parks == dlq' = Append(dlq, [msg |-> Message, known |-> TRUE])

\* Mutant: a poison record is logged and committed.
ParkDrops ==
    /\ pc = "park"
    /\ pc' = "commit"
    /\ UNCHANGED <<topic, dlq, committed, position, step, sent, operator, crashes,
                   errors>>

\* Mutant: a poison record is taken again and again.
ParkRetries ==
    /\ pc = "park"
    /\ pc' = "poll" /\ position' = position - 1
    /\ UNCHANGED <<topic, dlq, committed, step, sent, operator, crashes, errors>>

\* deadLetter: Publish, then commit.
Park ==
    /\ pc = "park"
    /\ \/ Parks /\ pc' = "commit" /\ UNCHANGED errors
       \/ (Parks \/ UNCHANGED dlq) /\ Fail /\ pc' = "poll"
    /\ UNCHANGED <<topic, committed, position, step, sent, operator, crashes>>

Commit ==
    /\ pc = "commit"
    /\ pc' = "poll"
    /\ \/ committed' = position /\ UNCHANGED errors
       \/ committed' \in {committed, position} /\ Fail
    /\ UNCHANGED <<topic, dlq, position, step, sent, operator, crashes>>

\* The process restarts at the committed offset.
Restart ==
    /\ crashes < MaxCrashes
    /\ crashes' = crashes + 1
    /\ pc' = "poll" /\ position' = committed /\ step' = 1
    /\ UNCHANGED <<topic, dlq, committed, sent, operator, errors>>

-----------------------------------------------------------------------------
(* dlq-redrive.                                                            *)

Started(o) == [on |-> TRUE, action |-> o.action, all |-> o.all, fix |-> o.fix,
               at |-> "poll", seen |-> FALSE]

StartRun ==
    /\ ~run.on
    /\ runs < MaxRuns
    /\ runs' = runs + 1
    /\ \E o \in Options : run' = Started(o)
    /\ opPosition' = opCommitted
    /\ UNCHANGED <<topic, dlq, consumer, opCommitted, decided, discarded, crashes,
                   errors>>

\* The run is about to decide the next parked record.
Deciding(action) ==
    /\ run.on /\ run.action = action
    /\ run.at = "poll"
    /\ run.all \/ ~run.seen
    /\ opPosition < Len(dlq)
    /\ opPosition' = opPosition + 1

DecidedOne == run' = [run EXCEPT !.at = "poll", !.seen = TRUE]

List ==
    /\ Deciding("list")
    /\ DecidedOne
    /\ UNCHANGED <<topic, dlq, consumer, opCommitted, decided, discarded, runs,
                   crashes, errors>>

\* The parked record is dropped by committing it.
Drop ==
    /\ opCommitted' = opPosition'
    /\ decided' = decided \cup {opPosition'}
    /\ discarded' = discarded \cup {dlq[opPosition'].msg}

Discard ==
    /\ Deciding("discard")
    /\ \/ Drop /\ DecidedOne /\ UNCHANGED errors
       \/ /\ Drop \/ UNCHANGED <<opCommitted, decided, discarded>>
          /\ Fail /\ run' = NoRun
    /\ UNCHANGED <<topic, dlq, consumer, runs, crashes>>

\* Decode: a payload of a schema version this build knows.
Decodes(parked) == parked.known

\* Replay puts the record back, with the operator's value if there is one.
Replayed ==
    /\ topic' = Append(topic, [msg |-> dlq[opPosition'].msg, ok |-> run.fix])
    /\ decided' = decided \cup {opPosition'}

\* Mutant: a failing replay is logged, and the run goes on.
RedriveGoesOn ==
    /\ Deciding("redrive")
    /\ Len(topic) < MaxTopic
    /\ \/ /\ Decodes(dlq[opPosition'])
          /\ \/ Replayed /\ UNCHANGED errors
             \/ UNCHANGED <<topic, decided>> /\ Fail
          /\ run' = [run EXCEPT !.at = "commit"]
       \/ /\ ~Decodes(dlq[opPosition'])
          /\ run' = NoRun
          /\ UNCHANGED <<topic, decided, errors>>
    /\ UNCHANGED <<dlq, consumer, opCommitted, discarded, runs, crashes>>

\* A payload that does not decode, or a failing replay, ends the run.
Redrive ==
    /\ Deciding("redrive")
    /\ Len(topic) < MaxTopic
    /\ \/ /\ Decodes(dlq[opPosition'])
          /\ Replayed
          /\ run' = [run EXCEPT !.at = "commit"]
          /\ UNCHANGED errors
       \/ /\ Decodes(dlq[opPosition'])
          /\ Replayed \/ UNCHANGED <<topic, decided>>
          /\ Fail /\ run' = NoRun
       \/ /\ ~Decodes(dlq[opPosition'])
          /\ run' = NoRun
          /\ UNCHANGED <<topic, decided, errors>>
    /\ UNCHANGED <<dlq, consumer, opCommitted, discarded, runs, crashes>>

CommitRedrive ==
    /\ run.on /\ run.at = "commit"
    /\ \/ opCommitted' = opPosition /\ DecidedOne /\ UNCHANGED errors
       \/ opCommitted' \in {opCommitted, opPosition} /\ Fail /\ run' = NoRun
    /\ UNCHANGED <<topic, dlq, consumer, opPosition, decided, discarded, runs, crashes>>

\* --max is reached, or no record came for a while.
EndRun ==
    /\ run.on /\ run.at = "poll"
    /\ \/ ~run.all /\ run.seen
       \/ opPosition = Len(dlq)
    /\ run' = NoRun
    /\ UNCHANGED <<topic, dlq, consumer, opPosition, opCommitted, decided, discarded,
                   runs, crashes, errors>>

\* The operator interrupts the run.
Interrupt ==
    /\ run.on
    /\ crashes < MaxCrashes
    /\ crashes' = crashes + 1
    /\ run' = NoRun
    /\ UNCHANGED <<topic, dlq, consumer, opPosition, opCommitted, decided, discarded,
                   runs, errors>>

-----------------------------------------------------------------------------

Handle == Fetch \/ Dispatch \/ Park \/ Commit

Next ==
    \/ Handle \/ Restart
    \/ StartRun \/ List \/ Discard \/ Redrive \/ CommitRedrive \/ EndRun \/ Interrupt

Spec == Init /\ [][Next]_vars

\* The consumer runs on; the operator may never come.
FairSpec == Spec /\ WF_vars(Handle)

-----------------------------------------------------------------------------
(* Properties.                                                             *)

\* Every variable has its type.
TypeOK ==
    /\ topic \in Seq(Records)
    /\ dlq \in Seq(Parked)
    /\ committed \in 0..Len(topic) /\ position \in 0..Len(topic)
    /\ pc \in {"poll", "dispatch", "park", "commit"}
    /\ step \in 1..Len(Effects)
    /\ sent \in [Messages -> [1..Len(Effects) -> Nat]]
    /\ run \in Runs
    /\ opPosition \in 0..Len(dlq) /\ opCommitted \in 0..Len(dlq)
    /\ decided \subseteq 1..Len(dlq)
    /\ discarded \subseteq Messages
    /\ {runs, crashes, errors} \subseteq Nat

\* Every effect of the message was done.
Delivered(m) == \A e \in 1..Len(Effects) : sent[m][e] > 0

\* Some record of the message is still to be handled, by the consumer or by the
\* operator.
Waiting(m) ==
    \/ \E i \in committed + 1..Len(topic) : topic[i].msg = m
    \/ \E j \in opCommitted + 1..Len(dlq) : dlq[j].msg = m

\* While no call fails, no message is lost between the topic, the dead-letter
\* topic and the operator, whenever the consumer or a run is cut off.
NoMessageLost ==
    errors = 0 =>
       \A m \in Messages : Waiting(m) \/ Delivered(m) \/ m \in discarded

\* "A decision commits the dead-letter offset only after it has taken effect":
\* whatever fails, no parked record is passed over.
CommitOnlyIfDecided == 1..opCommitted \subseteq decided

\* Every message on the topic is delivered or parked, if no call fails.
EveryMessageHandled ==
    \A i \in 1..Len(Log) :
       LET m == Log[i].msg
       IN  <>(errors > 0 \/ Delivered(m) \/ \E j \in 1..Len(dlq) : dlq[j].msg = m)

\* "a failed dead-letter write retries the record instead of losing it"
NeverLosesPoison ==
    \A i \in 1..Len(Log) :
       LET m == Log[i].msg
       IN  ~Log[i].ok => Waiting(m) \/ Delivered(m) \/ m \in discarded

-----------------------------------------------------------------------------
(* The inductive invariant.                                                *)

\* A run that decides stands at its committed offset, or one decided record past it.
OperatorInv ==
    /\ CommitOnlyIfDecided
    /\ run.on /\ run.action # "list" /\ run.at = "poll" => opPosition = opCommitted
    /\ run.on /\ run.at = "commit" =>
          run.action = "redrive" /\ opPosition = opCommitted + 1 /\ opPosition \in decided

\* While no call fails, so does the consumer, with the effects before step done.
ConsumerInv ==
    /\ position = IF pc = "poll" THEN committed ELSE committed + 1
    /\ pc = "dispatch" => \A e \in 1..step - 1 : sent[Message][e] > 0

\* The offsets that stand when the commits that are due are done.
Handled == IF pc = "commit" THEN position ELSE committed

Passed == IF run.on /\ run.at = "commit" THEN opPosition ELSE opCommitted

\* Message m would not be lost by those commits.
Safe(m) ==
    \/ \E i \in Handled + 1..Len(topic) : topic[i].msg = m
    \/ \E j \in Passed + 1..Len(dlq) : dlq[j].msg = m
    \/ Delivered(m)
    \/ m \in discarded

LettersInv ==
    /\ TypeOK
    /\ OperatorInv
    /\ pc # "poll" => position > 0
    /\ errors = 0 => ConsumerInv /\ \A m \in Messages : Safe(m)

=============================================================================
