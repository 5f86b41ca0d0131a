---------------------------- MODULE FraudProofs -----------------------------
(***************************************************************************)
(* What the fraud service keeps. The scoring graph, for every set of       *)
(* scores and all thresholds FraudConfig accepts: what it returns is       *)
(* stored, its actions are canonical, and the model is called at most      *)
(* twice and only with a guarded prompt. The worker, for any number of     *)
(* processes, requests and faults: the verdict that is published, marked   *)
(* and committed is the one stored in fraud_sessions, and without an       *)
(* expired lease one process at a time scores a request. A step of the     *)
(* worker is taken apart into what it does to the process that takes it    *)
(* and what it does to the sessions of the others.                         *)
(***************************************************************************)
EXTENDS FraudWorker, FraudGraph, TLAPS

-----------------------------------------------------------------------------
(* The scoring graph.                                                      *)

\* A clamped score falls into exactly one of the three bands of validate_verdict.
LEMMA CanonicalBands ==
    ASSUME NEW score \in Int
    PROVE  /\ Canonical(score) \in Actions
           /\ Canonical(score) = "block" <=> score >= BlockAt
           /\ Canonical(score) = "allow" <=> score < FlagAt
<1>1. CASE score >= BlockAt
  BY SMTT(60), <1>1, ThresholdAssumption DEF Canonical, Actions
<1>2. CASE score >= FlagAt /\ score < BlockAt
  BY <1>2, ThresholdAssumption DEF Canonical, Actions
<1>3. CASE score < FlagAt
  BY SMTT(60), <1>3, ThresholdAssumption DEF Canonical, Actions
<1> QED  BY <1>1, <1>2, <1>3, ThresholdAssumption

\* The verdict of a reply is the action of the band its clamped score lies in.
LEMMA VerdictBand ==
    ASSUME NEW r \in Replies
    PROVE  /\ Verdict(r) \in Actions
           /\ Verdict(r) = "block" <=> Clamped(r.score) >= BlockAt
           /\ Verdict(r) = "allow" <=> Clamped(r.score) < FlagAt
<1>1. r.score \in Int
  BY Zenon, ThresholdAssumption DEF Replies
<1>2. Clamped(r.score) \in Int
  BY <1>1 DEF Clamped
<1> QED  BY Zenon, <1>2, CanonicalBands DEF Verdict

\* The initial state satisfies the invariant, whatever an earlier run stored.
LEMMA InitEstablishes == GraphInit => GraphInv
<1> SUFFICES ASSUME GraphInit PROVE GraphInv
  OBVIOUS
<1>1. GraphTypeOK
  BY Zenon DEF GraphInit, GraphTypeOK, Nodes
<1> QED  BY <1>1 DEF GraphInit, GraphInv, Before

\* Every node, and an exception in any of them, preserves the invariant.
LEMMA NextPreserves == GraphInv /\ [GraphNext]_graphVars => GraphInv'
<1> SUFFICES ASSUME GraphInv, [GraphNext]_graphVars
             PROVE  GraphInv'
  OBVIOUS
<1> USE DEF GraphInv, GraphTypeOK, Nodes, Before, GotoNode
<1>1. CASE CreateSessionNode
  BY <1>1 DEF CreateSessionNode
<1>2. CASE BuildSanitizedContext
  BY Zenon, <1>2 DEF BuildSanitizedContext
<1>3. CASE EnrichTransaction
  BY Zenon, <1>3 DEF EnrichTransaction, Reasons, Actions
<1>4. CASE BuildPrompt
  BY <1>4 DEF BuildPrompt
<1>5. CASE InputGuard
  BY ZenonT(60), <1>5 DEF InputGuard, Reasons, Actions
<1>6. CASE CallLLM
  BY <1>6 DEF CallLLM, Reasons, Actions
<1>7. CASE ValidateVerdict
  <2>1. CASE Accepted(reply) /\ outcome' = Verdict(reply)
    <3>1. reply \in Replies
      BY <2>1 DEF Accepted, NoReply, Replies
    <3>2. Verdict(reply) \in Actions
      BY Zenon, <3>1, VerdictBand
    <3>3. Accepted(reply') /\ outcome' = Verdict(reply')
      BY Zenon, <1>7, <2>1 DEF ValidateVerdict
    <3> QED  BY Zenon, <1>7, <2>1, <3>2, <3>3 DEF ValidateVerdict, Actions, Reasons
  <2>2. CASE ~Accepted(reply)
    BY <1>7, <2>2 DEF ValidateVerdict, Reasons, Actions
  <2> QED  BY Zenon, <1>7, <2>1, <2>2 DEF ValidateVerdict
<1>8. CASE RetryPrompt
  <2>1. calls = 1 /\ attempt' = 2 /\ stored = "none"
    BY Zenon, <1>8 DEF RetryPrompt
  <2>2. GraphTypeOK'
    BY Zenon, <1>8, <2>1 DEF RetryPrompt
  <2> QED  BY <1>8, <2>1, <2>2 DEF RetryPrompt
<1>9. CASE CompleteSessionNode
  BY Zenon, <1>9 DEF CompleteSessionNode
<1>10. CASE Raise
  BY <1>10 DEF Raise
<1>11. CASE UNCHANGED graphVars
  BY <1>11 DEF graphVars
<1> QED
  BY Zenon, <1>1, <1>2, <1>3, <1>4, <1>5, <1>6, <1>7, <1>8, <1>9, <1>10, <1>11 DEF GraphNext

\* The graph keeps the invariant, for every set of scores and all thresholds.
THEOREM GraphInvariant == GraphSpec => []GraphInv
BY InitEstablishes, NextPreserves, PTL DEF GraphSpec

\* What score returns on any path is what the session holds.
THEOREM ReturnsAreStored == GraphSpec => []ReturnedIsStored
<1>1. GraphInv => ReturnedIsStored
  BY Zenon DEF GraphInv, ReturnedIsStored
<1> QED  BY <1>1, GraphInvariant, PTL

\* The model is called at most twice, each time with a prompt the guard accepted.
THEOREM CallsStayGuarded == GraphSpec => []CallsAreGuarded
<1>1. GraphInv => CallsAreGuarded
  BY DEF GraphInv, GraphTypeOK, CallsAreGuarded
<1> QED  BY <1>1, GraphInvariant, PTL

\* A returned action is the canonical one of a validated reply.
THEOREM ActionsAreCanonical == GraphSpec => []ActionIsCanonical
<1>1. GraphInv => ActionIsCanonical
  <2> SUFFICES ASSUME GraphInv, node = "done", outcome \in Actions, calls > 0
               PROVE  /\ InRange(reply.score) /\ reply.form = "ok"
                      /\ outcome = "block" <=> Clamped(reply.score) >= BlockAt
                      /\ outcome = "allow" <=> Clamped(reply.score) < FlagAt
    BY Zenon DEF ActionIsCanonical
  <2>1. Accepted(reply) /\ outcome = Verdict(reply)
    BY Zenon DEF GraphInv
  <2>2. reply \in Replies
    BY <2>1 DEF GraphInv, GraphTypeOK, Accepted, NoReply
  <2> QED  BY Zenon, <2>1, <2>2, VerdictBand DEF Accepted
<1> QED  BY <1>1, GraphInvariant, PTL

-----------------------------------------------------------------------------
(* The worker.                                                             *)

Row == [owner     : Workers \cup {"none", "gone"},
        live      : BOOLEAN,
        outcome   : Outcomes \cup {"none"},
        published : BOOLEAN]

LocalOK ==
    /\ pc \in [Workers -> Labels]
    /\ rec \in [Workers -> Offsets \cup {0}]
    /\ out \in [Workers -> Outcomes \cup {"none", "audit_failed"}]
    /\ seen \in [Workers -> BOOLEAN]
    /\ decision \in [Workers -> {"none", "commit", "retry"}]
    /\ heartbeat \in [Workers -> {"off", "on", "failed"}]

\* TypeOK in the parts a step changes.
LEMMA Types ==
    /\ TypeOK <=> /\ LocalOK
                  /\ session \in [Offsets -> Row]
                  /\ swept \subseteq Offsets
                  /\ produced \in 0..NumRequests
                  /\ events \subseteq {"fraud.flagged", "fraud.error", "dlq"} \X Offsets
                  /\ assigned \in Workers \cup {"none"}
                  /\ position \in 0..NumRequests
                  /\ committed \in -1..NumRequests
                  /\ errors \in Nat /\ expiries \in Nat /\ revokes \in Nat /\ stops \in Nat
BY Zenon DEF TypeOK, LocalOK, Row

\* No process is called like the owner of a free session or of a lost one.
LEMMA Names == "none" \notin Workers /\ "gone" \notin Workers
BY FraudConstants

\* The local state of a process other than its renewal task.
LocalSame(d) ==
    /\ pc'[d] = pc[d] /\ rec'[d] = rec[d] /\ out'[d] = out[d]
    /\ seen'[d] = seen[d] /\ decision'[d] = decision[d]

OthersSame(w) == \A d \in Workers : d # w => LocalSame(d)

\* Goto moves a process and keeps what it has.
LEMMA GotoFacts ==
    ASSUME LocalOK, NEW w \in Workers, NEW l \in Labels, Goto(w, l)
    PROVE  /\ LocalOK' /\ OthersSame(w)
           /\ pc'[w] = l /\ rec'[w] = rec[w] /\ out'[w] = out[w]
           /\ seen'[w] = seen[w] /\ decision'[w] = decision[w]
<1>1. LocalOK'
  BY Zenon DEF Goto, LocalOK
<1>2. pc'[w] = l /\ \A d \in Workers : d # w => pc'[d] = pc[d]
  BY Zenon DEF Goto, LocalOK
<1> QED BY Zenon, <1>1, <1>2 DEF Goto, OthersSame, LocalSame

\* Return moves a process to its finally block with a decision.
LEMMA ReturnFacts ==
    ASSUME LocalOK, NEW w \in Workers, NEW d \in {"none", "commit", "retry"}, Return(w, d)
    PROVE  /\ LocalOK' /\ OthersSame(w)
           /\ pc'[w] = "release" /\ rec'[w] = rec[w] /\ decision'[w] = d
<1>1. LocalOK'
  BY Zenon DEF Return, LocalOK, Labels
<1>2. /\ pc'[w] = "release" /\ decision'[w] = d
      /\ \A v \in Workers : v # w => pc'[v] = pc[v] /\ decision'[v] = decision[v]
  BY Zenon DEF Return, LocalOK
<1> QED BY Zenon, <1>1, <1>2 DEF Return, OthersSame, LocalSame

\* Take moves a process on with an outcome.
TakeStep(w, l, o, p) ==
    /\ l \in Labels /\ o \in Outcomes \cup {"none", "audit_failed"} /\ p \in BOOLEAN
    /\ Take(w, l, o, p)
    /\ heartbeat' \in [Workers -> {"off", "on", "failed"}]

\* It keeps the record in hand.
LEMMA TakeFacts ==
    ASSUME LocalOK, NEW w \in Workers, NEW l, NEW o, NEW p, TakeStep(w, l, o, p)
    PROVE  /\ LocalOK' /\ OthersSame(w)
           /\ pc'[w] = l /\ rec'[w] = rec[w] /\ out'[w] = o /\ seen'[w] = p
<1>1. LocalOK'
  BY Zenon DEF TakeStep, Take, LocalOK
<1>2. pc'[w] = l /\ \A v \in Workers : v # w => pc'[v] = pc[v]
  BY Zenon DEF TakeStep, Take, LocalOK
<1>3. out'[w] = o /\ \A v \in Workers : v # w => out'[v] = out[v]
  BY Zenon DEF TakeStep, Take, LocalOK
<1>4. seen'[w] = p /\ \A v \in Workers : v # w => seen'[v] = seen[v]
  BY DEF TakeStep, Take, LocalOK
<1>5. rec' = rec /\ decision' = decision
  BY Zenon DEF TakeStep, Take
<1> QED BY Zenon, <1>1, <1>2, <1>3, <1>4, <1>5 DEF OthersSame, LocalSame

\* Forget empties the hands of a process.
LEMMA ForgetFacts ==
    ASSUME LocalOK, NEW w \in Workers, NEW l \in Labels, Forget(w, l)
    PROVE  LocalOK' /\ OthersSame(w) /\ pc'[w] = l
<1>1. LocalOK'
  BY Zenon DEF Forget, LocalOK
<1>2. /\ pc'[w] = l
      /\ \A v \in Workers : v # w =>
            /\ pc'[v] = pc[v] /\ rec'[v] = rec[v] /\ out'[v] = out[v]
            /\ seen'[v] = seen[v] /\ decision'[v] = decision[v]
  BY Zenon DEF Forget, LocalOK
<1> QED BY Zenon, <1>1, <1>2 DEF OthersSame, LocalSame

-----------------------------------------------------------------------------
(* What a step does to fraud_sessions.                                     *)

\* A step does this to the sessions of the processes in W: a stored outcome stays
\* until it is swept, only a settled session is marked, nobody is given a session
\* or an outcome for it, and a lease that has not expired is not taken.
SessionStep(W) ==
    /\ session' \in [Offsets -> Row]
    /\ \A r \in Offsets :
          /\ session[r].outcome # "none" /\ r \notin swept' =>
                session'[r].outcome = session[r].outcome
          /\ session'[r].published /\ r \notin swept' => session[r].published \/ Settled(r)
          /\ \A d \in W :
                /\ session'[r].owner = d =>
                      /\ session[r].owner = d
                      /\ session'[r].outcome \in {session[r].outcome, "none"}
                /\ /\ expiries' = 0
                   /\ session[r].owner = d /\ session[r].live /\ session[r].outcome = "none"
                   => session'[r].owner = d /\ session'[r].live

\* A step that leaves the table alone.
LEMMA SessionSame ==
    ASSUME TypeOK, session' = session
    PROVE  SessionStep(Workers)
BY Zenon, Types DEF SessionStep

\* What holds of all processes holds of the others.
LEMMA SessionOthers ==
    ASSUME NEW w \in Workers, SessionStep(Workers)
    PROVE  SessionStep(Workers \ {w})
BY Zenon DEF SessionStep

\* The same of a step that changes one row.
RowStep(W, q, row) ==
    /\ session' = [session EXCEPT ![q] = row]
    /\ session[q].outcome # "none" /\ q \notin swept' => row.outcome = session[q].outcome
    /\ row.published /\ q \notin swept' => session[q].published \/ Settled(q)
    /\ \A d \in W :
          /\ row.owner = d => /\ session[q].owner = d
                              /\ row.outcome \in {session[q].outcome, "none"}
          /\ /\ expiries' = 0
             /\ session[q].owner = d /\ session[q].live /\ session[q].outcome = "none"
             => row.owner = d /\ row.live

\* The other rows stay.
LEMMA SessionOne ==
    ASSUME TypeOK, NEW W, NEW q \in Offsets, NEW row \in Row, RowStep(W, q, row)
    PROVE  SessionStep(W) /\ session'[q] = row
<1> USE DEF RowStep
<1>1. session \in [Offsets -> Row]
  BY Zenon, Types
<1>2. /\ session' \in [Offsets -> Row] /\ session'[q] = row
      /\ \A r \in Offsets : r # q => session'[r] = session[r]
  BY Zenon, <1>1
<1>3. ASSUME NEW r \in Offsets
      PROVE  /\ session[r].outcome # "none" /\ r \notin swept' =>
                   session'[r].outcome = session[r].outcome
             /\ session'[r].published /\ r \notin swept' => session[r].published \/ Settled(r)
             /\ \A d \in W :
                   /\ session'[r].owner = d =>
                         /\ session[r].owner = d
                         /\ session'[r].outcome \in {session[r].outcome, "none"}
                   /\ /\ expiries' = 0
                      /\ session[r].owner = d /\ session[r].live /\ session[r].outcome = "none"
                      => session'[r].owner = d /\ session'[r].live
  <2>1. CASE r = q
    BY Zenon, <1>2, <2>1
  <2>2. CASE r # q
    <3>1. session'[r] = session[r]
      BY Zenon, <1>2, <2>2
    <3> QED BY Zenon, <3>1
  <2> QED BY Zenon, <2>1, <2>2
<1> QED BY Zenon, <1>2, <1>3 DEF SessionStep

\* claim_session gives the session to the process, with outcome and mark as they are.
LEMMA LeaseStep ==
    ASSUME TypeOK, NEW w \in Workers, NEW q \in Offsets, q = rec[w], Claimable(w),
           session' = Leased(w)
    PROVE  /\ SessionStep(Workers \ {w})
           /\ session'[q].owner = w /\ session'[q].live
           /\ session'[q].outcome = session[q].outcome
           /\ session'[q].published = session[q].published
<1>1. session \in [Offsets -> Row] /\ session[q] \in Row
  BY Zenon, Types
<1>2. PICK row \in Row : row = [session[q] EXCEPT !.owner = w, !.live = TRUE]
  BY Zenon, <1>1 DEF Row
<1>3. /\ row.owner = w /\ row.live
      /\ row.outcome = session[q].outcome /\ row.published = session[q].published
  BY Zenon, <1>1, <1>2 DEF Row
<1>4. session' = [session EXCEPT ![q] = row]
  BY Zenon, <1>1, <1>2 DEF Leased, Row
<1>5. session[q].outcome # "none" \/ session[q].owner = w \/ ~session[q].live
  BY Zenon DEF Claimable, Mine
<1>6. RowStep(Workers \ {w}, q, row)
  BY Zenon, <1>3, <1>4, <1>5 DEF RowStep
<1>7. SessionStep(Workers \ {w}) /\ session'[q] = row
  BY Zenon, <1>6, SessionOne
<1> QED BY Zenon, <1>3, <1>7

\* complete_session stores an outcome where there is none, or the same again.
LEMMA CompleteStep ==
    ASSUME TypeOK, NEW w \in Workers, NEW q \in Offsets, q = rec[w], HoldsLease(w),
           NEW o \in Outcomes, session' = Completed(w, o),
           session[q].outcome # "none" /\ q \notin swept' => session[q].outcome = o
    PROVE  /\ SessionStep(Workers \ {w})
           /\ session'[q].outcome = o /\ session'[q].published = session[q].published
<1>1. session \in [Offsets -> Row] /\ session[q] \in Row
  BY Zenon, Types
<1>2. PICK row \in Row : row = [session[q] EXCEPT !.outcome = o]
  BY Zenon, <1>1 DEF Row
<1>3. /\ row.owner = session[q].owner /\ row.live = session[q].live
      /\ row.outcome = o /\ row.published = session[q].published
  BY Zenon, <1>1, <1>2 DEF Row
<1>4. session' = [session EXCEPT ![q] = row]
  BY Zenon, <1>1, <1>2 DEF Completed, Row
<1>5. session[q].owner = w
  BY Zenon DEF HoldsLease, Mine
<1>6. RowStep(Workers \ {w}, q, row)
  BY Zenon, <1>3, <1>4, <1>5 DEF RowStep
<1>7. SessionStep(Workers \ {w}) /\ session'[q] = row
  BY Zenon, <1>6, SessionOne
<1> QED BY Zenon, <1>3, <1>7

\* mark_published marks a session that is settled.
LEMMA MarkStep ==
    ASSUME TypeOK, NEW w \in Workers, NEW q \in Offsets,
           session' = [session EXCEPT ![q].published = TRUE],
           q \notin swept' => Settled(q)
    PROVE  SessionStep(Workers)
<1>1. session \in [Offsets -> Row] /\ session[q] \in Row
  BY Zenon, Types
<1>2. PICK row \in Row : row = [session[q] EXCEPT !.published = TRUE]
  BY Zenon, <1>1 DEF Row
<1>3. /\ row.owner = session[q].owner /\ row.live = session[q].live
      /\ row.outcome = session[q].outcome
  BY Zenon, <1>1, <1>2 DEF Row
<1>4. session' = [session EXCEPT ![q] = row]
  BY Zenon, <1>1, <1>2 DEF Row
<1>5. RowStep(Workers, q, row)
  BY Zenon, <1>3, <1>4 DEF RowStep
<1> QED BY Zenon, <1>5, SessionOne

\* renew_lease only makes a lease live.
LEMMA RenewStep ==
    ASSUME TypeOK, NEW q \in Offsets, session' = [session EXCEPT ![q].live = TRUE]
    PROVE  SessionStep(Workers)
<1>1. session \in [Offsets -> Row] /\ session[q] \in Row
  BY Zenon, Types
<1>2. PICK row \in Row : row = [session[q] EXCEPT !.live = TRUE]
  BY Zenon, <1>1 DEF Row
<1>3. /\ row.owner = session[q].owner /\ row.live
      /\ row.outcome = session[q].outcome /\ row.published = session[q].published
  BY Zenon, <1>1, <1>2 DEF Row
<1>4. session' = [session EXCEPT ![q] = row]
  BY Zenon, <1>1, <1>2 DEF Row
<1>5. RowStep(Workers, q, row)
  BY Zenon, <1>3, <1>4 DEF RowStep
<1> QED BY Zenon, <1>5, SessionOne

\* A lease that runs out stays with its owner.
LEMMA ExpireStep ==
    ASSUME TypeOK, NEW q \in Offsets, session' = [session EXCEPT ![q].live = FALSE],
           expiries' # 0
    PROVE  SessionStep(Workers)
<1>1. session \in [Offsets -> Row] /\ session[q] \in Row
  BY Zenon, Types
<1>2. PICK row \in Row : row = [session[q] EXCEPT !.live = FALSE]
  BY Zenon, <1>1 DEF Row
<1>3. /\ row.owner = session[q].owner
      /\ row.outcome = session[q].outcome /\ row.published = session[q].published
  BY Zenon, <1>1, <1>2 DEF Row
<1>4. session' = [session EXCEPT ![q] = row]
  BY Zenon, <1>1, <1>2 DEF Row
<1>5. RowStep(Workers, q, row)
  BY Zenon, <1>3, <1>4 DEF RowStep
<1> QED BY Zenon, <1>5, SessionOne

\* The sweep removes a session that has an outcome: no lease of a process that
\* scores.
LEMMA SweepStep ==
    ASSUME TypeOK, NEW q \in Offsets, session[q].outcome # "none", q \in swept',
           session' = [session EXCEPT ![q] = NoSession]
    PROVE  SessionStep(Workers)
<1>1. NoSession \in Row /\ NoSession.owner = "none"
  BY DEF NoSession, Row
<1>2. RowStep(Workers, q, NoSession)
  BY Zenon, <1>1, Names DEF RowStep
<1> QED BY Zenon, <1>1, <1>2, SessionOne

\* release_lease gives up no lease but that of the process itself.
LEMMA UnleaseStep ==
    ASSUME TypeOK, NEW w \in Workers, NEW q \in Offsets, q = rec[w], session' = Unleased(w)
    PROVE  /\ SessionStep(Workers \ {w})
           /\ session'[q].outcome = session[q].outcome
           /\ session'[q].published = session[q].published
<1>1. session \in [Offsets -> Row] /\ session[q] \in Row
  BY Zenon, Types
<1>2. CASE session[q].owner = w
  <2>2. PICK row \in Row : row = [session[q] EXCEPT !.owner = "none", !.live = FALSE]
    BY Zenon, <1>1 DEF Row
  <2>3. /\ row.owner = "none"
        /\ row.outcome = session[q].outcome /\ row.published = session[q].published
    BY Zenon, <1>1, <2>2 DEF Row
  <2>4. session' = [session EXCEPT ![q] = row]
    BY Zenon, <1>1, <1>2, <2>2 DEF Unleased, Mine, Row
  <2>5. RowStep(Workers \ {w}, q, row)
    BY Zenon, <1>2, <2>3, <2>4, Names DEF RowStep
  <2>6. SessionStep(Workers \ {w}) /\ session'[q] = row
    BY Zenon, <2>5, SessionOne
  <2> QED BY Zenon, <2>3, <2>6
<1>3. CASE session[q].owner # w
  BY Zenon, <1>3, SessionSame, SessionOthers DEF Unleased, Mine
<1> QED BY Zenon, <1>2, <1>3

\* s is the table with at most leases of w released.
Released(s, w) ==
    \A r \in Offsets :
       /\ s[r].outcome = session[r].outcome /\ s[r].published = session[r].published
       /\ \A d \in Workers \ {w} :
             /\ s[r].owner = d => session[r].owner = d
             /\ session[r].owner = d /\ session[r].live => s[r].owner = d /\ s[r].live

\* A process that dies leaves its sessions to nobody who could use them.
LEMMA DieStep ==
    ASSUME TypeOK, NEW w \in Workers, NEW s \in [Offsets -> Row], Released(s, w),
           session' = [r \in Offsets |-> [s[r] EXCEPT !.owner = IF @ = w THEN "gone" ELSE @]]
    PROVE  SessionStep(Workers \ {w})
<1>1. ASSUME NEW r \in Offsets
      PROVE  /\ session'[r] \in Row
             /\ session'[r].outcome = s[r].outcome
             /\ session'[r].published = s[r].published
             /\ session'[r].live = s[r].live
             /\ \A d \in Workers \ {w} : session'[r].owner = d <=> s[r].owner = d
  <2>1. s[r] \in Row
    BY Zenon
  <2>2. session'[r] = [s[r] EXCEPT !.owner = IF @ = w THEN "gone" ELSE @]
    BY Zenon
  <2>3. /\ session'[r] \in Row
        /\ session'[r].outcome = s[r].outcome
        /\ session'[r].published = s[r].published
        /\ session'[r].live = s[r].live
    BY <2>1, <2>2 DEF Row
  <2>4. session'[r].owner = IF s[r].owner = w THEN "gone" ELSE s[r].owner
    BY Zenon, <2>1, <2>2 DEF Row
  <2> QED BY <2>3, <2>4, Names
<1>2. session' \in [Offsets -> Row]
  BY Zenon, <1>1
<1>3. ASSUME NEW r \in Offsets
      PROVE  /\ session'[r].outcome = session[r].outcome
             /\ session'[r].published = session[r].published
             /\ \A d \in Workers \ {w} :
                   /\ session'[r].owner = d => session[r].owner = d
                   /\ session[r].owner = d /\ session[r].live =>
                         session'[r].owner = d /\ session'[r].live
  <2>1. /\ s[r].outcome = session[r].outcome /\ s[r].published = session[r].published
        /\ \A d \in Workers \ {w} :
              /\ s[r].owner = d => session[r].owner = d
              /\ session[r].owner = d /\ session[r].live => s[r].owner = d /\ s[r].live
    BY Zenon DEF Released
  <2>2. /\ session'[r].outcome = s[r].outcome
        /\ session'[r].published = s[r].published
        /\ session'[r].live = s[r].live
        /\ \A d \in Workers \ {w} : session'[r].owner = d <=> s[r].owner = d
    BY Zenon, <1>1
  <2>3. ASSUME NEW d \in Workers \ {w}
        PROVE  /\ session'[r].owner = d => session[r].owner = d
               /\ session[r].owner = d /\ session[r].live =>
                     session'[r].owner = d /\ session'[r].live
    <3>1. session'[r].owner = d <=> s[r].owner = d
      BY Zenon, <2>2
    <3>2. /\ s[r].owner = d => session[r].owner = d
          /\ session[r].owner = d /\ session[r].live => s[r].owner = d /\ s[r].live
      BY Zenon, <2>1
    <3> QED BY Zenon, <2>2, <3>1, <3>2
  <2> QED BY Zenon, <2>1, <2>2, <2>3
<1> QED BY Zenon, <1>2, <1>3 DEF SessionStep

-----------------------------------------------------------------------------
(* What a step does to the invariant.                                      *)

\* A step that leaves the processes in W alone, and publishes no flag but a stored
\* one.
Step(W) ==
    /\ SessionStep(W)
    /\ \A d \in W : LocalSame(d)
    /\ events \subseteq events' /\ swept \subseteq swept'
    /\ \A r \in Offsets : r \notin swept' /\ <<"fraud.flagged", r>> \in events' =>
          <<"fraud.flagged", r>> \in events \/ session'[r].outcome = "flag"
    /\ expiries' = 0 => expiries = 0

\* What a process that moves owes.
MoverOK(d) ==
    /\ HandInv(d)' /\ VerdictInv(d)'
    /\ expiries' = 0 /\ pc'[d] = "score" => HoldsLease(d)'

\* A settled request stays settled until its session is swept.
LEMMA SettledStays ==
    ASSUME NEW W, Step(W), NEW r \in Offsets, r \notin swept', Settled(r)
    PROVE  Settled(r)'
<1>1. session'[r].outcome = session[r].outcome
  BY Zenon DEF Step, SessionStep, Settled
<1>2. events \subseteq events'
  BY Zenon DEF Step
<1> QED BY Zenon, <1>1, <1>2 DEF Settled

\* A process that does not move finds what it relies on.
LEMMA RestsOK ==
    ASSUME FraudInv, NEW W, Step(W), NEW d \in Workers, d \in W
    PROVE  MoverOK(d)
<1>0. HandInv(d) /\ VerdictInv(d) /\ (expiries = 0 => LeaseInv)
  BY Zenon DEF FraudInv, VerdictsInv
<1>1. pc'[d] = pc[d] /\ rec'[d] = rec[d] /\ out'[d] = out[d]
      /\ seen'[d] = seen[d] /\ decision'[d] = decision[d]
  BY Zenon DEF Step, LocalSame
<1>2. CASE pc[d] \in {"idle", "down"}
  BY Zenon, <1>1, <1>2 DEF MoverOK, HandInv, VerdictInv
<1>3. CASE pc[d] \notin {"idle", "down"}
  <2>1. PICK q \in Offsets : q = rec[d] /\ q = rec'[d]
    BY Zenon, <1>0, <1>1, <1>3 DEF HandInv
  <2>2. /\ session[q].outcome # "none" /\ q \notin swept' =>
              session'[q].outcome = session[q].outcome
        /\ session'[q].owner = d =>
              session[q].owner = d /\ session'[q].outcome \in {session[q].outcome, "none"}
        /\ /\ expiries' = 0
           /\ session[q].owner = d /\ session[q].live /\ session[q].outcome = "none"
           => session'[q].owner = d /\ session'[q].live
    BY Zenon DEF Step, SessionStep
  <2>3. HandInv(d)'
    BY Zenon, <1>0, <1>1, <2>1, <2>2 DEF HandInv, Mine
  <2>4. VerdictInv(d)'
    <3> SUFFICES ASSUME q \notin swept' PROVE VerdictInv(d)'
      BY Zenon, <2>1 DEF VerdictInv
    <3>1. q \notin swept
      BY Zenon DEF Step
    <3>2. pc[d] \in {"join", "complete", "publish"} => out[d] # "none"
      BY Zenon, <1>0 DEF HandInv, Outcomes
    <3>3. pc[d] \in {"join", "complete", "publish"} /\ out[d] # "audit_failed" =>
             session[q].outcome = out[d]
      BY Zenon, <1>0, <2>1, <3>1 DEF VerdictInv, Mine
    <3>4. pc'[d] \in {"join", "complete", "publish"} /\ out'[d] # "audit_failed" =>
             session'[q].outcome = out'[d]
      BY Zenon, <1>1, <2>2, <3>2, <3>3
    <3>5. \/ pc'[d] = "publish" /\ seen'[d]
          \/ pc'[d] = "mark"
          \/ pc'[d] = "release" /\ decision'[d] = "commit"
          \/ pc'[d] = "commit" /\ q \notin Malformed
          => Settled(q)
      BY Zenon, <1>0, <1>1, <2>1, <3>1 DEF VerdictInv
    <3>6. Settled(q) => Settled(q)'
      BY Zenon, SettledStays
    <3> QED BY Zenon, <2>1, <3>4, <3>5, <3>6 DEF VerdictInv, Mine
  <2>5. expiries' = 0 /\ pc'[d] = "score" => HoldsLease(d)'
    <3> SUFFICES ASSUME expiries' = 0, pc[d] = "score" PROVE HoldsLease(d)'
      BY Zenon, <1>1
    <3>1. expiries = 0
      BY Zenon DEF Step
    <3>2. session[q].owner = d /\ session[q].live
      BY Zenon, <1>0, <2>1, <3>1 DEF LeaseInv, HoldsLease, Mine
    <3>3. session[q].outcome = "none"
      BY Zenon, <1>0, <2>1, <3>2 DEF HandInv, Mine
    <3> QED BY Zenon, <2>1, <2>2, <3>2, <3>3 DEF HoldsLease, Mine
  <2> QED BY Zenon, <2>3, <2>4, <2>5 DEF MoverOK
<1> QED BY Zenon, <1>2, <1>3

\* So it is enough to look at the processes that move.
LEMMA StepKeeps ==
    ASSUME FraudInv, TypeOK', NEW W, Step(W), \A d \in Workers : d \in W \/ MoverOK(d)
    PROVE  FraudInv'
<1>0. FlaggedIsStored /\ MarkedIsSettled
  BY Zenon DEF FraudInv, VerdictsInv
<1>1. \A d \in Workers : MoverOK(d)
  BY Zenon, RestsOK
<1>2. FlaggedIsStored'
  <2> SUFFICES ASSUME NEW r \in Offsets, r \notin swept', <<"fraud.flagged", r>> \in events'
               PROVE  session'[r].outcome = "flag"
    BY Zenon DEF FlaggedIsStored
  <2>1. CASE <<"fraud.flagged", r>> \in events
    <3>1. session[r].outcome = "flag"
      BY Zenon, <1>0, <2>1 DEF FlaggedIsStored, Step
    <3> QED BY Zenon, <3>1 DEF Step, SessionStep
  <2> QED BY Zenon, <2>1 DEF Step
<1>3. MarkedIsSettled'
  <2> SUFFICES ASSUME NEW r \in Offsets, r \notin swept', session'[r].published
               PROVE  Settled(r)'
    BY Zenon DEF MarkedIsSettled
  <2>1. session[r].published \/ Settled(r)
    BY Zenon DEF Step, SessionStep
  <2>2. Settled(r)
    BY Zenon, <1>0, <2>1 DEF MarkedIsSettled, Step
  <2> QED BY Zenon, <2>2, SettledStays
<1>4. expiries' = 0 => LeaseInv'
  BY Zenon, <1>1 DEF MoverOK, LeaseInv
<1> QED BY Zenon, <1>1, <1>2, <1>3, <1>4 DEF MoverOK, FraudInv, VerdictsInv

\* A process without a record owes nothing.
LEMMA FreeOK ==
    ASSUME NEW d \in Workers, pc'[d] \in {"idle", "down"}
    PROVE  MoverOK(d)
BY Zenon DEF MoverOK, HandInv, VerdictInv

-----------------------------------------------------------------------------
(* The steps of a process that handles a record.                           *)

\* An update finds its row, or fails with or without effect.
LEMMA UpdateFacts ==
    ASSUME TypeOK, NEW found, NEW s
    PROVE  /\ Succeeds(found, s) => found /\ session' = s /\ errors' \in Nat
           /\ Fails(found, s) =>
                 (session' = session \/ (found /\ session' = s)) /\ errors' \in Nat
           /\ Fail \/ NoFail => errors' \in Nat
<1>1. errors \in Nat
  BY Zenon, Types
<1>2. errors + 1 \in Nat
  BY <1>1
<1> QED BY Zenon, <1>1, <1>2 DEF Succeeds, Fails, Fail, NoFail

\* A step of w that publishes the events in E.
HandlerStep(w, E) ==
    /\ LocalOK' /\ OthersSame(w) /\ MoverOK(w)
    /\ SessionStep(Workers \ {w})
    /\ UNCHANGED <<swept, broker, expiries, revokes, stops>>
    /\ errors' \in Nat
    /\ events' = events \cup E
    /\ E \subseteq {"fraud.flagged", "fraud.error", "dlq"} \X Offsets
    /\ \A r \in Offsets : <<"fraud.flagged", r>> \in E /\ r \notin swept =>
          session'[r].outcome = "flag"

\* Such a step keeps the invariant.
LEMMA HandlerKeeps ==
    ASSUME FraudInv, NEW w \in Workers, NEW E, HandlerStep(w, E)
    PROVE  FraudInv'
<1>0. TypeOK
  BY Zenon DEF FraudInv, VerdictsInv
<1>1. events' \subseteq {"fraud.flagged", "fraud.error", "dlq"} \X Offsets
  BY Zenon, <1>0, Types DEF HandlerStep
<1>2. TypeOK'
  BY Zenon, <1>0, <1>1 DEF HandlerStep, SessionStep, broker, TypeOK, LocalOK, Row
<1>3. Step(Workers \ {w})
  BY Zenon DEF HandlerStep, OthersSame, Step
<1> QED BY Zenon, <1>2, <1>3, StepKeeps DEF HandlerStep

\* A row of fraud_sessions is a row.
LEMMA RowFacts ==
    ASSUME TypeOK, NEW q \in Offsets
    PROVE  /\ session[q] \in Row
           /\ session[q].outcome \in Outcomes \cup {"none"} /\ session[q].published \in BOOLEAN
BY Zenon, Types DEF Row

\* claim_session by the worker: with a stored outcome it goes on to the output, which
\* its copy says was published only if it is settled.
LEMMA ClaimKeeps ==
    ASSUME FraudInv, NEW w \in Workers, Claim(w)
    PROVE  FraudInv'
<1>0. TypeOK /\ LocalOK /\ HandInv(w) /\ VerdictInv(w) /\ MarkedIsSettled
  BY Zenon, Types DEF FraudInv, VerdictsInv
<1>1. PICK q \in Offsets : q = rec[w]
  BY Zenon, <1>0 DEF Claim, HandInv
<1>2. /\ UNCHANGED <<swept, broker, expiries, revokes, stops>> /\ events' = events \cup {}
      /\ {} \subseteq {"fraud.flagged", "fraud.error", "dlq"} \X Offsets
  BY Zenon DEF Claim
<1>3. CASE /\ Succeeds(Claimable(w), Leased(w)) /\ session[q].outcome # "none"
           /\ Take(w, "publish", session[q].outcome, session[q].published)
           /\ UNCHANGED heartbeat
  <2>1. /\ SessionStep(Workers \ {w}) /\ session'[q].outcome = session[q].outcome
        /\ errors' \in Nat
    <3>1. Claimable(w) /\ session' = Leased(w) /\ errors' \in Nat
      BY Zenon, <1>0, <1>3, UpdateFacts
    <3> QED BY Zenon, <1>0, <1>1, <3>1, LeaseStep
  <2>2. /\ LocalOK' /\ OthersSame(w) /\ pc'[w] = "publish" /\ rec'[w] = q
        /\ out'[w] = session[q].outcome /\ seen'[w] = session[q].published
    <3>1. PICK o, p : o = session[q].outcome /\ p = session[q].published
      BY Zenon
    <3>2. TakeStep(w, "publish", o, p)
      BY Zenon, <1>0, <1>3, <3>1, RowFacts DEF TakeStep, Labels, LocalOK
    <3>3. /\ LocalOK' /\ OthersSame(w) /\ pc'[w] = "publish" /\ rec'[w] = rec[w]
          /\ out'[w] = o /\ seen'[w] = p
      BY Zenon, <1>0, <3>2, TakeFacts
    <3> QED BY Zenon, <1>1, <3>1, <3>3
  <2>3. q \notin swept /\ session[q].published => Settled(q)'
    <3>1. q \notin swept /\ session[q].published => Settled(q)
      BY Zenon, <1>0 DEF MarkedIsSettled
    <3> QED BY Zenon, <1>2, <2>1, <3>1 DEF Settled
  <2>4. MoverOK(w)
    <3>1. out'[w] \in Outcomes
      BY Zenon, <1>0, <1>3, <2>2, RowFacts
    <3>2. HandInv(w)'
      BY Zenon, <2>2, <3>1 DEF HandInv
    <3>3. VerdictInv(w)'
      BY Zenon, <1>2, <2>1, <2>2, <2>3 DEF VerdictInv, Mine
    <3> QED BY Zenon, <2>2, <3>2, <3>3 DEF MoverOK
  <2>5. HandlerStep(w, {})
    BY Zenon, <1>2, <2>1, <2>2, <2>4 DEF HandlerStep
  <2> QED BY Zenon, <2>5, HandlerKeeps
<1>4. CASE /\ Succeeds(Claimable(w), Leased(w))
           /\ Take(w, "create", "none", FALSE)
           /\ heartbeat' = [heartbeat EXCEPT ![w] = "on"]
  <2>1. SessionStep(Workers \ {w}) /\ errors' \in Nat
    <3>1. Claimable(w) /\ session' = Leased(w) /\ errors' \in Nat
      BY Zenon, <1>0, <1>4, UpdateFacts
    <3> QED BY Zenon, <1>0, <1>1, <3>1, LeaseStep
  <2>2. LocalOK' /\ OthersSame(w) /\ pc'[w] = "create" /\ rec'[w] = q
    <3>1. TakeStep(w, "create", "none", FALSE)
      BY Zenon, <1>0, <1>4 DEF TakeStep, Labels, LocalOK
    <3> QED BY Zenon, <1>0, <1>1, <3>1, TakeFacts
  <2>3. MoverOK(w)
    BY Zenon, <2>2 DEF MoverOK, HandInv, VerdictInv
  <2>4. HandlerStep(w, {})
    BY Zenon, <1>2, <2>1, <2>2, <2>3 DEF HandlerStep
  <2> QED BY Zenon, <2>4, HandlerKeeps
<1>5. CASE Fails(Claimable(w), Leased(w)) /\ Forget(w, "idle")
  <2>1. SessionStep(Workers \ {w}) /\ errors' \in Nat
    <3>1. /\ session' = session \/ (Claimable(w) /\ session' = Leased(w))
          /\ errors' \in Nat
      BY Zenon, <1>0, <1>5, UpdateFacts
    <3>2. CASE session' = session
      BY Zenon, <1>0, <3>1, <3>2, SessionSame, SessionOthers
    <3>3. CASE Claimable(w) /\ session' = Leased(w)
      BY Zenon, <1>0, <1>1, <3>1, <3>3, LeaseStep
    <3> QED BY Zenon, <3>1, <3>2, <3>3
  <2>2. LocalOK' /\ OthersSame(w) /\ pc'[w] = "idle"
    BY Zenon, <1>0, <1>5, ForgetFacts DEF Labels
  <2>3. MoverOK(w)
    BY Zenon, <2>2, FreeOK
  <2>4. HandlerStep(w, {})
    BY Zenon, <1>2, <2>1, <2>2, <2>3 DEF HandlerStep
  <2> QED BY Zenon, <2>4, HandlerKeeps
<1> QED BY Zenon, <1>1, <1>3, <1>4, <1>5 DEF Claim, Mine

\* What a step of a handler leaves alone when it publishes nothing.
Quiet ==
    /\ UNCHANGED <<swept, broker, expiries, revokes, stops>>
    /\ events' = events
    /\ errors' \in Nat

\* A quiet step is a step of a handler.
LEMMA QuietKeeps ==
    ASSUME FraudInv, NEW w \in Workers, Quiet, SessionStep(Workers \ {w}),
           LocalOK', OthersSame(w), MoverOK(w)
    PROVE  FraudInv'
<1>1. HandlerStep(w, {})
  BY Zenon DEF HandlerStep, Quiet
<1> QED BY Zenon, <1>1, HandlerKeeps

\* claim_session by the graph: the session it gets has a stored outcome, which the
\* worker goes by, or it has none and the lease is held.
LEMMA CreateSessionKeeps ==
    ASSUME FraudInv, NEW w \in Workers, CreateSession(w)
    PROVE  FraudInv'
<1>0. TypeOK /\ LocalOK /\ HandInv(w)
  BY Zenon, Types DEF FraudInv, VerdictsInv
<1>1. PICK q \in Offsets : q = rec[w]
  BY Zenon, <1>0 DEF CreateSession, HandInv
<1>2. Quiet
  BY Zenon, <1>0, UpdateFacts DEF CreateSession, Quiet
<1>3. UNCHANGED heartbeat
  BY Zenon DEF CreateSession
<1>4. CASE /\ Succeeds(Claimable(w), Leased(w)) /\ session[q].outcome # "none"
           /\ Take(w, "join", session[q].outcome, FALSE)
  <2>1. SessionStep(Workers \ {w}) /\ session'[q].outcome = session[q].outcome
    <3>1. Claimable(w) /\ session' = Leased(w)
      BY Zenon, <1>0, <1>4, UpdateFacts
    <3> QED BY Zenon, <1>0, <1>1, <3>1, LeaseStep
  <2>2. /\ LocalOK' /\ OthersSame(w) /\ pc'[w] = "join" /\ rec'[w] = q
        /\ out'[w] = session[q].outcome
    <3>1. PICK o : o = session[q].outcome
      BY Zenon
    <3>2. TakeStep(w, "join", o, FALSE)
      BY Zenon, <1>0, <1>3, <1>4, <3>1, RowFacts DEF TakeStep, Labels, LocalOK
    <3>3. LocalOK' /\ OthersSame(w) /\ pc'[w] = "join" /\ rec'[w] = rec[w] /\ out'[w] = o
      BY Zenon, <1>0, <3>2, TakeFacts
    <3> QED BY Zenon, <1>1, <3>1, <3>3
  <2>3. MoverOK(w)
    BY Zenon, <1>4, <2>1, <2>2 DEF MoverOK, HandInv, VerdictInv, Mine
  <2> QED BY Zenon, <1>2, <2>1, <2>2, <2>3, QuietKeeps
<1>5. CASE /\ Succeeds(Claimable(w), Leased(w)) /\ session[q].outcome = "none"
           /\ Take(w, "score", "none", FALSE)
  <2>1. /\ SessionStep(Workers \ {w}) /\ session'[q].outcome = "none"
        /\ session'[q].owner = w /\ session'[q].live
    <3>1. Claimable(w) /\ session' = Leased(w)
      BY Zenon, <1>0, <1>5, UpdateFacts
    <3> QED BY Zenon, <1>0, <1>1, <1>5, <3>1, LeaseStep
  <2>2. LocalOK' /\ OthersSame(w) /\ pc'[w] = "score" /\ rec'[w] = q
    <3>1. TakeStep(w, "score", "none", FALSE)
      BY Zenon, <1>0, <1>3, <1>5 DEF TakeStep, Labels, LocalOK
    <3> QED BY Zenon, <1>0, <1>1, <3>1, TakeFacts
  <2>3. MoverOK(w)
    BY Zenon, <2>1, <2>2 DEF MoverOK, HandInv, VerdictInv, Mine, HoldsLease
  <2> QED BY Zenon, <1>2, <2>1, <2>2, <2>3, QuietKeeps
<1>6. CASE /\ Fails(Claimable(w), Leased(w))
           /\ Take(w, "join", "audit_failed", FALSE)
  <2>1. SessionStep(Workers \ {w})
    <3>1. session' = session \/ (Claimable(w) /\ session' = Leased(w))
      BY Zenon, <1>0, <1>6, UpdateFacts
    <3>2. CASE session' = session
      BY Zenon, <1>0, <3>2, SessionSame, SessionOthers
    <3>3. CASE Claimable(w) /\ session' = Leased(w)
      BY Zenon, <1>0, <1>1, <3>3, LeaseStep
    <3> QED BY Zenon, <3>1, <3>2, <3>3
  <2>2. /\ LocalOK' /\ OthersSame(w) /\ pc'[w] = "join" /\ rec'[w] = q
        /\ out'[w] = "audit_failed"
    <3>1. TakeStep(w, "join", "audit_failed", FALSE)
      BY Zenon, <1>0, <1>3, <1>6 DEF TakeStep, Labels, LocalOK
    <3> QED BY Zenon, <1>0, <1>1, <3>1, TakeFacts
  <2>3. MoverOK(w)
    BY Zenon, <2>2 DEF MoverOK, HandInv, VerdictInv
  <2> QED BY Zenon, <1>2, <2>1, <2>2, <2>3, QuietKeeps
<1> QED BY Zenon, <1>1, <1>4, <1>5, <1>6 DEF CreateSession, Mine

\* The graph scores: a process that holds the lease stores the first outcome, and
\* goes by it.
LEMMA ScoreKeeps ==
    ASSUME FraudInv, NEW w \in Workers, Score(w)
    PROVE  FraudInv'
<1>0. TypeOK /\ LocalOK /\ HandInv(w)
  BY Zenon, Types DEF FraudInv, VerdictsInv
<1>1. PICK q \in Offsets : q = rec[w]
  BY Zenon, <1>0 DEF Score, HandInv
<1>2. PICK o \in Outcomes :
         \/ Succeeds(HoldsLease(w), Completed(w, o)) /\ Take(w, "join", o, FALSE)
         \/ Fails(HoldsLease(w), Completed(w, o)) /\ Take(w, "join", "audit_failed", FALSE)
  BY Zenon DEF Score
<1>3. Quiet /\ UNCHANGED heartbeat
  BY Zenon, <1>0, <1>2, UpdateFacts DEF Score, Quiet
<1>4. HoldsLease(w) => session[q].outcome = "none"
  BY Zenon, <1>0, <1>1 DEF Score, HandInv, HoldsLease, Mine
<1>5. CASE Succeeds(HoldsLease(w), Completed(w, o)) /\ Take(w, "join", o, FALSE)
  <2>1. SessionStep(Workers \ {w}) /\ session'[q].outcome = o
    <3>1. HoldsLease(w) /\ session' = Completed(w, o)
      BY Zenon, <1>0, <1>5, UpdateFacts
    <3> QED BY Zenon, <1>0, <1>1, <1>4, <3>1, CompleteStep
  <2>2. LocalOK' /\ OthersSame(w) /\ pc'[w] = "join" /\ rec'[w] = q /\ out'[w] = o
    <3>1. TakeStep(w, "join", o, FALSE)
      BY Zenon, <1>0, <1>3, <1>5 DEF TakeStep, Labels, LocalOK
    <3> QED BY Zenon, <1>0, <1>1, <3>1, TakeFacts
  <2>3. MoverOK(w)
    BY Zenon, <2>1, <2>2 DEF MoverOK, HandInv, VerdictInv, Mine, Outcomes
  <2> QED BY Zenon, <1>3, <2>1, <2>2, <2>3, QuietKeeps
<1>6. CASE Fails(HoldsLease(w), Completed(w, o)) /\ Take(w, "join", "audit_failed", FALSE)
  <2>1. SessionStep(Workers \ {w})
    <3>1. session' = session \/ (HoldsLease(w) /\ session' = Completed(w, o))
      BY Zenon, <1>0, <1>6, UpdateFacts
    <3>2. CASE session' = session
      BY Zenon, <1>0, <3>2, SessionSame, SessionOthers
    <3>3. CASE HoldsLease(w) /\ session' = Completed(w, o)
      BY Zenon, <1>0, <1>1, <1>4, <3>3, CompleteStep
    <3> QED BY Zenon, <3>1, <3>2, <3>3
  <2>2. /\ LocalOK' /\ OthersSame(w) /\ pc'[w] = "join" /\ rec'[w] = q
        /\ out'[w] = "audit_failed"
    <3>1. TakeStep(w, "join", "audit_failed", FALSE)
      BY Zenon, <1>0, <1>3, <1>6 DEF TakeStep, Labels, LocalOK
    <3> QED BY Zenon, <1>0, <1>1, <3>1, TakeFacts
  <2>3. MoverOK(w)
    BY Zenon, <2>2 DEF MoverOK, HandInv, VerdictInv
  <2> QED BY Zenon, <1>3, <2>1, <2>2, <2>3, QuietKeeps
<1> QED BY Zenon, <1>2, <1>5, <1>6

\* A process that ends leaves the others what they rely on.
LEMMA DieKeeps ==
    ASSUME FraudInv, NEW w \in Workers, NEW s \in [Offsets -> Row], Released(s, w), Die(w, s),
           UNCHANGED <<swept, events, expiries>>,
           errors' \in Nat, revokes' \in Nat, stops' \in Nat
    PROVE  FraudInv'
<1>0. TypeOK /\ LocalOK
  BY Zenon, Types DEF FraudInv, VerdictsInv
<1>1. LocalOK' /\ OthersSame(w) /\ pc'[w] = "down"
  <2>1. "down" \in Labels /\ Forget(w, "down")
    BY Zenon DEF Labels, Die
  <2> QED BY Zenon, <1>0, <2>1, ForgetFacts
<1>2. SessionStep(Workers \ {w})
  <2>1. session' = [r \in Offsets |-> [s[r] EXCEPT !.owner = IF @ = w THEN "gone" ELSE @]]
    BY Zenon DEF Die
  <2> QED BY Zenon, <1>0, <2>1, DieStep
<1>3. assigned' \in Workers \cup {"none"} /\ UNCHANGED <<produced, position, committed>>
  BY Zenon, <1>0, Types DEF Die
<1>4. TypeOK'
  <2>1. session' \in [Offsets -> Row]
    BY Zenon, <1>2 DEF SessionStep
  <2> QED BY Zenon, <1>0, <1>1, <1>3, <2>1 DEF TypeOK, LocalOK, Row
<1>5. Step(Workers \ {w})
  BY Zenon, <1>1, <1>2 DEF Step, OthersSame
<1>6. MoverOK(w)
  BY Zenon, <1>1, FreeOK
<1> QED BY Zenon, <1>4, <1>5, <1>6, StepKeeps

\* The table itself, and the table without the lease of the process.
LEMMA ReleasedFacts ==
    ASSUME TypeOK, NEW w \in Workers
    PROVE  /\ session \in [Offsets -> Row] /\ Released(session, w)
           /\ rec[w] \in Offsets =>
                 Unleased(w) \in [Offsets -> Row] /\ Released(Unleased(w), w)
<1>1. session \in [Offsets -> Row]
  BY Zenon, Types
<1>2. Released(session, w)
  BY Zenon DEF Released
<1>3. ASSUME rec[w] \in Offsets, session[rec[w]].owner = w
      PROVE  Unleased(w) \in [Offsets -> Row] /\ Released(Unleased(w), w)
  <2>1. PICK q \in Offsets : q = rec[w]
    BY Zenon, <1>3
  <2>2. session[q] \in Row
    BY Zenon, <1>1
  <2>3. PICK row \in Row : row = [session[q] EXCEPT !.owner = "none", !.live = FALSE]
    BY Zenon, <2>2 DEF Row
  <2>4. /\ row.owner = "none"
        /\ row.outcome = session[q].outcome /\ row.published = session[q].published
    BY Zenon, <2>2, <2>3 DEF Row
  <2>5. PICK s : s = Unleased(w)
    BY Zenon
  <2>6. s = [session EXCEPT ![q] = row]
    BY Zenon, <1>1, <1>3, <2>1, <2>2, <2>3, <2>5 DEF Unleased, Mine, Row
  <2>7. s \in [Offsets -> Row] /\ s[q] = row /\ \A r \in Offsets : r # q => s[r] = session[r]
    BY Zenon, <1>1, <2>6
  <2>8. ASSUME NEW r \in Offsets
        PROVE  /\ s[r].outcome = session[r].outcome /\ s[r].published = session[r].published
               /\ \A d \in Workers \ {w} :
                     /\ s[r].owner = d => session[r].owner = d
                     /\ session[r].owner = d /\ session[r].live => s[r].owner = d /\ s[r].live
    <3>1. CASE r = q
      BY Zenon, <1>3, <2>1, <2>4, <2>7, <3>1, Names
    <3>2. CASE r # q
      <4>1. s[r] = session[r]
        BY Zenon, <2>7, <3>2
      <4> QED BY Zenon, <4>1
    <3> QED BY Zenon, <3>1, <3>2
  <2>9. Released(s, w)
    BY Zenon, <2>8 DEF Released
  <2> QED BY Zenon, <2>5, <2>7, <2>9
<1>4. session[rec[w]].owner # w => Unleased(w) = session
  BY Zenon DEF Unleased, Mine
<1> QED BY Zenon, <1>1, <1>2, <1>3, <1>4

\* _cancel(heartbeat) keeps the outcome the process goes by; with a failed task the
\* process ends.
LEMMA JoinHeartbeatKeeps ==
    ASSUME FraudInv, NEW w \in Workers, JoinHeartbeat(w)
    PROVE  FraudInv'
<1>0. TypeOK /\ LocalOK /\ HandInv(w) /\ VerdictInv(w)
  BY Zenon, Types DEF FraudInv, VerdictsInv
<1>1. PICK q \in Offsets : q = rec[w]
  BY Zenon, <1>0 DEF JoinHeartbeat, HandInv
<1>2. /\ UNCHANGED <<swept, events, expiries, revokes, stops, errors>>
      /\ errors' \in Nat /\ revokes' \in Nat /\ stops' \in Nat
  BY Zenon, <1>0, Types DEF JoinHeartbeat, budget
<1>3. CASE Die(w, session)
  BY Zenon, <1>0, <1>2, <1>3, ReleasedFacts, DieKeeps
<1>4. CASE /\ pc' = [pc EXCEPT ![w] = IF out[w] = "audit_failed" THEN "audit_error"
                                                                  ELSE "complete"]
           /\ heartbeat' = [heartbeat EXCEPT ![w] = "off"]
           /\ UNCHANGED <<rec, out, seen, decision, session, broker>>
  <2>1. LocalOK'
    BY Zenon, <1>0, <1>4 DEF LocalOK, Labels
  <2>2. /\ OthersSame(w) /\ rec'[w] = q /\ out'[w] = out[w]
        /\ pc'[w] = IF out[w] = "audit_failed" THEN "audit_error" ELSE "complete"
    BY Zenon, <1>0, <1>1, <1>4 DEF OthersSame, LocalSame, LocalOK
  <2>3. SessionStep(Workers \ {w})
    BY Zenon, <1>0, <1>4, SessionSame, SessionOthers
  <2>4. MoverOK(w)
    <3>1. pc'[w] = "audit_error" \/ (pc'[w] = "complete" /\ out[w] # "audit_failed")
      BY Zenon, <2>2
    <3>2. out[w] # "audit_failed" => out'[w] \in Outcomes
      BY Zenon, <1>0, <2>2 DEF LocalOK, HandInv, JoinHeartbeat
    <3>3. HandInv(w)'
      BY Zenon, <2>2, <3>1, <3>2 DEF HandInv
    <3>4. q \notin swept /\ out[w] # "audit_failed" => session'[q].outcome = out'[w]
      BY Zenon, <1>0, <1>1, <1>4, <2>2 DEF VerdictInv, Mine, JoinHeartbeat
    <3>5. VerdictInv(w)'
      BY Zenon, <1>2, <2>2, <3>1, <3>4 DEF VerdictInv, Mine
    <3> QED BY Zenon, <3>1, <3>3, <3>5 DEF MoverOK
  <2>5. Quiet
    BY Zenon, <1>2, <1>4 DEF Quiet
  <2> QED BY Zenon, <2>1, <2>2, <2>3, <2>4, <2>5, QuietKeeps
<1> QED BY Zenon, <1>3, <1>4 DEF JoinHeartbeat

\* A process that is about to return RETRY owes no verdict.
LEMMA RetryOK ==
    ASSUME LocalOK, NEW w \in Workers, rec[w] \in Offsets, Return(w, "retry")
    PROVE  LocalOK' /\ OthersSame(w) /\ MoverOK(w)
<1>1. /\ LocalOK' /\ OthersSame(w)
      /\ pc'[w] = "release" /\ rec'[w] = rec[w] /\ decision'[w] = "retry"
  BY Zenon, ReturnFacts
<1> QED BY Zenon, <1>1 DEF MoverOK, HandInv, VerdictInv

\* fraud.error for audit_failed or publish_failed.
LEMMA ErrorKeeps ==
    ASSUME FraudInv, NEW w \in Workers, PublishAuditError(w) \/ PublishPublishError(w)
    PROVE  FraudInv'
<1>0. TypeOK /\ LocalOK /\ HandInv(w)
  BY Zenon, Types DEF FraudInv, VerdictsInv
<1>1. PICK q \in Offsets : q = rec[w]
  BY Zenon, <1>0 DEF PublishAuditError, PublishPublishError, HandInv
<1>2. LocalOK' /\ OthersSame(w) /\ MoverOK(w)
  <2>1. Return(w, "retry") /\ rec[w] \in Offsets
    BY Zenon, <1>1 DEF PublishAuditError, PublishPublishError
  <2> QED BY Zenon, <1>0, <2>1, RetryOK
<1>3. SessionStep(Workers \ {w})
  <2>1. session' = session
    BY Zenon DEF PublishAuditError, PublishPublishError
  <2> QED BY Zenon, <1>0, <2>1, SessionSame, SessionOthers
<1>4. UNCHANGED <<swept, broker, expiries, revokes, stops>> /\ errors' \in Nat
  BY Zenon, <1>0, UpdateFacts DEF PublishAuditError, PublishPublishError
<1>5. PICK E \in {{}, {<<"fraud.error", q>>}} : events' = events \cup E
  BY Zenon, <1>1 DEF PublishAuditError, PublishPublishError
<1>6. /\ E \subseteq {"fraud.flagged", "fraud.error", "dlq"} \X Offsets
      /\ \A r \in Offsets : <<"fraud.flagged", r>> \notin E
  BY <1>5
<1>7. HandlerStep(w, E)
  BY Zenon, <1>2, <1>3, <1>4, <1>5, <1>6 DEF HandlerStep
<1> QED BY Zenon, <1>7, HandlerKeeps

\* complete_session by the worker stores the outcome that is stored already.
LEMMA CompleteSessionKeeps ==
    ASSUME FraudInv, NEW w \in Workers, CompleteSession(w)
    PROVE  FraudInv'
<1>0. TypeOK /\ LocalOK /\ HandInv(w) /\ VerdictInv(w) /\ MarkedIsSettled
  BY Zenon, Types DEF FraudInv, VerdictsInv
<1>1. PICK q \in Offsets : q = rec[w]
  BY Zenon, <1>0 DEF CompleteSession, HandInv
<1>2. PICK o \in Outcomes : o = out[w]
  BY Zenon, <1>0 DEF CompleteSession, HandInv
<1>3. \/ /\ Succeeds(HoldsLease(w), Completed(w, o))
         /\ Take(w, "publish", o, session[q].published)
      \/ /\ Fails(HoldsLease(w), Completed(w, o))
         /\ Take(w, "audit_error", o, FALSE)
  BY Zenon, <1>1, <1>2 DEF CompleteSession, Mine
<1>4. Quiet /\ UNCHANGED heartbeat
  BY Zenon, <1>0, <1>3, UpdateFacts DEF CompleteSession, Quiet
<1>5. swept' = swept /\ (q \notin swept => session[q].outcome = o)
  BY Zenon, <1>0, <1>1, <1>2 DEF CompleteSession, VerdictInv, Mine, Outcomes
<1>6. CASE /\ Succeeds(HoldsLease(w), Completed(w, o))
           /\ Take(w, "publish", o, session[q].published)
  <2>1. SessionStep(Workers \ {w}) /\ session'[q].outcome = o
    <3>1. HoldsLease(w) /\ session' = Completed(w, o)
      BY Zenon, <1>0, <1>6, UpdateFacts
    <3> QED BY Zenon, <1>0, <1>1, <1>5, <3>1, CompleteStep
  <2>2. /\ LocalOK' /\ OthersSame(w) /\ pc'[w] = "publish" /\ rec'[w] = q
        /\ out'[w] = o /\ seen'[w] = session[q].published
    <3>1. PICK p : p = session[q].published
      BY Zenon
    <3>2. TakeStep(w, "publish", o, p)
      BY Zenon, <1>0, <1>4, <1>6, <3>1, RowFacts DEF TakeStep, Labels, LocalOK
    <3>3. /\ LocalOK' /\ OthersSame(w) /\ pc'[w] = "publish" /\ rec'[w] = rec[w]
          /\ out'[w] = o /\ seen'[w] = p
      BY Zenon, <1>0, <3>2, TakeFacts
    <3> QED BY Zenon, <1>1, <3>1, <3>3
  <2>3. q \notin swept /\ session[q].published => Settled(q)'
    <3>1. q \notin swept /\ session[q].published => Settled(q)
      BY Zenon, <1>0 DEF MarkedIsSettled
    <3>2. events' = events
      BY Zenon, <1>4 DEF Quiet
    <3> QED BY Zenon, <1>5, <2>1, <3>1, <3>2 DEF Settled
  <2>4. MoverOK(w)
    <3>1. HandInv(w)'
      BY Zenon, <2>2 DEF HandInv
    <3>2. VerdictInv(w)'
      BY Zenon, <1>5, <2>1, <2>2, <2>3 DEF VerdictInv, Mine
    <3> QED BY Zenon, <2>2, <3>1, <3>2 DEF MoverOK
  <2> QED BY Zenon, <1>4, <2>1, <2>2, <2>4, QuietKeeps
<1>7. CASE Fails(HoldsLease(w), Completed(w, o)) /\ Take(w, "audit_error", o, FALSE)
  <2>1. SessionStep(Workers \ {w})
    <3>1. session' = session \/ (HoldsLease(w) /\ session' = Completed(w, o))
      BY Zenon, <1>0, <1>7, UpdateFacts
    <3>2. CASE session' = session
      BY Zenon, <1>0, <3>2, SessionSame, SessionOthers
    <3>3. CASE HoldsLease(w) /\ session' = Completed(w, o)
      BY Zenon, <1>0, <1>1, <1>5, <3>3, CompleteStep
    <3> QED BY Zenon, <3>1, <3>2, <3>3
  <2>2. LocalOK' /\ OthersSame(w) /\ pc'[w] = "audit_error" /\ rec'[w] = q
    <3>1. TakeStep(w, "audit_error", o, FALSE)
      BY Zenon, <1>0, <1>4, <1>7 DEF TakeStep, Labels, LocalOK
    <3> QED BY Zenon, <1>0, <1>1, <3>1, TakeFacts
  <2>3. MoverOK(w)
    BY Zenon, <2>2 DEF MoverOK, HandInv, VerdictInv
  <2> QED BY Zenon, <1>4, <2>1, <2>2, <2>3, QuietKeeps
<1> QED BY Zenon, <1>3, <1>6, <1>7

\* The output of a completed session: fraud.flagged is published for a stored flag,
\* and what goes on to the mark or to the commit is settled.
LEMMA PublishOutcomeKeeps ==
    ASSUME FraudInv, NEW w \in Workers, PublishOutcome(w)
    PROVE  FraudInv'
<1>0. TypeOK /\ LocalOK /\ HandInv(w) /\ VerdictInv(w)
  BY Zenon, Types DEF FraudInv, VerdictsInv
<1>1. PICK q \in Offsets : q = rec[w]
  BY Zenon, <1>0 DEF PublishOutcome, HandInv
<1>2. /\ out[w] \in Outcomes
      /\ q \notin swept => session[q].outcome = out[w] /\ (seen[w] => Settled(q))
  BY Zenon, <1>0, <1>1 DEF PublishOutcome, HandInv, VerdictInv, Mine, Outcomes
<1>3. UNCHANGED <<swept, session, broker, expiries, revokes, stops>> /\ errors' \in Nat
  BY Zenon, <1>0, UpdateFacts DEF PublishOutcome
<1>4. SessionStep(Workers \ {w})
  BY Zenon, <1>0, <1>3, SessionSame, SessionOthers
<1>5. CASE (seen[w] \/ out[w] = "allow") /\ Return(w, "commit") /\ UNCHANGED events
  <2>1. /\ LocalOK' /\ OthersSame(w)
        /\ pc'[w] = "release" /\ rec'[w] = rec[w] /\ decision'[w] = "commit"
    BY Zenon, <1>0, <1>5, ReturnFacts
  <2>2. q \notin swept => Settled(q)'
    BY Zenon, <1>2, <1>3, <1>5 DEF Settled, Outcomes
  <2>3. MoverOK(w)
    BY Zenon, <1>1, <1>3, <2>1, <2>2 DEF MoverOK, HandInv, VerdictInv
  <2>4. Quiet
    BY Zenon, <1>3, <1>5 DEF Quiet
  <2> QED BY Zenon, <1>4, <2>1, <2>3, <2>4, QuietKeeps
<1>6. CASE /\ out[w] = "flag"
           /\ events' = events \cup {<<"fraud.flagged", q>>}
           /\ Goto(w, "mark") \/ Goto(w, "publish_error")
  <2>1. PICK l \in {"mark", "publish_error"} : Goto(w, l)
    BY Zenon, <1>6
  <2>2. LocalOK' /\ OthersSame(w) /\ pc'[w] = l /\ rec'[w] = rec[w]
    <3>1. l \in Labels
      BY Zenon DEF Labels
    <3> QED BY Zenon, <1>0, <2>1, <3>1, GotoFacts
  <2>3. q \notin swept => Settled(q)' /\ session'[q].outcome = "flag"
    BY Zenon, <1>2, <1>3, <1>6 DEF Settled
  <2>4. MoverOK(w)
    BY Zenon, <1>1, <1>3, <2>2, <2>3 DEF MoverOK, HandInv, VerdictInv
  <2>5. /\ {<<"fraud.flagged", q>>} \subseteq {"fraud.flagged", "fraud.error", "dlq"} \X Offsets
        /\ \A r \in Offsets : <<"fraud.flagged", r>> \in {<<"fraud.flagged", q>>} => r = q
    OBVIOUS
  <2>6. HandlerStep(w, {<<"fraud.flagged", q>>})
    BY Zenon, <1>3, <1>4, <1>6, <2>2, <2>3, <2>4, <2>5 DEF HandlerStep
  <2> QED BY Zenon, <2>6, HandlerKeeps
<1>7. CASE Goto(w, "publish_error") /\ events' = events
  <2>1. LocalOK' /\ OthersSame(w) /\ pc'[w] = "publish_error" /\ rec'[w] = rec[w]
    <3>1. "publish_error" \in Labels
      BY Zenon DEF Labels
    <3> QED BY Zenon, <1>0, <1>7, <3>1, GotoFacts
  <2>2. MoverOK(w)
    BY Zenon, <1>1, <2>1 DEF MoverOK, HandInv, VerdictInv
  <2>3. Quiet
    BY Zenon, <1>3, <1>7 DEF Quiet
  <2> QED BY Zenon, <1>4, <2>1, <2>2, <2>3, QuietKeeps
<1>8. CASE /\ out[w] = "fail_open" /\ Goto(w, "mark")
           /\ events' = events \cup {<<"fraud.error", q>>} \/ events' = events
  <2>1. LocalOK' /\ OthersSame(w) /\ pc'[w] = "mark" /\ rec'[w] = rec[w]
    <3>1. "mark" \in Labels
      BY Zenon DEF Labels
    <3> QED BY Zenon, <1>0, <1>8, <3>1, GotoFacts
  <2>2. q \notin swept => Settled(q)'
    BY Zenon, <1>2, <1>3, <1>8 DEF Settled
  <2>3. MoverOK(w)
    BY Zenon, <1>1, <1>3, <2>1, <2>2 DEF MoverOK, HandInv, VerdictInv
  <2>4. PICK E \in {{}, {<<"fraud.error", q>>}} : events' = events \cup E
    BY Zenon, <1>8
  <2>5. /\ E \subseteq {"fraud.flagged", "fraud.error", "dlq"} \X Offsets
        /\ \A r \in Offsets : <<"fraud.flagged", r>> \notin E
    BY <2>4
  <2>6. HandlerStep(w, E)
    BY Zenon, <1>3, <1>4, <2>1, <2>3, <2>4, <2>5 DEF HandlerStep
  <2> QED BY Zenon, <2>6, HandlerKeeps
<1> QED BY Zenon, <1>1, <1>5, <1>6, <1>7, <1>8 DEF PublishOutcome

\* mark_published marks a settled session.
LEMMA MarkPublishedKeeps ==
    ASSUME FraudInv, NEW w \in Workers, MarkPublished(w)
    PROVE  FraudInv'
<1>0. TypeOK /\ LocalOK /\ HandInv(w) /\ VerdictInv(w)
  BY Zenon, Types DEF FraudInv, VerdictsInv
<1>1. PICK q \in Offsets : q = rec[w]
  BY Zenon, <1>0 DEF MarkPublished, HandInv
<1>2. PICK s : s = [session EXCEPT ![q].published = TRUE]
  BY Zenon
<1>3. \/ Succeeds(HoldsLease(w), s) /\ Return(w, "commit")
      \/ Fails(HoldsLease(w), s) /\ Return(w, "retry")
  BY Zenon, <1>1, <1>2 DEF MarkPublished
<1>4. Quiet /\ swept' = swept /\ events' = events
  BY Zenon, <1>0, <1>3, UpdateFacts DEF MarkPublished, Quiet
<1>5. q \notin swept => Settled(q)
  BY Zenon, <1>0, <1>1 DEF MarkPublished, VerdictInv
<1>6. SessionStep(Workers)
  <2>1. session' = session \/ session' = s
    BY Zenon, <1>0, <1>3, UpdateFacts
  <2>2. CASE session' = session
    BY Zenon, <1>0, <2>2, SessionSame
  <2>3. CASE session' = s
    <3>1. session' = [session EXCEPT ![q].published = TRUE] /\ (q \notin swept' => Settled(q))
      BY Zenon, <1>2, <1>4, <1>5, <2>3
    <3> QED BY Zenon, <1>0, <3>1, MarkStep
  <2> QED BY Zenon, <2>1, <2>2, <2>3
<1>7. CASE Return(w, "retry")
  BY Zenon, <1>0, <1>1, <1>4, <1>6, <1>7, RetryOK, SessionOthers, QuietKeeps
<1>8. CASE Return(w, "commit")
  <2>1. /\ LocalOK' /\ OthersSame(w)
        /\ pc'[w] = "release" /\ rec'[w] = rec[w] /\ decision'[w] = "commit"
    BY Zenon, <1>0, <1>8, ReturnFacts
  <2>2. q \notin swept => Settled(q)'
    <3>1. q \notin swept => session'[q].outcome = session[q].outcome
      BY Zenon, <1>4, <1>5, <1>6 DEF SessionStep, Settled
    <3> QED BY Zenon, <1>4, <1>5, <3>1 DEF Settled
  <2>3. MoverOK(w)
    BY Zenon, <1>1, <1>4, <2>1, <2>2 DEF MoverOK, HandInv, VerdictInv
  <2> QED BY Zenon, <1>4, <1>6, <2>1, <2>3, SessionOthers, QuietKeeps
<1> QED BY Zenon, <1>3, <1>7, <1>8

\* The finally block: with COMMIT the request stays settled, with RETRY the process
\* forgets it.
LEMMA ReleaseLeaseKeeps ==
    ASSUME FraudInv, NEW w \in Workers, ReleaseLease(w)
    PROVE  FraudInv'
<1>0. TypeOK /\ LocalOK /\ HandInv(w) /\ VerdictInv(w)
  BY Zenon, Types DEF FraudInv, VerdictsInv
<1>1. PICK q \in Offsets : q = rec[w]
  BY Zenon, <1>0 DEF ReleaseLease, HandInv
<1>2. Quiet /\ swept' = swept /\ events' = events
  BY Zenon, <1>0, UpdateFacts DEF ReleaseLease, Quiet
<1>3. SessionStep(Workers \ {w}) /\ session'[q].outcome = session[q].outcome
  <2>1. session' = session \/ session' = Unleased(w)
    BY Zenon DEF ReleaseLease
  <2>2. CASE session' = session
    BY Zenon, <1>0, <2>2, SessionSame, SessionOthers
  <2>3. CASE session' = Unleased(w)
    BY Zenon, <1>0, <1>1, <2>3, UnleaseStep
  <2> QED BY Zenon, <2>1, <2>2, <2>3
<1>4. CASE decision[w] = "commit" /\ Goto(w, "commit")
  <2>1. LocalOK' /\ OthersSame(w) /\ pc'[w] = "commit" /\ rec'[w] = rec[w]
    <3>1. "commit" \in Labels
      BY Zenon DEF Labels
    <3> QED BY Zenon, <1>0, <1>4, <3>1, GotoFacts
  <2>2. q \notin swept => Settled(q)
    BY Zenon, <1>0, <1>1, <1>4 DEF ReleaseLease, VerdictInv
  <2>3. q \notin swept => Settled(q)'
    BY Zenon, <1>2, <1>3, <2>2 DEF Settled
  <2>4. MoverOK(w)
    BY Zenon, <1>1, <1>2, <2>1, <2>3 DEF MoverOK, HandInv, VerdictInv
  <2> QED BY Zenon, <1>2, <1>3, <2>1, <2>4, QuietKeeps
<1>5. CASE Forget(w, "idle")
  <2>1. LocalOK' /\ OthersSame(w) /\ pc'[w] = "idle"
    <3>1. "idle" \in Labels
      BY Zenon DEF Labels
    <3> QED BY Zenon, <1>0, <1>5, <3>1, ForgetFacts
  <2>2. MoverOK(w)
    BY Zenon, <2>1, FreeOK
  <2> QED BY Zenon, <1>2, <1>3, <2>1, <2>2, QuietKeeps
<1> QED BY Zenon, <1>4, <1>5 DEF ReleaseLease

\* A malformed record goes to the dead-letter topic; it owes no verdict.
LEMMA DeadLetterKeeps ==
    ASSUME FraudInv, NEW w \in Workers, DeadLetter(w)
    PROVE  FraudInv'
<1>0. TypeOK /\ LocalOK /\ HandInv(w)
  BY Zenon, Types DEF FraudInv, VerdictsInv
<1>1. PICK q \in Offsets : q = rec[w] /\ q \in Malformed
  BY Zenon, <1>0 DEF DeadLetter, HandInv
<1>2. /\ UNCHANGED <<swept, session, broker, expiries, revokes, stops>> /\ errors' \in Nat
      /\ SessionStep(Workers \ {w})
  BY Zenon, <1>0, UpdateFacts, SessionSame, SessionOthers DEF DeadLetter
<1>3. CASE events' = events \cup {<<"dlq", q>>} /\ Goto(w, "commit")
  <2>1. LocalOK' /\ OthersSame(w) /\ pc'[w] = "commit" /\ rec'[w] = rec[w]
    <3>1. "commit" \in Labels
      BY Zenon DEF Labels
    <3> QED BY Zenon, <1>0, <1>3, <3>1, GotoFacts
  <2>2. MoverOK(w)
    BY Zenon, <1>1, <2>1 DEF MoverOK, HandInv, VerdictInv
  <2>3. /\ {<<"dlq", q>>} \subseteq {"fraud.flagged", "fraud.error", "dlq"} \X Offsets
        /\ \A r \in Offsets : <<"fraud.flagged", r>> \notin {<<"dlq", q>>}
    OBVIOUS
  <2>4. HandlerStep(w, {<<"dlq", q>>})
    BY Zenon, <1>2, <1>3, <2>1, <2>2, <2>3 DEF HandlerStep
  <2> QED BY Zenon, <2>4, HandlerKeeps
<1>4. CASE Forget(w, "idle") /\ UNCHANGED events
  <2>1. LocalOK' /\ OthersSame(w) /\ pc'[w] = "idle"
    <3>1. "idle" \in Labels
      BY Zenon DEF Labels
    <3> QED BY Zenon, <1>0, <1>4, <3>1, ForgetFacts
  <2>2. MoverOK(w) /\ Quiet
    BY Zenon, <1>2, <1>4, <2>1, FreeOK DEF Quiet
  <2> QED BY Zenon, <1>2, <2>1, <2>2, QuietKeeps
<1> QED BY Zenon, <1>1, <1>3, <1>4 DEF DeadLetter

\* commit_record: the process is done with the record, or ends.
LEMMA CommitRecordKeeps ==
    ASSUME FraudInv, NEW w \in Workers, CommitRecord(w)
    PROVE  FraudInv'
<1>0. TypeOK /\ LocalOK /\ HandInv(w)
  BY Zenon, Types DEF FraudInv, VerdictsInv
<1>1. PICK q \in Offsets : q = rec[w]
  BY Zenon, <1>0 DEF CommitRecord, HandInv
<1>2. /\ UNCHANGED <<swept, events, expiries, revokes, stops>>
      /\ errors' \in Nat /\ revokes' \in Nat /\ stops' \in Nat
  BY Zenon, <1>0, UpdateFacts, Types DEF CommitRecord
<1>3. CASE Die(w, session)
  BY Zenon, <1>0, <1>2, <1>3, ReleasedFacts, DieKeeps
<1>4. CASE /\ committed' = q /\ Forget(w, "idle")
           /\ UNCHANGED <<session, produced, assigned, position>>
  <2>1. LocalOK' /\ OthersSame(w) /\ pc'[w] = "idle"
    <3>1. "idle" \in Labels
      BY Zenon DEF Labels
    <3> QED BY Zenon, <1>0, <1>4, <3>1, ForgetFacts
  <2>2. q \in -1..NumRequests
    BY FraudConstants DEF Offsets
  <2>3. TypeOK'
    BY Zenon, <1>0, <1>2, <1>4, <2>1, <2>2 DEF TypeOK, LocalOK
  <2>4. Step(Workers \ {w})
    BY Zenon, <1>0, <1>2, <1>4, <2>1, SessionSame, SessionOthers DEF Step, OthersSame
  <2>5. MoverOK(w)
    BY Zenon, <2>1, FreeOK
  <2> QED BY Zenon, <2>3, <2>4, <2>5, StepKeeps
<1> QED BY Zenon, <1>1, <1>3, <1>4 DEF CommitRecord

\* The runner takes the next record; a malformed one goes to the dead letters.
LEMMA TakeRecordKeeps ==
    ASSUME FraudInv, NEW w \in Workers, TakeRecord(w)
    PROVE  FraudInv'
<1>0. TypeOK /\ LocalOK
  BY Zenon, Types DEF FraudInv, VerdictsInv
<1>1. position \in 0..NumRequests /\ produced \in 0..NumRequests /\ position < produced
  BY Zenon, <1>0, Types DEF TakeRecord
<1>2. PICK q \in Offsets : q = position + 1 /\ q \in 0..NumRequests
  BY <1>1, FraudConstants DEF Offsets
<1>3. /\ position' = q /\ rec' = [rec EXCEPT ![w] = q]
      /\ pc' = [pc EXCEPT ![w] = IF q \in Malformed THEN "dead_letter" ELSE "claim"]
      /\ UNCHANGED <<out, seen, decision, heartbeat, session, swept, events,
                     produced, assigned, committed, errors, expiries, revokes, stops>>
  BY Zenon, <1>2 DEF TakeRecord, budget
<1>4. LocalOK'
  BY Zenon, <1>0, <1>3 DEF LocalOK, Labels
<1>5. /\ rec'[w] = q /\ pc'[w] = IF q \in Malformed THEN "dead_letter" ELSE "claim"
      /\ OthersSame(w)
  BY Zenon, <1>0, <1>3 DEF LocalOK, OthersSame, LocalSame
<1>6. TypeOK'
  BY Zenon, <1>0, <1>2, <1>3, <1>4 DEF TypeOK, LocalOK
<1>7. Step(Workers \ {w})
  BY Zenon, <1>0, <1>3, <1>5, SessionSame, SessionOthers DEF Step, OthersSame
<1>8. MoverOK(w)
  BY Zenon, <1>5 DEF MoverOK, HandInv, VerdictInv
<1> QED BY Zenon, <1>6, <1>7, <1>8, StepKeeps

-----------------------------------------------------------------------------
(* The other steps.                                                        *)

\* A step in which no process moves.
LEMMA NobodyMoves ==
    ASSUME FraudInv, TypeOK', Step(Workers)
    PROVE  FraudInv'
BY Zenon, StepKeeps

\* What a step leaves alone that does not touch the processes and their events.
StillLocal ==
    UNCHANGED <<pc, rec, out, seen, decision, events>>

\* Such a step, with the sessions treated well.
LEMMA StillKeeps ==
    ASSUME FraudInv, TypeOK', StillLocal, SessionStep(Workers), swept \subseteq swept',
           expiries' = 0 => expiries = 0
    PROVE  FraudInv'
<1>1. Step(Workers)
  BY Zenon DEF Step, StillLocal, LocalSame
<1> QED BY Zenon, <1>1, NobodyMoves

\* renew_lease by the renewal task.
LEMMA RenewLeaseKeeps ==
    ASSUME FraudInv, NEW w \in Workers, RenewLease(w)
    PROVE  FraudInv'
<1>0. TypeOK /\ LocalOK
  BY Zenon, Types DEF FraudInv, VerdictsInv
<1>1. PICK found, s :
         /\ s = [session EXCEPT ![rec[w]].live = TRUE]
         /\ \/ Succeeds(found, s) /\ UNCHANGED heartbeat
            \/ Fails(found, s) /\ heartbeat' = [heartbeat EXCEPT ![w] = "failed"]
  BY Zenon DEF RenewLease
<1>2. /\ StillLocal /\ UNCHANGED <<swept, broker, expiries, revokes, stops>>
      /\ errors' \in Nat
  BY Zenon, <1>0, <1>1, UpdateFacts DEF RenewLease, StillLocal
<1>3. SessionStep(Workers)
  <2>1. session' = session \/ session' = s
    BY Zenon, <1>0, <1>1, UpdateFacts
  <2>2. CASE session' = session
    BY Zenon, <1>0, <2>2, SessionSame
  <2>3. CASE session' = s /\ rec[w] \in Offsets
    <3>1. PICK q \in Offsets : q = rec[w]
      BY Zenon, <2>3
    <3> QED BY Zenon, <1>0, <1>1, <2>3, <3>1, RenewStep
  <2>4. CASE session' = s /\ rec[w] \notin Offsets
    <3>1. session \in [Offsets -> Row]
      BY Zenon, <1>0, Types
    <3>2. s = session
      BY <1>1, <2>4, <3>1
    <3> QED BY Zenon, <1>0, <2>4, <3>2, SessionSame
  <2> QED BY Zenon, <2>1, <2>2, <2>3, <2>4
<1>4. heartbeat' \in [Workers -> {"off", "on", "failed"}]
  BY Zenon, <1>0, <1>1 DEF LocalOK
<1>5. TypeOK'
  <2>1. session' \in [Offsets -> Row]
    BY Zenon, <1>3 DEF SessionStep
  <2> QED BY Zenon, <1>0, <1>2, <1>4, <2>1 DEF TypeOK, StillLocal, broker, Row
<1> QED BY Zenon, <1>2, <1>3, <1>5, StillKeeps

\* The broker: a request arrives, the partition is given and taken.
LEMMA BrokerKeeps ==
    ASSUME FraudInv, Produce \/ Revoke \/ \E w \in Workers : Assign(w)
    PROVE  FraudInv'
<1>0. TypeOK
  BY Zenon DEF FraudInv, VerdictsInv
<1>1. /\ UNCHANGED <<local, session, swept, events, committed, errors, expiries, stops>>
      /\ \/ produced < NumRequests /\ produced' = produced + 1
         \/ produced' = produced
      /\ assigned' \in Workers \cup {"none"}
      /\ position' \in {position, produced, IF committed = -1 THEN produced ELSE committed}
      /\ revokes' \in {revokes, revokes + 1}
  BY Zenon, <1>0, Types DEF Produce, Revoke, Assign, budget
<1>2. produced' \in 0..NumRequests
  <2>1. produced \in 0..NumRequests
    BY Zenon, <1>0, Types
  <2>2. produced < NumRequests => produced + 1 \in 0..NumRequests
    BY <2>1, FraudConstants
  <2> QED BY Zenon, <1>1, <2>1, <2>2
<1>3. position' \in 0..NumRequests
  <2>1. /\ produced \in 0..NumRequests /\ position \in 0..NumRequests
        /\ committed \in -1..NumRequests
    BY Zenon, <1>0, Types
  <2>2. committed # -1 => committed \in 0..NumRequests
    BY <2>1, FraudConstants
  <2> QED BY Zenon, <1>1, <2>1, <2>2
<1>4. revokes' \in Nat
  <2>1. revokes \in Nat
    BY Zenon, <1>0, Types
  <2>2. revokes + 1 \in Nat
    BY <2>1
  <2> QED BY Zenon, <1>1, <2>1, <2>2
<1>5. StillLocal /\ SessionStep(Workers)
  BY Zenon, <1>0, <1>1, SessionSame DEF StillLocal, local
<1>6. TypeOK'
  BY Zenon, <1>0, <1>1, <1>2, <1>3, <1>4 DEF TypeOK, local
<1> QED BY Zenon, <1>1, <1>5, <1>6, StillKeeps

\* A lease runs out.
LEMMA ExpireKeeps ==
    ASSUME FraudInv, NEW r \in Offsets, Expire(r)
    PROVE  FraudInv'
<1>0. TypeOK
  BY Zenon DEF FraudInv, VerdictsInv
<1>1. expiries' \in Nat /\ expiries' # 0
  <2>1. expiries \in Nat
    BY Zenon, <1>0, Types
  <2>2. expiries + 1 \in Nat /\ expiries + 1 # 0
    BY <2>1
  <2> QED BY Zenon, <2>2 DEF Expire
<1>2. StillLocal /\ UNCHANGED <<swept, heartbeat, broker, errors, revokes, stops>>
  BY Zenon DEF Expire, StillLocal, local
<1>3. SessionStep(Workers)
  BY Zenon, <1>0, <1>1, ExpireStep DEF Expire
<1>4. TypeOK'
  <2>1. session' \in [Offsets -> Row]
    BY Zenon, <1>3 DEF SessionStep
  <2> QED BY Zenon, <1>0, <1>1, <1>2, <2>1 DEF TypeOK, StillLocal, broker, Row
<1> QED BY Zenon, <1>1, <1>2, <1>3, <1>4, StillKeeps

\* The retention sweep removes a completed session.
LEMMA SweepKeeps ==
    ASSUME FraudInv, NEW r \in Offsets, Sweep(r)
    PROVE  FraudInv'
<1>0. TypeOK
  BY Zenon DEF FraudInv, VerdictsInv
<1>1. swept' = swept \cup {r} /\ swept \subseteq swept' /\ swept' \subseteq Offsets
  BY Zenon, <1>0, Types DEF Sweep
<1>2. StillLocal /\ UNCHANGED <<heartbeat, broker, budget>>
  BY Zenon DEF Sweep, StillLocal, local
<1>3. SessionStep(Workers)
  BY Zenon, <1>0, <1>1, SweepStep DEF Sweep
<1>4. TypeOK'
  <2>1. session' \in [Offsets -> Row]
    BY Zenon, <1>3 DEF SessionStep
  <2> QED BY Zenon, <1>0, <1>1, <1>2, <2>1 DEF TypeOK, StillLocal, broker, budget, Row
<1>5. expiries' = expiries
  BY Zenon, <1>2 DEF budget
<1> QED BY Zenon, <1>1, <1>2, <1>3, <1>4, <1>5, StillKeeps

\* A process crashes, is stopped in a handler, or starts again.
LEMMA ProcessKeeps ==
    ASSUME FraudInv, NEW w \in Workers, Crash(w) \/ Shutdown(w) \/ Start(w)
    PROVE  FraudInv'
<1>0. TypeOK /\ LocalOK /\ HandInv(w)
  BY Zenon, Types DEF FraudInv, VerdictsInv
<1>1. stops + 1 \in Nat
  <2>1. stops \in Nat
    BY Zenon, <1>0, Types
  <2> QED BY <2>1
<1>2. CASE Crash(w) \/ Shutdown(w)
  <2>1. /\ UNCHANGED <<swept, events, expiries>>
        /\ errors' \in Nat /\ revokes' \in Nat /\ stops' \in Nat
    BY Zenon, <1>0, <1>1, <1>2, Types DEF Crash, Shutdown
  <2>2. PICK s \in {session, Unleased(w)} : Die(w, s) /\ (s # session => rec[w] \in Offsets)
    BY Zenon, <1>0, <1>2 DEF Crash, Shutdown, HandInv
  <2>3. s \in [Offsets -> Row] /\ Released(s, w)
    BY Zenon, <1>0, <2>2, ReleasedFacts
  <2> QED BY Zenon, <2>1, <2>2, <2>3, DieKeeps
<1>3. CASE Start(w)
  <2>1. LocalOK' /\ OthersSame(w) /\ pc'[w] = "idle"
    BY Zenon, <1>0, <1>3 DEF Start, LocalOK, Labels, OthersSame, LocalSame
  <2>2. MoverOK(w)
    BY Zenon, <2>1, FreeOK
  <2>3. SessionStep(Workers \ {w})
    BY Zenon, <1>0, <1>3, SessionSame, SessionOthers DEF Start
  <2>4. Quiet
    BY Zenon, <1>0, <1>3, Types DEF Start, Quiet, budget
  <2> QED BY Zenon, <2>1, <2>2, <2>3, <2>4, QuietKeeps
<1> QED BY Zenon, <1>2, <1>3

\* Every step keeps the invariant.
LEMMA NextFraud ==
    ASSUME FraudInv, [Next]_vars
    PROVE  FraudInv'
<1>1. CASE UNCHANGED vars
  BY Zenon, <1>1 DEF vars, local, broker, budget, FraudInv, VerdictsInv, TypeOK,
     FlaggedIsStored, MarkedIsSettled, Settled, HandInv, VerdictInv, LeaseInv, HoldsLease, Mine
<1>2. CASE \E w \in Workers : Handle(w)
  <2>1. PICK w \in Workers : Handle(w)
    BY Zenon, <1>2
  <2> QED BY Zenon, <2>1, ClaimKeeps, CreateSessionKeeps, ScoreKeeps, JoinHeartbeatKeeps,
             ErrorKeeps, CompleteSessionKeeps, PublishOutcomeKeeps, MarkPublishedKeeps,
             ReleaseLeaseKeeps, DeadLetterKeeps, CommitRecordKeeps DEF Handle
<1>3. CASE \E w \in Workers : TakeRecord(w) \/ RenewLease(w) \/ Crash(w) \/ Shutdown(w) \/ Start(w)
  BY Zenon, <1>3, TakeRecordKeeps, RenewLeaseKeeps, ProcessKeeps
<1>4. CASE Produce \/ Revoke \/ \E w \in Workers : Assign(w)
  BY Zenon, <1>4, BrokerKeeps
<1>5. CASE \E r \in Offsets : Expire(r) \/ Sweep(r)
  BY Zenon, <1>5, ExpireKeeps, SweepKeeps
<1> QED BY Zenon, <1>1, <1>2, <1>3, <1>4, <1>5 DEF Next

\* The invariant holds at the start.
LEMMA InitFraud == Init => FraudInv
<1> SUFFICES ASSUME Init PROVE FraudInv
  OBVIOUS
<1>1. NoSession \in Row /\ NoSession.published = FALSE
  BY DEF NoSession, Row, Outcomes
<1>2. session \in [Offsets -> Row] /\ \A r \in Offsets : session[r].published = FALSE
  BY Zenon, <1>1 DEF Init
<1>3. LocalOK /\ \A w \in Workers : pc[w] = "idle"
  BY Zenon DEF Init, LocalOK, Labels
<1>4. /\ 0 \in 0..NumRequests /\ 0 \in -1..NumRequests /\ -1 \in -1..NumRequests
      /\ 0 \in Nat
  BY FraudConstants
<1>5. /\ swept = {} /\ events = {} /\ produced = 0 /\ assigned = "none" /\ position = 0
      /\ committed \in {0, -1}
      /\ errors = 0 /\ expiries = 0 /\ revokes = 0 /\ stops = 0
  BY Zenon DEF Init
<1>6. TypeOK
  <2>1. /\ produced \in 0..NumRequests /\ position \in 0..NumRequests
        /\ committed \in -1..NumRequests
        /\ errors \in Nat /\ expiries \in Nat /\ revokes \in Nat /\ stops \in Nat
    BY Zenon, <1>4, <1>5
  <2>2. /\ swept \subseteq Offsets /\ assigned \in Workers \cup {"none"}
        /\ events \subseteq {"fraud.flagged", "fraud.error", "dlq"} \X Offsets
    BY Zenon, <1>5
  <2> QED BY Zenon, <1>2, <1>3, <2>1, <2>2, Types
<1>7. FlaggedIsStored /\ MarkedIsSettled
  BY Zenon, <1>2, <1>5 DEF FlaggedIsStored, MarkedIsSettled
<1>8. \A w \in Workers : HandInv(w) /\ VerdictInv(w) /\ pc[w] # "score"
  BY Zenon, <1>3 DEF HandInv, VerdictInv
<1> QED BY Zenon, <1>6, <1>7, <1>8 DEF FraudInv, VerdictsInv, LeaseInv

-----------------------------------------------------------------------------
(* What follows.                                                           *)

\* The verdicts of the processes are the stored ones in every reachable state.
THEOREM FraudInvariant == Spec => []FraudInv
BY InitFraud, NextFraud, PTL DEF Spec

\* With any number of processes, crashes, lost leases and redeliveries, fraud.flagged
\* is only out for a request whose stored verdict is flag.
THEOREM FlagsAreStored == Spec => []FlaggedIsStored
<1>1. FraudInv => FlaggedIsStored
  BY Zenon DEF FraudInv, VerdictsInv
<1> QED BY <1>1, FraudInvariant, PTL

\* _handle_request comes to commit a valid request only when it has a durable outcome
\* and its event is out.
THEOREM CommitsAreSettled == Spec => []CommitOnlyIfSettled
<1>1. FraudInv => CommitOnlyIfSettled
  BY Zenon DEF FraudInv, VerdictsInv, VerdictInv, CommitOnlyIfSettled
<1> QED BY <1>1, FraudInvariant, PTL

\* The lease: as long as none ran out, two processes never score one request at the
\* same time, crashes, revocations and the retention sweep included.
THEOREM ScoringIsExclusive == Spec => []NoDoubleScoring
<1>1. FraudInv => NoDoubleScoring
  <2> SUFFICES ASSUME FraudInv, expiries = 0, NEW v \in Workers, NEW w \in Workers,
                      v # w, pc[v] = "score", pc[w] = "score", rec[v] = rec[w]
               PROVE  FALSE
    BY Zenon DEF NoDoubleScoring
  <2>1. HoldsLease(v) /\ HoldsLease(w)
    BY Zenon DEF FraudInv, LeaseInv
  <2> QED BY Zenon, <2>1 DEF HoldsLease, Mine
<1> QED BY <1>1, FraudInvariant, PTL

=============================================================================
