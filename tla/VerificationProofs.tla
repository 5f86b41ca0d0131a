------------------------- MODULE VerificationProofs -------------------------
(***************************************************************************)
(* For any users, keys, sessions and faults: a decision of the             *)
(* verification service is final, is announced at most once and truly, and *)
(* a key has one owner.                                                    *)
(***************************************************************************)
EXTENDS Verification, TLAPS

\* An idle session is left with a command (cmd is reset when a call returns).
LEMMA AnyCommandType == AnyCommand \in Commands
  <1>1. PICK u \in Users : TRUE
    BY Zenon, VerificationAssumption
  <1>2. [user |-> u, key |-> NoKey, decision |-> "pending"] \in Commands
    BY Zenon, <1>1 DEF Commands
  <1> QED
    BY Zenon, <1>2 DEF AnyCommand

\* In every mode Submit decides for a status a row may have (Service.decide).
LEMMA DecisionsType == Decisions \subseteq {"pending"} \cup Terminal
  BY Zenon, VerificationAssumption DEF Decisions, Terminal

\* The empty table satisfies the invariant.
LEMMA InitInv == Init => VerificationInv
  BY AnyCommandType, VerificationAssumption
  DEF Init, VerificationInv, TypeOK, LockedIsPending, AnnouncesFirst,
      OneTrueEvent, KeyHasOneOwner, Statuses, Labels, Terminal, User

\* The invariant at the steps of s that write neither a row nor an event: a call
\* begins, reads, or returns (Goto, End, Return, Abort).
LEMMA QuietStep ==
  ASSUME VerificationInv, NEW s \in Sessions,
         UNCHANGED <<status, key, outbox>>,
         faults' \in Nat,
         pc' \in [Sessions -> Labels],
         cmd' \in [Sessions -> Commands],
         \A t \in Sessions \ {s} : pc'[t] = pc[t] /\ cmd'[t] = cmd[t],
         pc'[s] \notin {"update", "publish"},
         rowLock' \in [Users -> Sessions \cup {Free}],
         \A u \in Users : rowLock[u] # s => rowLock'[u] = rowLock[u]
  PROVE  VerificationInv'
  <1>1. TypeOK'
    BY Zenon DEF VerificationInv, TypeOK
  <1>2. LockedIsPending'
    BY DEF VerificationInv, TypeOK, LockedIsPending, User, Commands
  <1>3. AnnouncesFirst'
    BY DEF VerificationInv, TypeOK, AnnouncesFirst, User
  <1>4. OneTrueEvent' /\ KeyHasOneOwner'
    BY Zenon DEF VerificationInv, OneTrueEvent, KeyHasOneOwner
  <1> QED
    BY Zenon, <1>1, <1>2, <1>3, <1>4 DEF VerificationInv

\* The end of a transaction gives back its own rows only (Rollback, Commit).
LEMMA UnlockedType ==
  ASSUME TypeOK, NEW s \in Sessions
  PROVE  /\ Unlocked(s) \in [Users -> Sessions \cup {Free}]
         /\ \A u \in Users : rowLock[u] # s => Unlocked(s)[u] = rowLock[u]
  BY Zenon DEF TypeOK, Unlocked

\* A transaction that changes no row keeps the invariant.
LEMMA ReturnStep ==
  ASSUME VerificationInv, NEW s \in Sessions, Return(s)
  PROVE  VerificationInv'
  <1>1. TypeOK
    BY Zenon DEF VerificationInv
  <1>2. /\ pc' \in [Sessions -> Labels] /\ pc'[s] = "idle"
        /\ cmd' \in [Sessions -> Commands]
        /\ \A t \in Sessions \ {s} : pc'[t] = pc[t] /\ cmd'[t] = cmd[t]
    BY Zenon, <1>1, AnyCommandType DEF Return, End, TypeOK, Labels
  <1>3. faults' \in Nat /\ UNCHANGED <<status, key, outbox>>
    BY Zenon, <1>1 DEF Return, TypeOK
  <1>4. rowLock' = Unlocked(s)
    BY Zenon DEF Return
  <1> QED
    BY Zenon, <1>1, <1>2, <1>3, <1>4, UnlockedType, QuietStep

\* A statement that fails, or a crash, keeps it as well.
LEMMA AbortStep ==
  ASSUME VerificationInv, NEW s \in Sessions, Abort(s)
  PROVE  VerificationInv'
  <1>1. TypeOK
    BY Zenon DEF VerificationInv
  <1>2. /\ pc' \in [Sessions -> Labels] /\ pc'[s] = "idle"
        /\ cmd' \in [Sessions -> Commands]
        /\ \A t \in Sessions \ {s} : pc'[t] = pc[t] /\ cmd'[t] = cmd[t]
    BY Zenon, <1>1, AnyCommandType DEF Abort, End, TypeOK, Labels
  <1>3. faults' \in Nat /\ UNCHANGED <<status, key, outbox>>
    BY <1>1 DEF Abort, Fault, TypeOK
  <1>4. rowLock' = Unlocked(s)
    BY Zenon DEF Abort
  <1> QED
    BY Zenon, <1>1, <1>2, <1>3, <1>4, UnlockedType, QuietStep

\* A client's submission or an admin command begins.
LEMMA CallStep ==
  ASSUME VerificationInv, NEW s \in Sessions, Submit(s) \/ Decide(s)
  PROVE  VerificationInv'
  <1>1. TypeOK
    BY Zenon DEF VerificationInv
  <1>2. cmd' \in [Sessions -> Commands]
    <2>1. CASE Submit(s)
      <3>1. PICK u \in Users, k \in Keys, d \in Decisions :
               cmd' = [cmd EXCEPT ![s] = [user |-> u, key |-> k, decision |-> d]]
        BY Zenon, <2>1 DEF Submit
      <3>2. [user |-> u, key |-> k, decision |-> d] \in Commands
        BY Zenon, DecisionsType DEF Commands
      <3> QED
        BY Zenon, <1>1, <3>1, <3>2 DEF TypeOK
    <2>2. CASE Decide(s)
      <3>1. PICK u \in Users, d \in AdminDecisions :
               cmd' = [cmd EXCEPT ![s] = [user |-> u, key |-> NoKey, decision |-> d]]
        BY Zenon, <2>2 DEF Decide
      <3>2. [user |-> u, key |-> NoKey, decision |-> d] \in Commands
        BY Zenon DEF Commands, AdminDecisions, Terminal
      <3> QED
        BY Zenon, <1>1, <3>1, <3>2 DEF TypeOK
    <2> QED
      BY Zenon, <2>1, <2>2
  <1>3. \A t \in Sessions \ {s} : pc'[t] = pc[t] /\ cmd'[t] = cmd[t]
    BY Zenon, <1>1 DEF Submit, Decide, TypeOK
  <1>4. pc' \in [Sessions -> Labels] /\ pc'[s] \in {"key", "row"}
    BY Zenon, <1>1 DEF Submit, Decide, TypeOK, Labels
  <1>5. UNCHANGED <<status, key, rowLock, outbox, faults>>
    BY Zenon DEF Submit, Decide
  <1>6. faults' \in Nat /\ rowLock' \in [Users -> Sessions \cup {Free}]
    BY Zenon, <1>1, <1>5 DEF TypeOK
  <1> QED
    BY Zenon, <1>2, <1>3, <1>4, <1>5, <1>6, QuietStep

\* The read of the key's owner.
LEMMA CheckKeyStep ==
  ASSUME VerificationInv, NEW s \in Sessions, CheckKey(s)
  PROVE  VerificationInv'
  <1>1. CASE Return(s)
    BY Zenon, <1>1, ReturnStep
  <1>2. CASE Goto(s, "row") /\ UNCHANGED <<status, key, rowLock, outbox, faults>>
    BY Zenon, <1>2, QuietStep DEF Goto, VerificationInv, TypeOK, Labels
  <1> QED
    BY Zenon, <1>1, <1>2 DEF CheckKey

\* The read of the row: an undecided one is locked before it is written.
LEMMA SelectStep ==
  ASSUME VerificationInv, NEW s \in Sessions, SelectForUpdate(s)
  PROVE  VerificationInv'
  <1>1. CASE Return(s)
    BY Zenon, <1>1, ReturnStep
  <1>2. CASE Goto(s, "insert") /\ UNCHANGED <<status, key, rowLock, outbox, faults>>
    BY Zenon, <1>2, QuietStep DEF Goto, VerificationInv, TypeOK, Labels
  <1>3. CASE End(s) /\ UNCHANGED <<status, key, rowLock, outbox, faults>>
    BY Zenon, <1>3, QuietStep, AnyCommandType DEF End, VerificationInv, TypeOK, Labels
  <1>4. CASE /\ status[User(s)] # "unverified"
             /\ rowLock[User(s)] = Free
             /\ ~Settled(s)
             /\ rowLock' = [rowLock EXCEPT ![User(s)] = s]
             /\ Goto(s, "update")
             /\ UNCHANGED <<status, key, outbox, faults>>
    <2>1. TypeOK'
      BY Zenon, <1>4 DEF VerificationInv, TypeOK, Goto, Labels
    <2>2. User(s) \in Users
      BY Zenon DEF VerificationInv, TypeOK, User, Commands
    <2>3. status[User(s)] = "pending"
      BY Zenon, <1>4, <2>2 DEF Settled, VerificationInv, TypeOK, Statuses
    <2>4. LockedIsPending'
      BY <1>4, <2>2, <2>3, VerificationAssumption
      DEF VerificationInv, TypeOK, LockedIsPending, Goto, User, Commands
    <2>5. AnnouncesFirst'
      BY <1>4 DEF VerificationInv, TypeOK, AnnouncesFirst, Goto, User
    <2>6. OneTrueEvent' /\ KeyHasOneOwner'
      BY Zenon, <1>4 DEF VerificationInv, OneTrueEvent, KeyHasOneOwner
    <2> QED
      BY Zenon, <2>1, <2>4, <2>5, <2>6 DEF VerificationInv
  <1> QED
    BY Zenon, <1>1, <1>2, <1>3, <1>4 DEF SelectForUpdate

\* A transaction that writes the row of an undecided user, with a key no other
\* user has, keeps the invariant: the event of the decision is still to come.
LEMMA CommitStep ==
  ASSUME VerificationInv, NEW s \in Sessions, Commit(s),
         pc[s] \in {"update", "insert"},
         status[User(s)] \notin Terminal,
         \A t \in Sessions \ {s} : pc[t] = "update" => User(t) # User(s),
         IsSubmit(s) => ~KeyTaken(s)
  PROVE  VerificationInv'
  <1>1. TypeOK /\ User(s) \in Users /\ cmd[s] \in Commands
    BY Zenon DEF VerificationInv, TypeOK, User, Commands
  <1>2. \A d \in Terminal : outbox[User(s)][d] = 0
    BY <1>1 DEF VerificationInv, OneTrueEvent, TypeOK
  <1>3. \A t \in Sessions : pc[t] = "publish" => User(t) # User(s)
    BY Zenon, <1>1 DEF VerificationInv, AnnouncesFirst
  <1>4. /\ pc' \in [Sessions -> Labels] /\ cmd' \in [Sessions -> Commands]
        /\ \A t \in Sessions \ {s} : pc'[t] = pc[t] /\ cmd'[t] = cmd[t]
        /\ \/ pc'[s] = "publish" /\ cmd'[s] = cmd[s] /\ cmd[s].decision \in Terminal
           \/ pc'[s] = "idle"
        /\ faults' \in Nat
    <2>1. CASE Goto(s, "publish") /\ cmd[s].decision \in Terminal /\ faults' = faults
      BY Zenon, <1>1, <2>1 DEF Goto, TypeOK, Labels
    <2>2. CASE End(s) /\ faults' \in {faults, faults + 1}
      BY <1>1, <2>2, AnyCommandType DEF End, TypeOK, Labels
    <2> QED
      BY Zenon, <2>1, <2>2 DEF Commit, Fault
  <1>5. /\ status' = [status EXCEPT ![User(s)] = cmd[s].decision]
        /\ outbox' = outbox
        /\ rowLock' = Unlocked(s)
        /\ key' = [key EXCEPT ![User(s)] = IF IsSubmit(s) THEN cmd[s].key ELSE @]
    BY Zenon DEF Commit
  <1>6. TypeOK'
    BY Zenon, <1>1, <1>4, <1>5, UnlockedType DEF TypeOK, Commands, Statuses
  <1>7. LockedIsPending'
    <2> SUFFICES ASSUME NEW t \in Sessions, pc'[t] = "update"
                 PROVE  rowLock'[User(t)'] = t /\ status'[User(t)'] = "pending"
      BY Zenon DEF LockedIsPending
    <2>1. t # s /\ pc[t] = "update" /\ User(t)' = User(t) /\ User(t) # User(s)
      BY Zenon, <1>4 DEF User
    <2>2. rowLock[User(t)] = t /\ status[User(t)] = "pending" /\ User(t) \in Users
      BY Zenon, <1>1, <2>1 DEF VerificationInv, LockedIsPending, TypeOK, User, Commands
    <2> QED
      BY <1>1, <1>5, <2>1, <2>2, UnlockedType DEF TypeOK
  <1>8. AnnouncesFirst'
    <2> SUFFICES ASSUME NEW t \in Sessions, pc'[t] = "publish"
                 PROVE  /\ cmd'[t].decision \in Terminal
                        /\ status'[User(t)'] = cmd'[t].decision
                        /\ \A d \in Terminal : outbox'[User(t)'][d] = 0
                        /\ \A r \in Sessions \ {t} :
                              pc'[r] = "publish" => User(r)' # User(t)'
      BY Zenon DEF AnnouncesFirst
    <2>1. cmd'[t] = cmd[t] /\ User(t)' = User(t)
      BY Zenon, <1>4 DEF User
    <2>2. CASE t = s
      BY SMTT(60), <1>1, <1>2, <1>3, <1>4, <1>5, <2>1, <2>2 DEF TypeOK, User
    <2>3. CASE t # s
      <3>1. pc[t] = "publish" /\ User(t) # User(s) /\ User(t) \in Users
        BY Zenon, <1>1, <1>3, <1>4, <2>3 DEF TypeOK, User, Commands
      <3>2. /\ cmd[t].decision \in Terminal
            /\ status[User(t)] = cmd[t].decision
            /\ \A d \in Terminal : outbox[User(t)][d] = 0
            /\ \A r \in Sessions \ {t} : pc[r] = "publish" => User(r) # User(t)
        BY Zenon, <3>1 DEF VerificationInv, AnnouncesFirst
      <3>3. status'[User(t)] = status[User(t)]
        BY Zenon, <1>1, <1>5, <3>1 DEF TypeOK
      <3>4. ASSUME NEW r \in Sessions \ {t}, pc'[r] = "publish"
            PROVE  User(r)' # User(t)
        BY <1>4, <3>1, <3>2, <3>4 DEF User
      <3> QED
        BY Zenon, <1>5, <2>1, <3>2, <3>3, <3>4
    <2> QED
      BY Zenon, <2>2, <2>3
  <1>9. OneTrueEvent'
    BY Zenon, <1>1, <1>2, <1>5 DEF VerificationInv, OneTrueEvent, TypeOK
  <1>10. KeyHasOneOwner'
    BY Zenon, <1>1, <1>5 DEF VerificationInv, KeyHasOneOwner, KeyTaken, IsSubmit, TypeOK
  <1> QED
    BY Zenon, <1>6, <1>7, <1>8, <1>9, <1>10 DEF VerificationInv

\* The UPDATE of a locked row.
LEMMA UpdateStep ==
  ASSUME VerificationInv, NEW s \in Sessions, Update(s)
  PROVE  VerificationInv'
  <1>1. CASE Return(s)
    BY Zenon, <1>1, ReturnStep
  <1>2. CASE ~(IsSubmit(s) /\ KeyTaken(s)) /\ Commit(s)
    <2>1. pc[s] = "update"
      BY Zenon DEF Update
    <2>2. rowLock[User(s)] = s /\ status[User(s)] = "pending"
      BY Zenon, <2>1 DEF VerificationInv, LockedIsPending
    <2>3. \A t \in Sessions \ {s} : pc[t] = "update" => User(t) # User(s)
      BY Zenon, <2>2 DEF VerificationInv, LockedIsPending
    <2> QED
      BY Zenon, <1>2, <2>1, <2>2, <2>3, CommitStep DEF Terminal
  <1> QED
    BY Zenon, <1>1, <1>2 DEF Update

\* The INSERT of a row that is not there.
LEMMA InsertStep ==
  ASSUME VerificationInv, NEW s \in Sessions, Insert(s)
  PROVE  VerificationInv'
  <1>1. CASE Return(s)
    BY Zenon, <1>1, ReturnStep
  <1>2. CASE status[User(s)] = "unverified" /\ ~KeyTaken(s) /\ Commit(s)
    <2>1. pc[s] = "insert"
      BY Zenon DEF Insert
    <2>2. \A t \in Sessions \ {s} : pc[t] = "update" => User(t) # User(s)
      BY Zenon, <1>2 DEF VerificationInv, LockedIsPending
    <2> QED
      BY Zenon, <1>2, <2>1, <2>2, CommitStep DEF Terminal
  <1> QED
    BY Zenon, <1>1, <1>2 DEF Insert

\* The event of a decision is the first of its user, and tells the row.
LEMMA PublishStep ==
  ASSUME VerificationInv, NEW s \in Sessions, Publish(s)
  PROVE  VerificationInv'
  <1>1. TypeOK /\ User(s) \in Users /\ cmd[s] \in Commands /\ pc[s] = "publish"
    BY Zenon DEF VerificationInv, TypeOK, User, Commands, Publish
  <1>2. /\ cmd[s].decision \in Terminal
        /\ status[User(s)] = cmd[s].decision
        /\ \A d \in Terminal : outbox[User(s)][d] = 0
        /\ \A t \in Sessions \ {s} : pc[t] = "publish" => User(t) # User(s)
    BY Zenon, <1>1 DEF VerificationInv, AnnouncesFirst
  <1>3. /\ pc' \in [Sessions -> Labels] /\ pc'[s] = "idle"
        /\ cmd' \in [Sessions -> Commands]
        /\ \A t \in Sessions \ {s} : pc'[t] = pc[t] /\ cmd'[t] = cmd[t]
        /\ UNCHANGED <<status, key, rowLock, faults>>
    BY Zenon, <1>1, AnyCommandType DEF Publish, End, TypeOK, Labels
  <1>4. /\ outbox' \in [Users -> [Terminal -> Nat]]
        /\ \A u \in Users \ {User(s)} : outbox'[u] = outbox[u]
        /\ \A d \in Terminal :
              outbox'[User(s)][d] = IF d = cmd[s].decision THEN 1 ELSE 0
    BY <1>1, <1>2 DEF Publish, TypeOK
  <1>5. TypeOK'
    BY Zenon, <1>1, <1>3, <1>4 DEF TypeOK
  <1>6. LockedIsPending'
    BY <1>3 DEF VerificationInv, LockedIsPending, User
  <1>7. AnnouncesFirst'
    <2> SUFFICES ASSUME NEW t \in Sessions \ {s}, pc[t] = "publish"
                 PROVE  /\ cmd[t].decision \in Terminal
                        /\ status[User(t)] = cmd[t].decision
                        /\ \A d \in Terminal : outbox'[User(t)][d] = 0
                        /\ \A r \in Sessions \ {t} :
                              pc[r] = "publish" => User(r) # User(t)
      BY <1>3 DEF AnnouncesFirst, User
    <2>1. User(t) \in Users \ {User(s)}
      BY Zenon, <1>1, <1>2 DEF TypeOK, User, Commands
    <2> QED
      BY <1>4, <2>1 DEF VerificationInv, AnnouncesFirst
  <1>8. OneTrueEvent' /\ KeyHasOneOwner'
    BY <1>1, <1>2, <1>3, <1>4 DEF VerificationInv, OneTrueEvent, KeyHasOneOwner
  <1> QED
    BY Zenon, <1>5, <1>6, <1>7, <1>8 DEF VerificationInv

\* Every step keeps the invariant.
LEMMA NextInv == VerificationInv /\ [Next]_vars => VerificationInv'
  <1> SUFFICES ASSUME VerificationInv, [Next]_vars PROVE VerificationInv'
    OBVIOUS
  <1>1. ASSUME NEW s \in Sessions, Submit(s) \/ Decide(s) PROVE VerificationInv'
    BY Zenon, <1>1, CallStep
  <1>2. ASSUME NEW s \in Sessions, Statement(s) PROVE VerificationInv'
    BY Zenon, <1>2, CheckKeyStep, SelectStep, UpdateStep, InsertStep, PublishStep
    DEF Statement
  <1>3. ASSUME NEW s \in Sessions, Abort(s) PROVE VerificationInv'
    BY Zenon, <1>3, AbortStep
  <1>4. CASE UNCHANGED vars
    BY <1>4 DEF vars, VerificationInv, TypeOK, LockedIsPending, AnnouncesFirst,
                OneTrueEvent, KeyHasOneOwner, User
  <1> QED
    BY Zenon, <1>1, <1>2, <1>3, <1>4 DEF Next

\* VerificationInv holds for any users, keys, modes, sessions and faults.
THEOREM VerificationInvariant == Spec => []VerificationInv
  BY InitInv, NextInv, PTL DEF Spec

\* The events in the outbox are true and at most one for a user, however calls
\* interleave and fail between the commit of a row and its event.
THEOREM EventsAreTrue == Spec => []OneTrueEvent
  <1>1. VerificationInv => OneTrueEvent
    BY Zenon DEF VerificationInv
  <1> QED
    BY <1>1, VerificationInvariant, PTL

\* A key never gets two owners, though it is checked before the row is locked.
THEOREM KeysHaveOneOwner == Spec => []KeyHasOneOwner
  <1>1. VerificationInv => KeyHasOneOwner
    BY Zenon DEF VerificationInv
  <1> QED
    BY <1>1, VerificationInvariant, PTL

\* Only an undecided row is written, and with a status a row may have.
LEMMA CommitIsFinal ==
  ASSUME VerificationInv, NEW s \in Sessions, Commit(s),
         status[User(s)] \notin Terminal, NEW u \in Users
  PROVE  /\ status[u] \in Terminal => status'[u] = status[u]
         /\ status'[u] = "unverified" => status[u] = "unverified"
  <1>1. cmd[s].decision # "unverified" /\ User(s) \in Users
    BY Zenon DEF VerificationInv, TypeOK, Commands, Terminal, User
  <1>2. status' = [status EXCEPT ![User(s)] = cmd[s].decision]
    BY Zenon DEF Commit
  <1> QED
    BY Zenon, <1>1, <1>2 DEF VerificationInv, TypeOK

\* A decision is final: no step changes a decided row, or removes a row.
THEOREM DecisionsAreFinal == Spec => DecisionIsFinal
  <1> DEFINE Final(u) == /\ status[u] \in Terminal => status'[u] = status[u]
                         /\ status'[u] = "unverified" => status[u] = "unverified"
  <1>1. ASSUME VerificationInv, [Next]_vars, NEW u \in Users PROVE Final(u)
    <2>1. CASE status' = status
      BY Zenon, <2>1
    <2>2. ASSUME NEW s \in Sessions, Update(s) PROVE Final(u)
      <3>1. status[User(s)] \notin Terminal
        BY Zenon, <1>1, <2>2 DEF VerificationInv, LockedIsPending, Update, Terminal
      <3> QED
        BY Zenon, <1>1, <2>1, <2>2, <3>1, CommitIsFinal DEF Update, Return
    <2>3. ASSUME NEW s \in Sessions, Insert(s) PROVE Final(u)
      BY Zenon, <1>1, <2>1, <2>3, CommitIsFinal DEF Insert, Return, Terminal
    <2>4. ASSUME NEW s \in Sessions,
                 Submit(s) \/ Decide(s) \/ CheckKey(s) \/ SelectForUpdate(s)
                           \/ Publish(s) \/ Abort(s)
          PROVE  status' = status
      BY Zenon, <2>4 DEF Submit, Decide, CheckKey, SelectForUpdate, Publish, Abort, Return
    <2> QED
      BY Zenon, <1>1, <2>1, <2>2, <2>3, <2>4 DEF Next, Statement, vars
  <1>2. VerificationInv /\ [Next]_vars => [\A u \in Users : Final(u)]_vars
    BY Zenon, <1>1
  <1> QED
    BY <1>2, VerificationInvariant, PTL DEF Spec, DecisionIsFinal

=============================================================================
