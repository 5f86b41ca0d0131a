---------------------------- MODULE Verification ----------------------------
(***************************************************************************)
(* The verification service (internal/verification): calls of Submit and   *)
(* Decide that share the table verifications.  A call is a READ COMMITTED  *)
(* transaction, one action for each of its statements; the last statement  *)
(* commits.  The event of a decision is put into the outbox afterwards, by *)
(* a statement of its own.                                                 *)
(***************************************************************************)
EXTENDS Integers

CONSTANTS
    Users,
    Keys,          \* idempotency keys, chosen by the clients
    NoKey,         \* the key of a user without a row, and of an admin command
    Sessions,      \* calls in progress at a time
    Free,          \* the holder of a row lock nobody holds
    Mode,          \* VERIFICATION_MODE
    MaxFaults      \* bound: failing statements, lost answers and crashes

ASSUME VerificationAssumption ==
    /\ Users # {}
    /\ NoKey \notin Keys
    /\ Free \notin Sessions
    /\ Mode \in {"auto", "manual", "rules"}
    /\ MaxFaults \in Nat

VARIABLES
    status,      \* column status; "unverified" is a user without a row
    key,         \* column idempotency_key
    rowLock,     \* the session whose transaction has the row FOR UPDATE
    pc,          \* the statement each session does next
    cmd,         \* its command
    outbox,      \* number of events in the outbox, by user and status
    faults

vars == <<status, key, rowLock, pc, cmd, outbox, faults>>

Terminal == {"verified", "rejected"}
Statuses == {"unverified", "pending"} \cup Terminal

\* What Submit may decide in each mode.
Decisions ==
    CASE Mode = "auto"   -> {"verified"}
      [] Mode = "manual" -> {"pending"}
      [] Mode = "rules"  -> {"pending"} \cup Terminal

Commands == [user     : Users,
             key      : Keys \cup {NoKey},
             decision : {"pending"} \cup Terminal]

\* What an idle session is left with, for it means nothing.
AnyCommand == CHOOSE c \in Commands : TRUE

Labels == {"idle", "key", "row", "update", "insert", "publish"}

Init ==
    /\ status = [u \in Users |-> "unverified"]
    /\ key = [u \in Users |-> NoKey]
    /\ rowLock = [u \in Users |-> Free]
    /\ pc = [s \in Sessions |-> "idle"]
    /\ cmd = [s \in Sessions |-> AnyCommand]
    /\ outbox = [u \in Users |-> [d \in Terminal |-> 0]]
    /\ faults = 0

-----------------------------------------------------------------------------
(* Helpers.                                                                *)

User(s) == cmd[s].user
IsSubmit(s) == cmd[s].key # NoKey

Goto(s, l) == pc' = [pc EXCEPT ![s] = l] /\ UNCHANGED cmd

\* The call of s returns.
End(s) ==
    /\ pc' = [pc EXCEPT ![s] = "idle"]
    /\ cmd' = [cmd EXCEPT ![s] = AnyCommand]

\* Another user's row has the key: idempotencyKeyOwner and the unique index.
KeyTaken(s) == \E v \in Users \ {User(s)} : key[v] = cmd[s].key

Fault == faults < MaxFaults /\ faults' = faults + 1

\* The row locks once the transaction of s has ended.
Unlocked(s) == [u \in Users |-> IF rowLock[u] = s THEN Free ELSE rowLock[u]]

\* The transaction of s commits its row.  A decided row is announced next,
\* unless the answer to the commit is lost.
Commit(s) ==
    /\ status' = [status EXCEPT ![User(s)] = cmd[s].decision]
    /\ key' = [key EXCEPT ![User(s)] = IF IsSubmit(s) THEN cmd[s].key ELSE @]
    /\ rowLock' = Unlocked(s)
    /\ \/ cmd[s].decision \in Terminal /\ Goto(s, "publish") /\ UNCHANGED faults
       \/ cmd[s].decision \notin Terminal /\ End(s) /\ UNCHANGED faults
       \/ Fault /\ End(s)
    /\ UNCHANGED outbox

\* The transaction of s ends without a change.
Return(s) ==
    /\ rowLock' = Unlocked(s)
    /\ End(s)
    /\ UNCHANGED <<status, key, outbox, faults>>

-----------------------------------------------------------------------------
(* The service.                                                            *)

\* A client submits, again or anew, with any key.
Submit(s) ==
    /\ pc[s] = "idle"
    /\ \E u \in Users, k \in Keys, d \in Decisions :
          cmd' = [cmd EXCEPT ![s] = [user |-> u, key |-> k, decision |-> d]]
    /\ pc' = [pc EXCEPT ![s] = "key"]
    /\ UNCHANGED <<status, key, rowLock, outbox, faults>>

\* decisionFromAdminCommand: an admin command approves or rejects.
AdminDecisions == {"verified", "rejected"}

Decide(s) ==
    /\ pc[s] = "idle"
    /\ \E u \in Users, d \in AdminDecisions :
          cmd' = [cmd EXCEPT ![s] = [user |-> u, key |-> NoKey, decision |-> d]]
    /\ pc' = [pc EXCEPT ![s] = "row"]
    /\ UNCHANGED <<status, key, rowLock, outbox, faults>>

CheckKey(s) ==
    /\ pc[s] = "key"
    /\ \/ KeyTaken(s) /\ Return(s)
       \/ /\ ~KeyTaken(s)
          /\ Goto(s, "row")
          /\ UNCHANGED <<status, key, rowLock, outbox, faults>>

\* A row that is decided, or was written with this very key, stays as it is.
Settled(s) ==
    \/ status[User(s)] \in Terminal
    \/ IsSubmit(s) /\ key[User(s)] = cmd[s].key

\* Mutant: a repeated submission of a decided user is announced again.
SelectForUpdateAnnounces(s) ==
    /\ pc[s] = "row"
    /\ \/ /\ status[User(s)] = "unverified"
          /\ IF IsSubmit(s) THEN Goto(s, "insert") ELSE End(s)
          /\ UNCHANGED <<status, key, rowLock, outbox, faults>>
       \/ /\ status[User(s)] = cmd[s].decision /\ cmd[s].decision \in Terminal
          /\ rowLock[User(s)] = Free
          /\ Goto(s, "publish")
          /\ UNCHANGED <<status, key, rowLock, outbox, faults>>
       \/ /\ status[User(s)] # "unverified"
          /\ rowLock[User(s)] = Free
          /\ IF Settled(s) THEN Return(s)
             ELSE /\ rowLock' = [rowLock EXCEPT ![User(s)] = s]
                  /\ Goto(s, "update")
                  /\ UNCHANGED <<status, key, outbox, faults>>

\* selectVerificationForUpdate waits for the row, and reads what was committed
\* meanwhile.  A submission without a row goes on to insert one; an admin
\* command ends with ErrNotFound.
SelectForUpdate(s) ==
    /\ pc[s] = "row"
    /\ \/ /\ status[User(s)] = "unverified"
          /\ IF IsSubmit(s) THEN Goto(s, "insert") ELSE End(s)
          /\ UNCHANGED <<status, key, rowLock, outbox, faults>>
       \/ /\ status[User(s)] # "unverified"
          /\ rowLock[User(s)] = Free
          /\ Settled(s) /\ Return(s)
       \/ /\ status[User(s)] # "unverified"
          /\ rowLock[User(s)] = Free
          /\ ~Settled(s)
          /\ rowLock' = [rowLock EXCEPT ![User(s)] = s]
          /\ Goto(s, "update")
          /\ UNCHANGED <<status, key, outbox, faults>>

\* updateExistingVerification, and the UPDATE of Decide.
Update(s) ==
    /\ pc[s] = "update"
    /\ \/ IsSubmit(s) /\ KeyTaken(s) /\ Return(s)
       \/ ~(IsSubmit(s) /\ KeyTaken(s)) /\ Commit(s)

\* Mutant: no unique index on the keys.
InsertAnyKey(s) ==
    /\ pc[s] = "insert"
    /\ IF status[User(s)] # "unverified" THEN Return(s) ELSE Commit(s)

\* insertVerification: the row, or the key, may be there by now.
Insert(s) ==
    /\ pc[s] = "insert"
    /\ \/ (status[User(s)] # "unverified" \/ KeyTaken(s)) /\ Return(s)
       \/ status[User(s)] = "unverified" /\ ~KeyTaken(s) /\ Commit(s)

\* Mutant: the error of the enqueue is not looked at.
PublishUnchecked(s) ==
    /\ pc[s] = "publish"
    /\ \/ outbox' = [outbox EXCEPT ![User(s)][cmd[s].decision] = @ + 1]
       \/ UNCHANGED outbox
    /\ End(s)
    /\ UNCHANGED <<status, key, rowLock, faults>>

\* publish: the event goes into the outbox.
Publish(s) ==
    /\ pc[s] = "publish"
    /\ outbox' = [outbox EXCEPT ![User(s)][cmd[s].decision] = @ + 1]
    /\ End(s)
    /\ UNCHANGED <<status, key, rowLock, faults>>

\* A statement fails, or the process ends: an open transaction is rolled back,
\* and an event that was not put into the outbox never will be.
Abort(s) ==
    /\ pc[s] # "idle"
    /\ Fault
    /\ rowLock' = Unlocked(s)
    /\ End(s)
    /\ UNCHANGED <<status, key, outbox>>

Statement(s) ==
    \/ CheckKey(s) \/ SelectForUpdate(s) \/ Update(s) \/ Insert(s) \/ Publish(s)

Next == \E s \in Sessions : Submit(s) \/ Decide(s) \/ Statement(s) \/ Abort(s)

Spec == Init /\ [][Next]_vars

\* Every statement gets its answer; waiters for a row are served in turn.
FairSpec == Spec /\ \A s \in Sessions : SF_vars(Statement(s))

-----------------------------------------------------------------------------
(* Properties.                                                             *)

\* Every variable has its type.
TypeOK ==
    /\ status \in [Users -> Statuses]
    /\ key \in [Users -> Keys \cup {NoKey}]
    /\ rowLock \in [Users -> Sessions \cup {Free}]
    /\ pc \in [Sessions -> Labels]
    /\ cmd \in [Sessions -> Commands]
    /\ outbox \in [Users -> [Terminal -> Nat]]
    /\ faults \in Nat

\* A decision is final, and a row never goes: whatever submissions and admin
\* commands meet on a user, each having read the row before the other wrote it.
DecisionIsFinal ==
    [][\A u \in Users :
          /\ status[u] \in Terminal => status'[u] = status[u]
          /\ status'[u] = "unverified" => status[u] = "unverified"]_vars

\* A user's decision is announced at most once, and only the one the row keeps:
\* never both events, though the event is written after the row is unlocked.
OneTrueEvent ==
    \A u \in Users, d \in Terminal :
       /\ outbox[u][d] <= 1
       /\ outbox[u][d] > 0 => status[u] = d

\* An idempotency key belongs to one user, also when two submissions have both
\* found it unused.
KeyHasOneOwner ==
    \A u, v \in Users : key[u] = key[v] /\ key[u] # NoKey => u = v

\* Every decision is announced, unless a statement fails or the process ends
\* between the commit and the event.
EveryDecisionAnnounced ==
    \A u \in Users : status[u] \in Terminal ~>
                         faults > 0 \/ \E d \in Terminal : outbox[u][d] > 0

-----------------------------------------------------------------------------
(* The inductive invariant.                                                *)

\* A session about to update has the row, which is still undecided.
LockedIsPending ==
    \A s \in Sessions :
       pc[s] = "update" => rowLock[User(s)] = s /\ status[User(s)] = "pending"

\* A session about to announce is the only one to do so for its user, whose row
\* says what it will announce, and nothing has been announced yet.
AnnouncesFirst ==
    \A s \in Sessions : pc[s] = "publish" =>
       /\ cmd[s].decision \in Terminal
       /\ status[User(s)] = cmd[s].decision
       /\ \A d \in Terminal : outbox[User(s)][d] = 0
       /\ \A t \in Sessions \ {s} : pc[t] = "publish" => User(t) # User(s)

\* What makes DecisionIsFinal, OneTrueEvent and KeyHasOneOwner hold.
VerificationInv ==
    /\ TypeOK
    /\ LockedIsPending
    /\ AnnouncesFirst
    /\ OneTrueEvent
    /\ KeyHasOneOwner

=============================================================================
