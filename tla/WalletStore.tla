---------------------------- MODULE WalletStore -----------------------------
(***************************************************************************)
(* The wallet and ledger store (internal/repo/wallets.go): every call is a *)
(* database transaction of a few statements, and calls of the wallet and   *)
(* ledger services and of the ledger consumer interleave between them.     *)
(* The isolation is READ COMMITTED, so what a statement has read may be    *)
(* old at the next one unless the row is locked.  The writes of a          *)
(* transaction are seen by others when it commits, and its locks are       *)
(* released then.                                                          *)
(***************************************************************************)
EXTENDS Accounts, FiniteSetsExt

CONSTANTS
    Sessions,      \* calls that may run at the same time
    Free           \* no session

ASSUME StoreAssumption == Free \notin Sessions
ASSUME WalletsFinite == IsFiniteSet(Wallets)

VARIABLES
    call,              \* the operation and the move a session works on
    pc,                \* its next statement
    seen,              \* the balances it read when it locked the wallets
    walletLock,        \* the session that has locked a wallet row
    debitLock,         \* ... the debit row of a payment
    reservationLock    \* ... the reservation row of a payment

locks == <<walletLock, debitLock, reservationLock>>
vars == <<tables, call, pc, seen, locks>>

NoCall == <<"none", Free>>
Unread == [w \in Wallets |-> 0]

Init ==
    /\ AccountsInit
    /\ call = [s \in Sessions |-> NoCall]
    /\ pc = [s \in Sessions |-> "idle"]
    /\ seen = [s \in Sessions |-> Unread]
    /\ walletLock = [w \in Wallets |-> Free]
    /\ debitLock = [p \in Payments |-> Free]
    /\ reservationLock = [p \in Payments |-> Free]

Op(s) == call[s][1]
Move(s) == call[s][2]

-----------------------------------------------------------------------------

Goto(s, l) ==
    /\ pc' = [pc EXCEPT ![s] = l]
    /\ UNCHANGED <<call, seen>>

Released(l, s) == [r \in DOMAIN l |-> IF l[r] = s THEN Free ELSE l[r]]

\* The transaction ends, by Commit or by the deferred Rollback.
Return(s) ==
    /\ call' = [call EXCEPT ![s] = NoCall]
    /\ pc' = [pc EXCEPT ![s] = "idle"]
    /\ seen' = [seen EXCEPT ![s] = Unread]
    /\ walletLock' = Released(walletLock, s)
    /\ debitLock' = Released(debitLock, s)
    /\ reservationLock' = Released(reservationLock, s)

\* The wallets an operation locks.
WalletsOf(op, m) ==
    IF op \in {"debit", "compensate"} THEN {From[m]} ELSE {From[m], To[m]}

\* The wallets a session has still to lock.
Unlocked(s) == {w \in WalletsOf(Op(s), Move(s)) : walletLock[w] # s}

\* Mutant: the source first.
FirstOfSourceFirst(s) ==
    IF From[Move(s)] \in Unlocked(s) THEN From[Move(s)] ELSE To[Move(s)]

\* The row that LockWalletsForTransfer locks next: ORDER BY id.
First(s) == CHOOSE w \in Unlocked(s) : \A v \in Unlocked(s) : w <= v

\* lockWallet and lockWallets: the rows are locked one after the other, and the
\* balance is the one at the time of the lock.
LockWallet(s) ==
    /\ pc[s] = "lock"
    /\ LET w == First(s) IN
          /\ walletLock[w] = Free
          /\ walletLock' = [walletLock EXCEPT ![w] = s]
          /\ seen' = [seen EXCEPT ![s][w] = balance[w]]
          /\ pc' = [pc EXCEPT ![s] =
                       IF Unlocked(s) # {w} THEN "lock"
                       ELSE IF Op(s) = "debit" THEN "again"
                       ELSE "write"]
    /\ UNCHANGED <<tables, call, debitLock, reservationLock>>

-----------------------------------------------------------------------------
(* DebitForSaga and CompensateDebit.                                       *)

\* GetSagaWalletOperationForUpdate waits for the lock of a row that exists.
DebitRowFree(s) == debitLock[Move(s)] = Free

\* getSagaWalletOperation before the wallet is locked.  A row that exists is
\* locked, and committed at once.
FindDebit(s) ==
    /\ pc[s] = "find" /\ Op(s) = "debit"
    /\ \/ /\ Move(s) \in debits
          /\ DebitRowFree(s)
          /\ Return(s)
       \/ /\ Move(s) \notin debits
          /\ Goto(s, "lock")
          /\ UNCHANGED locks
    /\ UNCHANGED tables

\* Wallet.Debit: the balance that was read covers the amount.
CanDebit(s) == seen[s][From[Move(s)]] >= Amount[Move(s)]

\* The same with the wallet locked, and Wallet.Debit.
FindDebitAgain(s) ==
    /\ pc[s] = "again"
    /\ \/ /\ Move(s) \in debits
          /\ DebitRowFree(s)
          /\ Return(s)
       \/ /\ Move(s) \notin debits
          /\ ~CanDebit(s)
          /\ Return(s)
       \/ /\ Move(s) \notin debits
          /\ CanDebit(s)
          /\ Goto(s, "write")
          /\ UNCHANGED locks
    /\ UNCHANGED tables

\* UpdateWalletBalance, CreateSagaWalletOperation and Commit.  The branch for a
\* unique violation is not taken: see OperationIsFresh.
WriteDebit(s) ==
    /\ pc[s] = "write" /\ Op(s) = "debit"
    /\ LET p == Move(s) IN
          /\ balance' = [balance EXCEPT ![From[p]] = seen[s][From[p]] - Amount[p]]
          /\ debits' = debits \cup {p}
    /\ Return(s)
    /\ UNCHANGED <<refunds, reservation, transfers, entries>>

FindCompensation(s) ==
    /\ pc[s] = "find" /\ Op(s) = "compensate"
    /\ \/ Move(s) \in refunds /\ Return(s)
       \/ Move(s) \notin refunds /\ Goto(s, "debitrow") /\ UNCHANGED locks
    /\ UNCHANGED tables

\* getSagaWalletOperation locks the debit row.
LockDebitRow(s) ==
    /\ pc[s] = "debitrow"
    /\ \/ Move(s) \notin debits /\ Return(s)
       \/ /\ Move(s) \in debits
          /\ DebitRowFree(s)
          /\ debitLock' = [debitLock EXCEPT ![Move(s)] = s]
          /\ Goto(s, "recheck")
          /\ UNCHANGED <<walletLock, reservationLock>>
    /\ UNCHANGED tables

FindCompensationAgain(s) ==
    /\ pc[s] = "recheck"
    /\ \/ Move(s) \in refunds /\ Return(s)
       \/ Move(s) \notin refunds /\ Goto(s, "lock") /\ UNCHANGED locks
    /\ UNCHANGED tables

WriteCompensation(s) ==
    /\ pc[s] = "write" /\ Op(s) = "compensate"
    /\ LET p == Move(s) IN
          /\ balance' = [balance EXCEPT ![From[p]] = seen[s][From[p]] + Amount[p]]
          /\ refunds' = refunds \cup {p}
    /\ Return(s)
    /\ UNCHANGED <<debits, reservation, transfers, entries>>

-----------------------------------------------------------------------------
(* ReserveTransfer, ConfirmTransfer and CancelReservation.                 *)

FindReservation(s) ==
    /\ pc[s] = "find" /\ Op(s) = "reserve"
    /\ \/ /\ reservation[Move(s)] # "none"
          /\ reservationLock[Move(s)] = Free
          /\ Return(s)
       \/ /\ reservation[Move(s)] = "none"
          /\ Goto(s, "lock")
          /\ UNCHANGED locks
    /\ UNCHANGED tables

\* Mutant: ON CONFLICT DO UPDATE.
InsertReservationUpserts(s) ==
    /\ pc[s] = "write" /\ Op(s) = "reserve"
    /\ reservation' = [reservation EXCEPT ![Move(s)] = "RESERVED"]
    /\ Return(s)
    /\ UNCHANGED <<balance, debits, refunds, transfers, entries>>

\* Mutant: the INSERT is tried again after a unique violation.
InsertReservationRetries(s) ==
    /\ pc[s] = "write" /\ Op(s) = "reserve"
    /\ reservation[Move(s)] = "none"
    /\ reservation' = [reservation EXCEPT ![Move(s)] = "RESERVED"]
    /\ Return(s)
    /\ UNCHANGED <<balance, debits, refunds, transfers, entries>>

\* The INSERT; after a unique violation the row is only read.
InsertReservation(s) ==
    /\ pc[s] = "write" /\ Op(s) = "reserve"
    /\ \/ /\ reservation[Move(s)] # "none"
          /\ UNCHANGED tables
       \/ /\ reservation[Move(s)] = "none"
          /\ reservation' = [reservation EXCEPT ![Move(s)] = "RESERVED"]
          /\ UNCHANGED <<balance, debits, refunds, transfers, entries>>
    /\ Return(s)

\* A reservation that is settled is returned or refused; no row is changed.
LockReservation(s) ==
    /\ pc[s] = "find" /\ Op(s) \in {"confirm", "cancel"}
    /\ reservationLock[Move(s)] = Free
    /\ \/ reservation[Move(s)] # "RESERVED" /\ Return(s)
       \/ /\ reservation[Move(s)] = "RESERVED"
          /\ reservationLock' = [reservationLock EXCEPT ![Move(s)] = s]
          /\ Goto(s, IF Op(s) = "confirm" THEN "lock" ELSE "write")
          /\ UNCHANGED <<walletLock, debitLock>>
    /\ UNCHANGED tables

WriteConfirmation(s) ==
    /\ pc[s] = "write" /\ Op(s) = "confirm"
    /\ LET p == Move(s) IN
          /\ reservation' = [reservation EXCEPT ![p] = "CONFIRMED"]
          /\ transfers' = transfers \cup {p}
          /\ entries' = entries \cup Pair(p, seen[s])
    /\ Return(s)
    /\ UNCHANGED <<balance, debits, refunds>>

WriteCancel(s) ==
    /\ pc[s] = "write" /\ Op(s) = "cancel"
    /\ reservation' = [reservation EXCEPT ![Move(s)] = "CANCELED"]
    /\ Return(s)
    /\ UNCHANGED <<balance, debits, refunds, transfers, entries>>

-----------------------------------------------------------------------------
(* CreateTransfer and AppendTransferEntries.                               *)

\* Mutant: only the source is updated.
WriteTransferDebitsOnly(s) ==
    /\ pc[s] = "write" /\ Op(s) = "transfer"
    /\ LET t == Move(s) IN
          \/ ~CanDebit(s) /\ UNCHANGED tables
          \/ /\ CanDebit(s)
             /\ balance' = [balance EXCEPT ![From[t]] = seen[s][From[t]] - Amount[t]]
             /\ transfers' = transfers \cup {t}
             /\ UNCHANGED <<debits, refunds, reservation, entries>>
    /\ Return(s)

\* Both wallets, the transfer and its tx.initiated event, in one commit.
WriteTransfer(s) ==
    /\ pc[s] = "write" /\ Op(s) = "transfer"
    /\ LET t == Move(s) IN
          \/ ~CanDebit(s) /\ UNCHANGED tables
          \/ /\ CanDebit(s)
             /\ balance' = [balance EXCEPT ![From[t]] = seen[s][From[t]] - Amount[t],
                                           ![To[t]] = seen[s][To[t]] + Amount[t]]
             /\ transfers' = transfers \cup {t}
             /\ UNCHANGED <<debits, refunds, reservation, entries>>
    /\ Return(s)

\* The entries are looked up without a lock.
FindEntries(s) ==
    /\ pc[s] = "find" /\ Op(s) = "append"
    /\ \/ InLedger(Move(s)) /\ Return(s)
       \/ ~InLedger(Move(s)) /\ Goto(s, "lock") /\ UNCHANGED locks
    /\ UNCHANGED tables

\* The two INSERTs; a unique violation rolls back and is no error.
WriteEntries(s) ==
    /\ pc[s] = "write" /\ Op(s) = "append"
    /\ \/ InLedger(Move(s)) /\ UNCHANGED tables
       \/ /\ ~InLedger(Move(s))
          /\ entries' = entries \cup Pair(Move(s), seen[s])
          /\ UNCHANGED <<balance, debits, refunds, reservation, transfers>>
    /\ Return(s)

-----------------------------------------------------------------------------

\* The saga's calls for a payment may be repeated at any time.
WalletRequests == {<<op, p>> : op \in {"debit", "compensate"}, p \in Payments}

\* The identifier of a reservation is known once the row exists.
LedgerRequests ==
    {<<"reserve", p>> : p \in Payments}
    \cup {<<op, p>> : op \in {"confirm", "cancel"},
                      p \in {q \in Payments : reservation[q] # "none"}}

\* A transfer has no key: it is requested until it is done.
TransferRequests ==
    {<<"transfer", t>> : t \in {u \in Transfers \ transfers :
                                   \A s \in Sessions : call[s] # <<"transfer", u>>}}

\* The event of a transfer may be delivered more than once.
EntryRequests == {<<"append", t>> : t \in Transfers \cap transfers}

Requests == WalletRequests \cup LedgerRequests \cup TransferRequests \cup EntryRequests

Call(s) ==
    /\ pc[s] = "idle"
    /\ \E c \in Requests :
          /\ call' = [call EXCEPT ![s] = c]
          /\ pc' = [pc EXCEPT ![s] = IF c[1] = "transfer" THEN "lock" ELSE "find"]
    /\ UNCHANGED <<tables, seen, locks>>

\* The context is canceled or the connection is lost: the transaction is
\* rolled back.
Abort(s) ==
    /\ pc[s] # "idle"
    /\ Return(s)
    /\ UNCHANGED tables

\* The session that holds the row that s waits for, or Free.
Blocker(s) ==
    CASE pc[s] = "lock" -> walletLock[First(s)]
      [] pc[s] = "debitrow" /\ Move(s) \in debits -> debitLock[Move(s)]
      [] pc[s] = "again" /\ Move(s) \in debits -> debitLock[Move(s)]
      [] pc[s] = "find" /\ Op(s) = "debit" /\ Move(s) \in debits -> debitLock[Move(s)]
      [] pc[s] = "find" /\ Op(s) \in {"reserve", "confirm", "cancel"} ->
            reservationLock[Move(s)]
      [] OTHER -> Free

\* Sessions that wait for each other in a ring that s is part of.
OnCycle(s) ==
    \E ring \in SUBSET Sessions :
       /\ s \in ring
       /\ ring = {Blocker(u) : u \in ring}

\* The database finds a ring and fails the statement of a session in it.
DeadlockDetected(s) ==
    /\ OnCycle(s)
    /\ Return(s)
    /\ UNCHANGED tables

Statement(s) ==
    \/ LockWallet(s)
    \/ FindDebit(s) \/ FindDebitAgain(s) \/ WriteDebit(s)
    \/ FindCompensation(s) \/ LockDebitRow(s) \/ FindCompensationAgain(s)
    \/ WriteCompensation(s)
    \/ FindReservation(s) \/ InsertReservation(s)
    \/ LockReservation(s) \/ WriteConfirmation(s) \/ WriteCancel(s)
    \/ WriteTransfer(s)
    \/ FindEntries(s) \/ WriteEntries(s)

Next ==
    \E s \in Sessions :
       Call(s) \/ Statement(s) \/ Abort(s) \/ DeadlockDetected(s)

Spec == Init /\ [][Next]_vars

\* A session that waits for a row is queued, so it gets the row in its turn;
\* a ring of sessions is found.
FairSpec ==
    /\ Spec
    /\ \A s \in Sessions : SF_vars(Statement(s)) /\ WF_vars(DeadlockDetected(s))

-----------------------------------------------------------------------------
(* Properties.                                                             *)

Ops == {"debit", "compensate", "reserve", "confirm", "cancel", "transfer", "append"}

\* Every variable has its type.
TypeOK ==
    /\ balance \in [Wallets -> Nat]
    /\ debits \subseteq Payments
    /\ refunds \subseteq Payments
    /\ reservation \in [Payments -> {"none", "RESERVED", "CONFIRMED", "CANCELED"}]
    /\ transfers \subseteq Moves
    /\ entries \subseteq [move : Moves, direction : {"debit", "credit"}, after : Nat]
    /\ pc \in [Sessions -> {"idle", "find", "lock", "again", "debitrow", "recheck",
                            "write"}]
    /\ call \in [Sessions -> {NoCall} \cup (Ops \X Moves)]
    /\ seen \in [Sessions -> [Wallets -> Nat]]
    /\ walletLock \in [Wallets -> Sessions \cup {Free}]
    /\ debitLock \in [Payments -> Sessions \cup {Free}]
    /\ reservationLock \in [Payments -> Sessions \cup {Free}]

\* The balances a transaction computes with are still the balances of the rows
\* when it writes: lockWallet and lockWallets hold the rows until the commit.
LockedBalanceCurrent ==
    \A s \in Sessions :
       pc[s] \in {"again", "write"} /\ Op(s) # "cancel" =>
          \A w \in WalletsOf(Op(s), Move(s)) :
             walletLock[w] = s /\ seen[s][w] = balance[w]

\* DebitForSaga and CompensateDebit write their row only when there is none, and
\* a compensation only with the debit: the branches that handle a unique
\* violation are never taken for two calls of one payment.
OperationIsFresh ==
    \A s \in Sessions :
       pc[s] = "write" =>
          /\ Op(s) = "debit" => Move(s) \notin debits
          /\ Op(s) = "compensate" => Move(s) \in debits \ refunds
          /\ Op(s) \in {"confirm", "cancel"} => reservation[Move(s)] = "RESERVED"

\* What a session may be doing at each statement.
CallOK(s) ==
    /\ pc[s] = "idle" <=> call[s] = NoCall
    /\ pc[s] = "again" => Op(s) = "debit"
    /\ pc[s] \in {"debitrow", "recheck"} => Op(s) = "compensate"
    /\ pc[s] = "lock" => Op(s) # "cancel"
    /\ pc[s] # "idle" /\ Op(s) \in {"transfer", "append"} => Move(s) \in Transfers
    /\ pc[s] # "idle" /\ Op(s) \notin {"transfer", "append"} => Move(s) \in Payments
    /\ pc[s] # "idle" /\ Op(s) = "append" => Move(s) \in transfers
    /\ pc[s] # "idle" /\ Op(s) = "transfer" => Move(s) \notin transfers

\* The rows that a session holds, and what it knows of them.
HeldRows(s) ==
    /\ \A w \in Wallets : walletLock[w] = s => seen[s][w] = balance[w]
    /\ pc[s] \in {"again", "write"} /\ Op(s) # "cancel" =>
          \A w \in WalletsOf(Op(s), Move(s)) : walletLock[w] = s
    /\ Op(s) = "debit" /\ pc[s] = "write" =>
          Move(s) \notin debits /\ seen[s][From[Move(s)]] >= Amount[Move(s)]
    /\ Op(s) = "compensate" /\ pc[s] \in {"recheck", "lock", "write"} =>
          debitLock[Move(s)] = s /\ Move(s) \in debits
    /\ Op(s) = "compensate" /\ pc[s] \in {"lock", "write"} => Move(s) \notin refunds
    /\ Op(s) \in {"confirm", "cancel"} /\ pc[s] \in {"lock", "write"} =>
          reservationLock[Move(s)] = s /\ reservation[Move(s)] = "RESERVED"

\* The row a session has read and not yet written is held by it, so that no two
\* sessions act on one state of a wallet, a debit or a reservation; a transfer
\* is requested by one session.
StoreInv ==
    /\ TypeOK
    /\ \A s \in Sessions : CallOK(s) /\ HeldRows(s)
    /\ \A s, u \in Sessions :
          Op(s) = "transfer" /\ call[u] = call[s] => u = s

\* The locks of a session: the wallets of its call, in ascending order, while
\* it locks them; the debit row that it will refund; the reservation that it
\* will settle.  A session that has yet to lock a wallet has one to lock.
LockOrder(s) ==
    /\ \A w \in Wallets :
          walletLock[w] = s => /\ pc[s] \in {"lock", "again", "write"}
                               /\ w \in WalletsOf(Op(s), Move(s))
    /\ pc[s] = "lock" =>
          /\ Unlocked(s) # {}
          /\ \A w \in Wallets : walletLock[w] = s => \A v \in Unlocked(s) : w < v
    /\ \A p \in Payments :
          debitLock[p] = s => /\ pc[s] \in {"recheck", "lock", "write"}
                              /\ call[s] = <<"compensate", p>>
    /\ \A p \in Payments :
          reservationLock[p] = s => /\ pc[s] \in {"lock", "write"}
                                    /\ Op(s) \in {"confirm", "cancel"}

\* What the absence of other rings rests on.
LocksInv == StoreInv /\ \A s \in Sessions : LockOrder(s)

Total(f, S) == FoldSet(LAMBDA x, sum : f[x] + sum, 0, S)

\* Whatever calls are repeated, aborted or run at the same time, money leaves the
\* wallets only with a debit that has not been compensated.
MoneyConserved ==
    Total(balance, Wallets) + Total(Amount, debits \ refunds) = Total(Opening, Wallets)

\* A refund is of a debit, so that it gives back what was taken.
MoneyInv == MoneyConserved /\ refunds \subseteq debits /\ IsFiniteSet(debits)

\* Calls wait for each other in a ring only when a compensation of a payment,
\* which locks the debit row before the wallet, meets a debit of the same
\* payment, which locks the wallet before the debit row.  Wallets are always
\* locked in the order of their identifiers.
RingsOnlyOnRepeatedDebit ==
    \A s \in Sessions :
       OnCycle(s) =>
          \E u, v \in Sessions :
             /\ call[u] = <<"debit", Move(v)>> /\ pc[u] = "again"
             /\ call[v] = <<"compensate", Move(u)>> /\ pc[v] = "lock"

\* Every call of the store takes effect at one moment, its commit: the tables
\* change as if calls ran one at a time.
ImplementsAccounts == AccountsSpec

\* Every call returns: no session waits for a row for ever.
CallsReturn ==
    \A s \in Sessions : pc[s] # "idle" ~> pc[s] = "idle"

=============================================================================
