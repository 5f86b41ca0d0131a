------------------------- MODULE WalletStoreProofs --------------------------
(***************************************************************************)
(* Proofs about WalletStore, for any wallets, payments, transfers and      *)
(* number of sessions: the inductive invariant, that no balance is stale   *)
(* when it is written, that the store implements Accounts, which calls can *)
(* deadlock, and that money is conserved.                                  *)
(*                                                                         *)
(* A step of a session touches its own call and locks only (OwnStep).      *)
(* What the other sessions know of the rows they hold is then kept if the  *)
(* step changes no row that another one holds (Untouched).                 *)
(***************************************************************************)
EXTENDS WalletStore, FiniteSetTheorems, TLAPS

\* A step of s leaves the calls, statements and locks of the others alone.
OwnStep(s) ==
    \A u \in Sessions \ {s} :
       /\ call'[u] = call[u] /\ pc'[u] = pc[u] /\ seen'[u] = seen[u]
       /\ \A w \in Wallets : walletLock'[w] = u <=> walletLock[w] = u
       /\ \A p \in Payments : debitLock'[p] = u <=> debitLock[p] = u
       /\ \A p \in Payments : reservationLock'[p] = u <=> reservationLock[p] = u

\* A step changes no row that u holds, and nothing that u has found out.
Untouched(u) ==
    /\ \A w \in Wallets : walletLock[w] = u => balance'[w] = balance[w]
    /\ transfers \subseteq transfers' /\ debits \subseteq debits'
    /\ Op(u) = "transfer" => (Move(u) \in transfers' => Move(u) \in transfers)
    /\ Op(u) = "debit" /\ pc[u] = "write" => (Move(u) \in debits' => Move(u) \in debits)
    /\ Op(u) = "compensate" /\ pc[u] \in {"lock", "write"} =>
          (Move(u) \in refunds' => Move(u) \in refunds)
    /\ Op(u) \in {"confirm", "cancel"} /\ pc[u] \in {"lock", "write"} =>
          reservation'[Move(u)] = reservation[Move(u)]

\* The store starts in the invariant.
LEMMA InitStore == Init => StoreInv
BY AccountsAssumption, StoreAssumption
   DEF Init, AccountsInit, StoreInv, TypeOK, CallOK, HeldRows, Op, Move, NoCall, Unread,
       Moves, Ops

\* What the end of a transaction does: the session is idle and holds nothing.
LEMMA Returned ==
    ASSUME StoreInv, NEW s \in Sessions, Return(s)
    PROVE  /\ OwnStep(s)
           /\ call'[s] = NoCall /\ pc'[s] = "idle"
           /\ \A w \in Wallets : walletLock'[w] # s
           /\ \A p \in Payments : debitLock'[p] # s /\ reservationLock'[p] # s
<1>1. /\ pc' \in [Sessions -> {"idle", "find", "lock", "again", "debitrow", "recheck",
                               "write"}]
      /\ call' \in [Sessions -> {NoCall} \cup (Ops \X Moves)]
      /\ seen' \in [Sessions -> [Wallets -> Nat]]
  BY Zenon DEF StoreInv, TypeOK, Return, Unread
<1>2. OwnStep(s) /\ call'[s] = NoCall /\ pc'[s] = "idle"
  BY StoreAssumption DEF StoreInv, TypeOK, Return, Released, OwnStep
<1>3. /\ \A w \in Wallets : walletLock'[w] # s
      /\ \A p \in Payments : debitLock'[p] # s /\ reservationLock'[p] # s
  BY Zenon, StoreAssumption DEF StoreInv, TypeOK, Return, Released
<1> QED BY Zenon, <1>2, <1>3

\* The variables of the sessions keep their types when a transaction ends.
LEMMA ReturnTyped ==
    ASSUME StoreInv, NEW s \in Sessions, Return(s)
    PROVE  /\ pc' \in [Sessions -> {"idle", "find", "lock", "again", "debitrow", "recheck",
                                    "write"}]
           /\ call' \in [Sessions -> {NoCall} \cup (Ops \X Moves)]
           /\ seen' \in [Sessions -> [Wallets -> Nat]]
           /\ walletLock' \in [Wallets -> Sessions \cup {Free}]
           /\ debitLock' \in [Payments -> Sessions \cup {Free}]
           /\ reservationLock' \in [Payments -> Sessions \cup {Free}]
<1>1. /\ pc' \in [Sessions -> {"idle", "find", "lock", "again", "debitrow", "recheck",
                               "write"}]
      /\ call' \in [Sessions -> {NoCall} \cup (Ops \X Moves)]
      /\ seen' \in [Sessions -> [Wallets -> Nat]]
  BY Zenon DEF StoreInv, TypeOK, Return, Unread
<1>2. /\ walletLock' \in [Wallets -> Sessions \cup {Free}]
      /\ debitLock' \in [Payments -> Sessions \cup {Free}]
      /\ reservationLock' \in [Payments -> Sessions \cup {Free}]
  BY Zenon DEF StoreInv, TypeOK, Return, Released
<1> QED BY Zenon, <1>1, <1>2

\* A session that works on a call has one of Ops, about a move; the wallets it
\* locks are wallets.
LEMMA Busy ==
    ASSUME StoreInv, NEW u \in Sessions, pc[u] # "idle"
    PROVE  /\ Op(u) \in Ops /\ Move(u) \in Moves
           /\ call[u] = <<Op(u), Move(u)>>
           /\ From[Move(u)] \in Wallets /\ To[Move(u)] \in Wallets
           /\ From[Move(u)] # To[Move(u)]
           /\ WalletsOf(Op(u), Move(u)) \subseteq Wallets
           /\ From[Move(u)] \in WalletsOf(Op(u), Move(u))
<1>1. call[u] \in Ops \X Moves
  BY Zenon DEF StoreInv, TypeOK, CallOK
<1>2. Op(u) \in Ops /\ Move(u) \in Moves /\ call[u] = <<Op(u), Move(u)>>
  BY <1>1 DEF Op, Move
<1>3. From[Move(u)] \in Wallets /\ To[Move(u)] \in Wallets /\ From[Move(u)] # To[Move(u)]
  BY Zenon, <1>2, AccountsAssumption
<1> QED BY Zenon, <1>2, <1>3 DEF WalletsOf

\* An idle session has no operation.
LEMMA IdleOp ==
    ASSUME StoreInv, NEW u \in Sessions, Op(u) \in Ops
    PROVE  pc[u] # "idle"
BY DEF StoreInv, CallOK, Op, NoCall, Ops

\* The invariant of a session is kept by a step of another one that touches no
\* row it holds.
LEMMA OthersKept ==
    ASSUME StoreInv, NEW s \in Sessions, OwnStep(s),
           NEW u \in Sessions \ {s}, Untouched(u)
    PROVE  CallOK(u)' /\ HeldRows(u)'
<1>1. call'[u] = call[u] /\ pc'[u] = pc[u] /\ seen'[u] = seen[u]
  BY Zenon DEF OwnStep
<1>2. Op(u)' = Op(u) /\ Move(u)' = Move(u)
  BY Zenon, <1>1 DEF Op, Move
<1>3. CallOK(u)'
  BY ZenonT(40), <1>1, <1>2 DEF StoreInv, CallOK, Untouched
<1>4. \A w \in Wallets : walletLock'[w] = u => seen'[u][w] = balance'[w]
  <2> SUFFICES ASSUME NEW w \in Wallets, walletLock'[w] = u
               PROVE  seen'[u][w] = balance'[w]
    BY Zenon
  <2>1. walletLock[w] = u
    BY Zenon DEF OwnStep
  <2>2. seen[u][w] = balance[w]
    BY Zenon, <2>1 DEF StoreInv, HeldRows
  <2>3. balance'[w] = balance[w]
    BY Zenon, <2>1 DEF Untouched
  <2> QED BY Zenon, <1>1, <2>2, <2>3
<1>5. pc[u] \in {"again", "write"} /\ Op(u) # "cancel" =>
         \A w \in WalletsOf(Op(u), Move(u)) : walletLock'[w] = u
  <2> SUFFICES ASSUME pc[u] \in {"again", "write"}, Op(u) # "cancel",
                      NEW w \in WalletsOf(Op(u), Move(u))
               PROVE  walletLock'[w] = u
    BY Zenon
  <2>1. w \in Wallets
    BY Zenon, Busy
  <2>2. walletLock[w] = u
    BY Zenon DEF StoreInv, HeldRows
  <2> QED BY Zenon, <2>1, <2>2 DEF OwnStep
<1>6. Op(u) = "debit" /\ pc[u] = "write" =>
         Move(u) \notin debits' /\ seen[u][From[Move(u)]] >= Amount[Move(u)]
  BY Zenon DEF StoreInv, HeldRows, Untouched
<1>7. Op(u) = "compensate" /\ pc[u] \in {"recheck", "lock", "write"} =>
         debitLock'[Move(u)] = u /\ Move(u) \in debits'
  BY DEF StoreInv, CallOK, HeldRows, Untouched, OwnStep
<1>8. Op(u) = "compensate" /\ pc[u] \in {"lock", "write"} => Move(u) \notin refunds'
  BY Zenon DEF StoreInv, HeldRows, Untouched
<1>9. Op(u) \in {"confirm", "cancel"} /\ pc[u] \in {"lock", "write"} =>
         reservationLock'[Move(u)] = u /\ reservation'[Move(u)] = "RESERVED"
  BY DEF StoreInv, CallOK, HeldRows, Untouched, OwnStep
<1>10. HeldRows(u)'
  BY Zenon, <1>1, <1>2, <1>4, <1>5, <1>6, <1>7, <1>8, <1>9 DEF HeldRows
<1> QED BY Zenon, <1>3, <1>10

\* The parts of the invariant, for a step that starts no call.
LEMMA Assemble ==
    ASSUME StoreInv, NEW s \in Sessions, TypeOK', OwnStep(s),
           \A u \in Sessions \ {s} : Untouched(u),
           CallOK(s)', HeldRows(s)', call'[s] \in {call[s], NoCall}
    PROVE  StoreInv'
<1>1. \A u \in Sessions : CallOK(u)' /\ HeldRows(u)'
  BY Zenon, OthersKept
<1>2. \A u \in Sessions : call'[u] \in {call[u], NoCall}
  BY Zenon DEF OwnStep
<1>3. \A r, u \in Sessions :
         call'[r][1] = "transfer" /\ call'[u] = call'[r] => u = r
  <2> SUFFICES ASSUME NEW r \in Sessions, NEW u \in Sessions,
                      call'[r][1] = "transfer", call'[u] = call'[r]
               PROVE  u = r
    OBVIOUS
  <2>1. call'[r] # NoCall /\ call'[u] # NoCall
    BY DEF NoCall
  <2>2. call'[r] = call[r] /\ call'[u] = call[u]
    BY Zenon, <1>2, <2>1
  <2> QED BY Zenon, <2>2 DEF StoreInv, Op
<1> QED BY Zenon, <1>1, <1>3 DEF StoreInv, Op

\* A step that ends the transaction and touches no row of another session keeps
\* the invariant.
LEMMA AssembleReturn ==
    ASSUME StoreInv, NEW s \in Sessions, TypeOK', Return(s),
           \A u \in Sessions \ {s} : Untouched(u)
    PROVE  StoreInv'
<1>1. OwnStep(s) /\ call'[s] = NoCall /\ pc'[s] = "idle"
  BY Zenon, Returned
<1>2. CallOK(s)'
  BY Zenon, <1>1 DEF CallOK, Op, NoCall
<1>3. HeldRows(s)'
  BY Zenon, <1>1, Returned DEF HeldRows, Op, NoCall
<1> QED BY Zenon, <1>1, <1>2, <1>3, Assemble

\* A step that leaves the tables alone touches no row.
LEMMA NothingTouched ==
    ASSUME UNCHANGED tables, NEW u \in Sessions
    PROVE  Untouched(u)
BY Zenon DEF tables, Untouched

\* A transaction that ends without a write keeps the invariant.
LEMMA ReturnOnly ==
    ASSUME StoreInv, NEW s \in Sessions, Return(s), UNCHANGED tables
    PROVE  StoreInv'
<1>1. TypeOK'
  BY Zenon, ReturnTyped DEF StoreInv, TypeOK, tables
<1> QED BY Zenon, <1>1, NothingTouched, AssembleReturn

-----------------------------------------------------------------------------
(* The statements that write nothing.                                      *)

\* The labels of the statements.
Labels == {"idle", "find", "lock", "again", "debitrow", "recheck", "write"}

\* Going on to another statement, with the same locks, is a step of its own.
LEMMA GotoKept ==
    ASSUME StoreInv, NEW s \in Sessions, NEW l \in Labels, Goto(s, l),
           UNCHANGED tables, UNCHANGED locks
    PROVE  TypeOK' /\ OwnStep(s) /\ pc'[s] = l /\ Op(s)' = Op(s) /\ Move(s)' = Move(s)
<1>1. pc' \in [Sessions -> Labels] /\ pc'[s] = l
  BY Zenon DEF StoreInv, TypeOK, Goto, Labels
<1>2. TypeOK'
  BY Zenon, <1>1 DEF StoreInv, TypeOK, Goto, tables, locks, Labels
<1> QED BY Zenon, <1>1, <1>2 DEF StoreInv, TypeOK, Goto, locks, OwnStep, Op, Move

\* Such a step keeps the invariant if what it has found out holds.
LEMMA GotoOnly ==
    ASSUME StoreInv, NEW s \in Sessions, NEW l \in Labels, Goto(s, l),
           UNCHANGED tables, UNCHANGED locks, CallOK(s)', HeldRows(s)'
    PROVE  StoreInv'
<1>1. call'[s] = call[s]
  BY Zenon DEF Goto
<1> QED BY Zenon, <1>1, GotoKept, NothingTouched, Assemble

\* getSagaWalletOperation, before the wallet is locked.
LEMMA FindDebitStep ==
    ASSUME StoreInv, NEW s \in Sessions, FindDebit(s)
    PROVE  StoreInv'
<1>1. CASE Return(s)
  BY Zenon, <1>1, ReturnOnly DEF FindDebit
<1>2. CASE Goto(s, "lock") /\ UNCHANGED locks
  <2>1. "lock" \in Labels /\ UNCHANGED tables /\ pc[s] = "find" /\ Op(s) = "debit"
    BY Zenon DEF Labels, FindDebit
  <2>2. pc'[s] = "lock" /\ Op(s)' = "debit" /\ Move(s)' = Move(s)
    BY Zenon, <1>2, <2>1, GotoKept
  <2>3. CallOK(s)'
    BY Zenon, <1>2, <2>1, <2>2 DEF StoreInv, CallOK, Goto, tables
  <2>4. HeldRows(s)'
    <3>1. HeldRows(s) BY Zenon DEF StoreInv
    <3> QED BY Zenon, <1>2, <2>1, <2>2, <3>1 DEF HeldRows, Goto, tables, locks
  <2> QED BY Zenon, <1>2, <2>1, <2>3, <2>4, GotoOnly
<1> QED BY Zenon, <1>1, <1>2 DEF FindDebit

\* The second look at the debit, with the wallet locked, and Wallet.Debit.
LEMMA FindDebitAgainStep ==
    ASSUME StoreInv, NEW s \in Sessions, FindDebitAgain(s)
    PROVE  StoreInv'
<1>1. CASE Return(s)
  BY Zenon, <1>1, ReturnOnly DEF FindDebitAgain
<1>2. CASE /\ Move(s) \notin debits
           /\ seen[s][From[Move(s)]] >= Amount[Move(s)]
           /\ Goto(s, "write")
           /\ UNCHANGED locks
  <2>1. "write" \in Labels /\ UNCHANGED tables /\ pc[s] = "again" /\ Op(s) = "debit"
    BY Zenon DEF Labels, FindDebitAgain, StoreInv, CallOK
  <2>2. pc'[s] = "write" /\ Op(s)' = "debit" /\ Move(s)' = Move(s)
    BY Zenon, <1>2, <2>1, GotoKept
  <2>3. CallOK(s)'
    BY Zenon, <1>2, <2>1, <2>2 DEF StoreInv, CallOK, Goto, tables
  <2>4. HeldRows(s)'
    <3>1. HeldRows(s) BY Zenon DEF StoreInv
    <3> QED BY Zenon, <1>2, <2>1, <2>2, <3>1 DEF HeldRows, Goto, tables, locks
  <2> QED BY Zenon, <1>2, <2>1, <2>3, <2>4, GotoOnly
<1> QED BY Zenon, <1>1, <1>2 DEF FindDebitAgain, CanDebit

\* The first look at the compensation.
LEMMA FindCompensationStep ==
    ASSUME StoreInv, NEW s \in Sessions, FindCompensation(s)
    PROVE  StoreInv'
<1>1. CASE Return(s)
  BY Zenon, <1>1, ReturnOnly DEF FindCompensation
<1>2. CASE Goto(s, "debitrow") /\ UNCHANGED locks
  <2>1. "debitrow" \in Labels /\ UNCHANGED tables /\ pc[s] = "find" /\ Op(s) = "compensate"
    BY Zenon DEF Labels, FindCompensation
  <2>2. pc'[s] = "debitrow" /\ Op(s)' = "compensate" /\ Move(s)' = Move(s)
    BY Zenon, <1>2, <2>1, GotoKept
  <2>3. CallOK(s)'
    BY Zenon, <1>2, <2>1, <2>2 DEF StoreInv, CallOK, Goto, tables
  <2>4. HeldRows(s)'
    <3>1. HeldRows(s) BY Zenon DEF StoreInv
    <3> QED BY Zenon, <1>2, <2>1, <2>2, <3>1 DEF HeldRows, Goto, tables, locks
  <2> QED BY Zenon, <1>2, <2>1, <2>3, <2>4, GotoOnly
<1> QED BY Zenon, <1>1, <1>2 DEF FindCompensation

\* The second look at the compensation, with the debit row locked.
LEMMA FindCompensationAgainStep ==
    ASSUME StoreInv, NEW s \in Sessions, FindCompensationAgain(s)
    PROVE  StoreInv'
<1>1. CASE Return(s)
  BY Zenon, <1>1, ReturnOnly DEF FindCompensationAgain
<1>2. CASE Move(s) \notin refunds /\ Goto(s, "lock") /\ UNCHANGED locks
  <2>1. /\ "lock" \in Labels /\ UNCHANGED tables
        /\ pc[s] = "recheck" /\ Op(s) = "compensate"
    BY Zenon DEF Labels, FindCompensationAgain, StoreInv, CallOK
  <2>2. pc'[s] = "lock" /\ Op(s)' = "compensate" /\ Move(s)' = Move(s)
    BY Zenon, <1>2, <2>1, GotoKept
  <2>3. CallOK(s)'
    BY Zenon, <1>2, <2>1, <2>2 DEF StoreInv, CallOK, Goto, tables
  <2>4. HeldRows(s)'
    <3>1. HeldRows(s) BY Zenon DEF StoreInv
    <3> QED BY Zenon, <1>2, <2>1, <2>2, <3>1 DEF HeldRows, Goto, tables, locks
  <2> QED BY Zenon, <1>2, <2>1, <2>3, <2>4, GotoOnly
<1> QED BY Zenon, <1>1, <1>2 DEF FindCompensationAgain

\* The first look at the reservation and at the entries of a transfer.
LEMMA FindRowsStep ==
    ASSUME StoreInv, NEW s \in Sessions, FindReservation(s) \/ FindEntries(s)
    PROVE  StoreInv'
<1>1. CASE Return(s)
  BY Zenon, <1>1, ReturnOnly DEF FindReservation, FindEntries
<1>2. CASE Goto(s, "lock") /\ UNCHANGED locks
  <2>1. /\ "lock" \in Labels /\ UNCHANGED tables
        /\ pc[s] = "find" /\ Op(s) \in {"reserve", "append"}
    BY Zenon DEF Labels, FindReservation, FindEntries
  <2>2. pc'[s] = "lock" /\ Op(s)' = Op(s) /\ Move(s)' = Move(s)
    BY Zenon, <1>2, <2>1, GotoKept
  <2>3. CallOK(s)'
    BY ZenonT(40), <1>2, <2>1, <2>2 DEF StoreInv, CallOK, Goto, tables
  <2>4. HeldRows(s)'
    <3>1. HeldRows(s) BY Zenon DEF StoreInv
    <3> QED BY Zenon, <1>2, <2>1, <2>2, <3>1 DEF HeldRows, Goto, tables, locks
  <2> QED BY Zenon, <1>2, <2>1, <2>3, <2>4, GotoOnly
<1> QED BY Zenon, <1>1, <1>2 DEF FindReservation, FindEntries

-----------------------------------------------------------------------------
(* The statements that lock a row.                                         *)

\* lockWallet and lockWallets: the balance is read as the row is locked.
LEMMA LockWalletStep ==
    ASSUME StoreInv, NEW s \in Sessions, LockWallet(s)
    PROVE  StoreInv'
<1> DEFINE w == First(s)
           l == IF Unlocked(s) # {w} THEN "lock"
                ELSE IF Op(s) = "debit" THEN "again" ELSE "write"
<1>1. /\ pc[s] = "lock" /\ walletLock[w] = Free
      /\ walletLock' = [walletLock EXCEPT ![w] = s]
      /\ seen' = [seen EXCEPT ![s][w] = balance[w]]
      /\ pc' = [pc EXCEPT ![s] = l]
      /\ UNCHANGED <<tables, call, debitLock, reservationLock>>
  BY Zenon DEF LockWallet
<1> HIDE DEF w
<1>2. l \in {"lock", "again", "write"} /\ pc' \in [Sessions -> Labels] /\ pc'[s] = l
  BY Zenon, <1>1 DEF StoreInv, TypeOK, Labels
<1>3. walletLock' \in [Wallets -> Sessions \cup {Free}]
  BY Zenon, <1>1 DEF StoreInv, TypeOK
<1>4. seen' \in [Sessions -> [Wallets -> Nat]]
  BY ZenonT(60), <1>1 DEF StoreInv, TypeOK
<1>5. TypeOK'
  BY Zenon, <1>1, <1>2, <1>3, <1>4 DEF StoreInv, TypeOK, tables, Labels
<1>6. OwnStep(s)
  BY <1>1, StoreAssumption DEF StoreInv, TypeOK, OwnStep
<1>7. Op(s)' = Op(s) /\ Move(s)' = Move(s) /\ call'[s] = call[s]
  BY Zenon, <1>1 DEF Op, Move
<1>8. CallOK(s)'
  BY ZenonT(40), <1>1, <1>2, <1>7 DEF StoreInv, CallOK, tables
<1>9. HeldRows(s)'
  <2>1. \A v \in Wallets : walletLock'[v] = s => seen'[s][v] = balance'[v]
    <3> SUFFICES ASSUME NEW v \in Wallets, walletLock'[v] = s
                 PROVE  seen'[s][v] = balance'[v]
      BY Zenon
    <3>1. /\ walletLock \in [Wallets -> Sessions \cup {Free}]
          /\ seen \in [Sessions -> [Wallets -> Nat]] /\ balance' = balance
      BY Zenon, <1>1 DEF StoreInv, TypeOK, tables
    <3>2. CASE v = w
      BY Zenon, <1>1, <3>1, <3>2
    <3>3. CASE v # w
      <4>1. walletLock[v] = s
        BY Zenon, <1>1, <3>1, <3>3
      <4>2. seen[s][v] = balance[v]
        BY Zenon, <4>1 DEF StoreInv, HeldRows
      <4>3. seen'[s][v] = seen[s][v]
        BY Zenon, <1>1, <3>1, <3>3
      <4> QED BY Zenon, <3>1, <4>2, <4>3
    <3> QED BY Zenon, <3>2, <3>3
  <2>2. l \in {"again", "write"} =>
           \A v \in WalletsOf(Op(s), Move(s)) : walletLock'[v] = s
    <3> SUFFICES ASSUME Unlocked(s) = {w}, NEW v \in WalletsOf(Op(s), Move(s))
                 PROVE  walletLock'[v] = s
      OBVIOUS
    <3>1. v \in Wallets
      BY Zenon, <1>1, Busy
    <3> QED BY Zenon, <1>1, <3>1 DEF Unlocked, StoreInv, TypeOK
  <2>3. Op(s) = "debit" => l # "write"
    BY Zenon
  <2>4. /\ Op(s) = "compensate" => /\ debitLock[Move(s)] = s
                                   /\ Move(s) \in debits /\ Move(s) \notin refunds
        /\ Op(s) \in {"confirm", "cancel"} =>
              reservationLock[Move(s)] = s /\ reservation[Move(s)] = "RESERVED"
    BY Zenon, <1>1 DEF StoreInv, HeldRows
  <2> QED BY Zenon, <1>1, <1>2, <1>7, <2>1, <2>2, <2>3, <2>4 DEF HeldRows, tables
<1> QED BY Zenon, <1>1, <1>5, <1>6, <1>7, <1>8, <1>9, NothingTouched, Assemble

\* CompensateDebit locks the debit row before it looks again.
LEMMA LockDebitRowStep ==
    ASSUME StoreInv, NEW s \in Sessions, LockDebitRow(s)
    PROVE  StoreInv'
<1>1. CASE Return(s)
  BY Zenon, <1>1, ReturnOnly DEF LockDebitRow
<1>2. CASE /\ Move(s) \in debits
           /\ debitLock[Move(s)] = Free
           /\ debitLock' = [debitLock EXCEPT ![Move(s)] = s]
           /\ Goto(s, "recheck")
           /\ UNCHANGED <<walletLock, reservationLock>>
  <2>1. /\ UNCHANGED tables /\ pc[s] = "debitrow" /\ Op(s) = "compensate"
        /\ Move(s) \in Payments
    BY Zenon DEF LockDebitRow, StoreInv, CallOK
  <2>2. pc' \in [Sessions -> Labels] /\ pc'[s] = "recheck"
    BY Zenon, <1>2 DEF StoreInv, TypeOK, Goto, Labels
  <2>3. debitLock' \in [Payments -> Sessions \cup {Free}] /\ debitLock'[Move(s)] = s
    BY Zenon, <1>2, <2>1 DEF StoreInv, TypeOK
  <2>4. TypeOK'
    BY Zenon, <1>2, <2>1, <2>2, <2>3 DEF StoreInv, TypeOK, Goto, tables, Labels
  <2>5. OwnStep(s)
    BY Zenon, <1>2, StoreAssumption DEF StoreInv, TypeOK, Goto, OwnStep
  <2>6. Op(s)' = Op(s) /\ Move(s)' = Move(s) /\ call'[s] = call[s]
    BY Zenon, <1>2 DEF Op, Move, Goto
  <2>7. CallOK(s)'
    BY Zenon, <1>2, <2>1, <2>2, <2>6 DEF StoreInv, CallOK, Goto, tables
  <2>8. HeldRows(s)'
    <3>1. HeldRows(s) BY Zenon DEF StoreInv
    <3> QED BY Zenon, <1>2, <2>1, <2>2, <2>3, <2>6, <3>1 DEF HeldRows, Goto, tables
  <2> QED BY Zenon, <2>1, <2>4, <2>5, <2>6, <2>7, <2>8, NothingTouched, Assemble
<1> QED BY Zenon, <1>1, <1>2 DEF LockDebitRow, DebitRowFree

\* ConfirmTransfer and CancelReservation lock the reservation row as they read it.
LEMMA LockReservationStep ==
    ASSUME StoreInv, NEW s \in Sessions, LockReservation(s)
    PROVE  StoreInv'
<1> DEFINE l == IF Op(s) = "confirm" THEN "lock" ELSE "write"
<1>1. CASE Return(s)
  BY Zenon, <1>1, ReturnOnly DEF LockReservation
<1>2. CASE /\ reservation[Move(s)] = "RESERVED"
           /\ reservationLock' = [reservationLock EXCEPT ![Move(s)] = s]
           /\ Goto(s, l)
           /\ UNCHANGED <<walletLock, debitLock>>
  <2>1. /\ UNCHANGED tables /\ pc[s] = "find" /\ Op(s) \in {"confirm", "cancel"}
        /\ Move(s) \in Payments /\ reservationLock[Move(s)] = Free
    BY Zenon DEF LockReservation, StoreInv, CallOK
  <2>2. pc' \in [Sessions -> Labels] /\ pc'[s] = l
    BY Zenon, <1>2 DEF StoreInv, TypeOK, Goto, Labels
  <2>3. reservationLock' \in [Payments -> Sessions \cup {Free}] /\ reservationLock'[Move(s)] = s
    BY Zenon, <1>2, <2>1 DEF StoreInv, TypeOK
  <2>4. TypeOK'
    BY Zenon, <1>2, <2>1, <2>2, <2>3 DEF StoreInv, TypeOK, Goto, tables, Labels
  <2>5. OwnStep(s)
    BY ZenonT(40), <1>2, <2>1, StoreAssumption DEF StoreInv, TypeOK, Goto, OwnStep
  <2>6. Op(s)' = Op(s) /\ Move(s)' = Move(s) /\ call'[s] = call[s]
    BY Zenon, <1>2 DEF Op, Move, Goto
  <2>7. CallOK(s)'
    BY Zenon, <1>2, <2>1, <2>2, <2>6 DEF StoreInv, CallOK, Goto, tables
  <2>8. HeldRows(s)'
    <3>1. HeldRows(s) BY Zenon DEF StoreInv
    <3> QED BY Zenon, <1>2, <2>1, <2>2, <2>3, <2>6, <3>1 DEF HeldRows, Goto, tables
  <2> QED BY Zenon, <2>1, <2>4, <2>5, <2>6, <2>7, <2>8, NothingTouched, Assemble
<1> QED BY Zenon, <1>1, <1>2 DEF LockReservation

-----------------------------------------------------------------------------
(* The statements that write, and commit.                                  *)

\* A session about to write holds its wallets and computes with their balances.
LEMMA WritesCurrent ==
    ASSUME StoreInv, NEW s \in Sessions, pc[s] = "write", Op(s) # "cancel"
    PROVE  /\ Move(s) \in Moves /\ From[Move(s)] \in Wallets
           /\ walletLock[From[Move(s)]] = s
           /\ seen[s][From[Move(s)]] = balance[From[Move(s)]]
           /\ balance[From[Move(s)]] \in Nat
           /\ Amount[Move(s)] \in Nat
<1>1. /\ Move(s) \in Moves /\ From[Move(s)] \in Wallets
      /\ From[Move(s)] \in WalletsOf(Op(s), Move(s))
  BY Zenon, Busy
<1>2. walletLock[From[Move(s)]] = s
  BY Zenon, <1>1 DEF StoreInv, HeldRows
<1> QED BY ZenonT(60), <1>1, <1>2, AccountsAssumption DEF StoreInv, HeldRows, TypeOK

\* ... and both wallets, for a transfer or its entries.
LEMMA WritesBoth ==
    ASSUME StoreInv, NEW s \in Sessions, pc[s] = "write",
           Op(s) \in {"confirm", "transfer", "append"}
    PROVE  /\ To[Move(s)] \in Wallets /\ From[Move(s)] # To[Move(s)]
           /\ walletLock[To[Move(s)]] = s
           /\ seen[s][To[Move(s)]] = balance[To[Move(s)]]
           /\ balance[To[Move(s)]] \in Nat
<1>1. To[Move(s)] \in Wallets /\ From[Move(s)] # To[Move(s)]
  BY Zenon, Busy
<1>2. To[Move(s)] \in WalletsOf(Op(s), Move(s))
  BY Zenon DEF WalletsOf
<1>3. walletLock[To[Move(s)]] = s
  BY Zenon, <1>2 DEF StoreInv, HeldRows
<1> QED BY ZenonT(40), <1>1, <1>3 DEF StoreInv, HeldRows, TypeOK

\* The debit: no other session holds the wallet, so none is about to write the
\* same debit.
LEMMA WriteDebitStep ==
    ASSUME StoreInv, NEW s \in Sessions, WriteDebit(s)
    PROVE  StoreInv' /\ Debit(Move(s)) /\ Move(s) \in Payments
<1> DEFINE p == Move(s)
<1>1. pc[s] = "write" /\ Op(s) = "debit" /\ p \in Payments /\ Return(s)
  BY Zenon DEF WriteDebit, StoreInv, CallOK
<1>2. p \notin debits /\ seen[s][From[p]] >= Amount[p]
  BY Zenon, <1>1 DEF StoreInv, HeldRows
<1>3. /\ From[p] \in Wallets /\ walletLock[From[p]] = s
      /\ seen[s][From[p]] = balance[From[p]]
      /\ balance[From[p]] \in Nat /\ Amount[p] \in Nat
  BY Zenon, <1>1, WritesCurrent
<1>4. Debit(p)
  BY Zenon, <1>1, <1>2, <1>3 DEF WriteDebit, Debit
<1>5. balance' \in [Wallets -> Nat] /\ debits' \subseteq Payments
  <2>1. seen[s][From[p]] - Amount[p] \in Nat
    BY <1>2, <1>3
  <2>2. /\ balance' = [balance EXCEPT ![From[p]] = seen[s][From[p]] - Amount[p]]
        /\ debits' = debits \cup {p}
        /\ balance \in [Wallets -> Nat] /\ debits \subseteq Payments
    BY Zenon DEF WriteDebit, StoreInv, TypeOK
  <2> HIDE DEF p
  <2> QED BY Zenon, <1>1, <1>3, <2>1, <2>2
<1>6. TypeOK'
  <2>1. TypeOK BY Zenon DEF StoreInv
  <2>2. UNCHANGED <<refunds, reservation, transfers, entries>> BY Zenon DEF WriteDebit
  <2> QED BY Zenon, <1>1, <1>5, <2>1, <2>2, ReturnTyped DEF TypeOK
<1>7. ASSUME NEW u \in Sessions \ {s} PROVE Untouched(u)
  <2>1. \A w \in Wallets : walletLock[w] = u => balance'[w] = balance[w]
    <3>1. balance' = [balance EXCEPT ![From[p]] = seen[s][From[p]] - Amount[p]]
      BY Zenon DEF WriteDebit
    <3>2. balance \in [Wallets -> Nat] BY Zenon DEF StoreInv, TypeOK
    <3> HIDE DEF p
    <3> QED BY Zenon, <1>3, <3>1, <3>2
  <2>2. Op(u) = "debit" /\ pc[u] = "write" => Move(u) # p
    BY Zenon, <1>3, WritesCurrent
  <2>3. debits' = debits \cup {p} /\ UNCHANGED <<refunds, reservation, transfers>>
    BY Zenon DEF WriteDebit
  <2> HIDE DEF p
  <2> QED BY Zenon, <1>1, <2>1, <2>2, <2>3 DEF Untouched
<1> QED BY Zenon, <1>1, <1>4, <1>6, <1>7, AssembleReturn

\* The compensation: no other session holds the debit row.
LEMMA WriteCompensationStep ==
    ASSUME StoreInv, NEW s \in Sessions, WriteCompensation(s)
    PROVE  StoreInv' /\ Refund(Move(s)) /\ Move(s) \in Payments
<1> DEFINE p == Move(s)
<1>1. pc[s] = "write" /\ Op(s) = "compensate" /\ p \in Payments /\ Return(s)
  BY Zenon DEF WriteCompensation, StoreInv, CallOK
<1>2. p \in debits \ refunds /\ debitLock[p] = s
  BY Zenon, <1>1 DEF StoreInv, HeldRows
<1>3. /\ From[p] \in Wallets /\ walletLock[From[p]] = s
      /\ seen[s][From[p]] = balance[From[p]]
      /\ balance[From[p]] \in Nat /\ Amount[p] \in Nat
  BY Zenon, <1>1, WritesCurrent
<1>4. Refund(p)
  BY Zenon, <1>1, <1>2, <1>3 DEF WriteCompensation, Refund
<1>5. balance' \in [Wallets -> Nat] /\ refunds' \subseteq Payments
  <2>1. seen[s][From[p]] + Amount[p] \in Nat
    BY <1>3
  <2>2. /\ balance' = [balance EXCEPT ![From[p]] = seen[s][From[p]] + Amount[p]]
        /\ refunds' = refunds \cup {p}
        /\ balance \in [Wallets -> Nat] /\ refunds \subseteq Payments
    BY Zenon DEF WriteCompensation, StoreInv, TypeOK
  <2> HIDE DEF p
  <2> QED BY Zenon, <1>1, <1>3, <2>1, <2>2
<1>6. TypeOK'
  <2>1. TypeOK BY Zenon DEF StoreInv
  <2>2. UNCHANGED <<debits, reservation, transfers, entries>> BY Zenon DEF WriteCompensation
  <2> QED BY Zenon, <1>1, <1>5, <2>1, <2>2, ReturnTyped DEF TypeOK
<1>7. ASSUME NEW u \in Sessions \ {s} PROVE Untouched(u)
  <2>1. \A w \in Wallets : walletLock[w] = u => balance'[w] = balance[w]
    <3>1. balance' = [balance EXCEPT ![From[p]] = seen[s][From[p]] + Amount[p]]
      BY Zenon DEF WriteCompensation
    <3>2. balance \in [Wallets -> Nat] BY Zenon DEF StoreInv, TypeOK
    <3> HIDE DEF p
    <3> QED BY Zenon, <1>3, <3>1, <3>2
  <2>2. Op(u) = "compensate" /\ pc[u] \in {"lock", "write"} => Move(u) # p
    BY Zenon, <1>2 DEF StoreInv, HeldRows
  <2>3. refunds' = refunds \cup {p} /\ UNCHANGED <<debits, reservation, transfers>>
    BY Zenon DEF WriteCompensation
  <2> HIDE DEF p
  <2> QED BY Zenon, <1>1, <2>1, <2>2, <2>3 DEF Untouched
<1> QED BY Zenon, <1>1, <1>4, <1>6, <1>7, AssembleReturn

\* The INSERT of a reservation.
LEMMA InsertReservationStep ==
    ASSUME StoreInv, NEW s \in Sessions, InsertReservation(s)
    PROVE  StoreInv' /\ Move(s) \in Payments /\ (Reserve(Move(s)) \/ UNCHANGED tables)
<1> DEFINE p == Move(s)
<1>1. pc[s] = "write" /\ Op(s) = "reserve" /\ p \in Payments /\ Return(s)
  BY Zenon DEF InsertReservation, StoreInv, CallOK
<1>2. CASE UNCHANGED tables
  BY Zenon, <1>1, <1>2, ReturnOnly
<1>3. CASE /\ reservation[p] = "none"
           /\ reservation' = [reservation EXCEPT ![p] = "RESERVED"]
           /\ UNCHANGED <<balance, debits, refunds, transfers, entries>>
  <2>1. Reserve(p)
    BY Zenon, <1>3 DEF Reserve
  <2>2. reservation' \in [Payments -> {"none", "RESERVED", "CONFIRMED", "CANCELED"}]
    BY Zenon, <1>1, <1>3 DEF StoreInv, TypeOK
  <2>3. TypeOK'
    BY Zenon, <1>1, <1>3, <2>2, ReturnTyped DEF StoreInv, TypeOK
  <2>4. ASSUME NEW u \in Sessions \ {s} PROVE Untouched(u)
    <3>1. Op(u) \in {"confirm", "cancel"} /\ pc[u] \in {"lock", "write"} => Move(u) # p
      BY Zenon, <1>3 DEF StoreInv, HeldRows
    <3>2. Op(u) \in {"confirm", "cancel"} /\ pc[u] \in {"lock", "write"} =>
             reservation'[Move(u)] = reservation[Move(u)]
      <4> SUFFICES ASSUME Op(u) \in {"confirm", "cancel"}, pc[u] \in {"lock", "write"}
                   PROVE  reservation'[Move(u)] = reservation[Move(u)]
        BY Zenon
      <4>1. Move(u) \in Payments /\ Move(u) # p
        BY Zenon, <3>1 DEF StoreInv, CallOK
      <4>2. reservation \in [Payments -> {"none", "RESERVED", "CONFIRMED", "CANCELED"}]
        BY Zenon DEF StoreInv, TypeOK
      <4> HIDE DEF p
      <4> QED BY Zenon, <1>3, <4>1, <4>2
    <3> QED BY Zenon, <1>3, <3>2 DEF Untouched
  <2> QED BY Zenon, <1>1, <2>1, <2>3, <2>4, AssembleReturn
<1> QED BY Zenon, <1>1, <1>2, <1>3 DEF InsertReservation

\* The entries written have the balances of the rows.
LEMMA PairIsCurrent ==
    ASSUME StoreInv, NEW s \in Sessions, pc[s] = "write", Op(s) \in {"confirm", "append"}
    PROVE  /\ Pair(Move(s), seen[s]) = Pair(Move(s), balance)
           /\ Pair(Move(s), balance) \subseteq
                 [move : Moves, direction : {"debit", "credit"}, after : Nat]
<1>1. /\ Move(s) \in Moves
      /\ seen[s][From[Move(s)]] = balance[From[Move(s)]]
      /\ balance[From[Move(s)]] \in Nat
  BY Zenon, WritesCurrent
<1>2. /\ seen[s][To[Move(s)]] = balance[To[Move(s)]]
      /\ balance[To[Move(s)]] \in Nat
  BY Zenon, WritesBoth
<1> QED BY SMTT(60), <1>1, <1>2 DEF Pair

\* The confirmation: no other session holds the reservation.
LEMMA WriteConfirmationStep ==
    ASSUME StoreInv, NEW s \in Sessions, WriteConfirmation(s)
    PROVE  StoreInv' /\ Confirm(Move(s)) /\ Move(s) \in Payments
<1> DEFINE p == Move(s)
<1>1. /\ pc[s] = "write" /\ Op(s) = "confirm" /\ p \in Payments /\ Return(s)
      /\ reservation' = [reservation EXCEPT ![p] = "CONFIRMED"]
      /\ transfers' = transfers \cup {p}
      /\ entries' = entries \cup Pair(p, seen[s])
      /\ UNCHANGED <<balance, debits, refunds>>
  BY Zenon DEF WriteConfirmation, StoreInv, CallOK
<1>2. reservation[p] = "RESERVED" /\ reservationLock[p] = s
  BY Zenon, <1>1 DEF StoreInv, HeldRows
<1>3. entries' = entries \cup Pair(p, balance)
  BY Zenon, <1>1, PairIsCurrent
<1>4. Confirm(p)
  BY Zenon, <1>1, <1>2, <1>3 DEF Confirm
<1>5. /\ reservation' \in [Payments -> {"none", "RESERVED", "CONFIRMED", "CANCELED"}]
      /\ transfers' \subseteq Moves
  BY Zenon, <1>1 DEF StoreInv, TypeOK, Moves
<1>6. entries' \subseteq [move : Moves, direction : {"debit", "credit"}, after : Nat]
  BY Zenon, <1>1, <1>3, PairIsCurrent DEF StoreInv, TypeOK
<1>7. TypeOK'
  BY Zenon, <1>1, <1>5, <1>6, ReturnTyped DEF StoreInv, TypeOK
<1>8. ASSUME NEW u \in Sessions \ {s} PROVE Untouched(u)
  <2>1. Op(u) = "transfer" => Move(u) # p
    BY Zenon, <1>1, IdleOp, AccountsAssumption DEF StoreInv, CallOK, Ops
  <2>2. Op(u) \in {"confirm", "cancel"} /\ pc[u] \in {"lock", "write"} => Move(u) # p
    BY <1>2 DEF StoreInv, HeldRows
  <2>3. Op(u) \in {"confirm", "cancel"} /\ pc[u] \in {"lock", "write"} =>
           reservation'[Move(u)] = reservation[Move(u)]
    <3> SUFFICES ASSUME Op(u) \in {"confirm", "cancel"}, pc[u] \in {"lock", "write"}
                 PROVE  reservation'[Move(u)] = reservation[Move(u)]
      BY Zenon
    <3>1. Move(u) \in Payments /\ Move(u) # p
      BY Zenon, <2>2 DEF StoreInv, CallOK
    <3>2. reservation \in [Payments -> {"none", "RESERVED", "CONFIRMED", "CANCELED"}]
      BY Zenon DEF StoreInv, TypeOK
    <3> HIDE DEF p
    <3> QED BY Zenon, <1>1, <3>1, <3>2
  <2>4. /\ balance' = balance /\ debits' = debits /\ refunds' = refunds
        /\ transfers' = transfers \cup {p}
    BY Zenon, <1>1
  <2> HIDE DEF p
  <2> QED BY Zenon, <2>1, <2>3, <2>4 DEF Untouched
<1> QED BY Zenon, <1>1, <1>4, <1>7, <1>8, AssembleReturn

\* The cancellation, likewise.
LEMMA WriteCancelStep ==
    ASSUME StoreInv, NEW s \in Sessions, WriteCancel(s)
    PROVE  StoreInv' /\ Cancel(Move(s)) /\ Move(s) \in Payments
<1> DEFINE p == Move(s)
<1>1. /\ pc[s] = "write" /\ Op(s) = "cancel" /\ p \in Payments /\ Return(s)
      /\ reservation' = [reservation EXCEPT ![p] = "CANCELED"]
      /\ UNCHANGED <<balance, debits, refunds, transfers, entries>>
  BY Zenon DEF WriteCancel, StoreInv, CallOK
<1>2. reservation[p] = "RESERVED" /\ reservationLock[p] = s
  BY Zenon, <1>1 DEF StoreInv, HeldRows
<1>3. Cancel(p)
  BY Zenon, <1>1, <1>2 DEF Cancel
<1>4. reservation' \in [Payments -> {"none", "RESERVED", "CONFIRMED", "CANCELED"}]
  BY Zenon, <1>1 DEF StoreInv, TypeOK
<1>5. TypeOK'
  BY Zenon, <1>1, <1>4, ReturnTyped DEF StoreInv, TypeOK
<1>6. ASSUME NEW u \in Sessions \ {s} PROVE Untouched(u)
  <2>1. Op(u) \in {"confirm", "cancel"} /\ pc[u] \in {"lock", "write"} => Move(u) # p
    BY Zenon, <1>2 DEF StoreInv, HeldRows
  <2>2. Op(u) \in {"confirm", "cancel"} /\ pc[u] \in {"lock", "write"} =>
           reservation'[Move(u)] = reservation[Move(u)]
    <3> SUFFICES ASSUME Op(u) \in {"confirm", "cancel"}, pc[u] \in {"lock", "write"}
                 PROVE  reservation'[Move(u)] = reservation[Move(u)]
      BY Zenon
    <3>1. Move(u) \in Payments /\ Move(u) # p
      BY Zenon, <2>1 DEF StoreInv, CallOK
    <3>2. reservation \in [Payments -> {"none", "RESERVED", "CONFIRMED", "CANCELED"}]
      BY Zenon DEF StoreInv, TypeOK
    <3> HIDE DEF p
    <3> QED BY Zenon, <1>1, <3>1, <3>2
  <2> QED BY Zenon, <1>1, <2>2 DEF Untouched
<1> QED BY Zenon, <1>1, <1>3, <1>5, <1>6, AssembleReturn

\* The transfer: the session holds both wallets.
LEMMA WriteTransferStep ==
    ASSUME StoreInv, NEW s \in Sessions, WriteTransfer(s)
    PROVE  StoreInv' /\ Move(s) \in Transfers /\ (Transfer(Move(s)) \/ UNCHANGED tables)
<1> DEFINE t == Move(s)
<1>1. pc[s] = "write" /\ Op(s) = "transfer" /\ Return(s) /\ t \in Transfers \ transfers
  BY Zenon DEF WriteTransfer, StoreInv, CallOK
<1>2. CASE UNCHANGED tables
  BY Zenon, <1>1, <1>2, ReturnOnly
<1>3. CASE /\ seen[s][From[t]] >= Amount[t]
           /\ balance' = [balance EXCEPT ![From[t]] = seen[s][From[t]] - Amount[t],
                                         ![To[t]] = seen[s][To[t]] + Amount[t]]
           /\ transfers' = transfers \cup {t}
           /\ UNCHANGED <<debits, refunds, reservation, entries>>
  <2>1. /\ From[t] \in Wallets /\ walletLock[From[t]] = s
        /\ seen[s][From[t]] = balance[From[t]]
        /\ balance[From[t]] \in Nat /\ Amount[t] \in Nat
    BY Zenon, <1>1, WritesCurrent
  <2>2. /\ To[t] \in Wallets /\ From[t] # To[t] /\ walletLock[To[t]] = s
        /\ seen[s][To[t]] = balance[To[t]] /\ balance[To[t]] \in Nat
    BY Zenon, <1>1, WritesBoth
  <2>3. Transfer(t)
    BY Zenon, <1>1, <1>3, <2>1, <2>2 DEF Transfer, StoreInv, TypeOK
  <2>4. balance' \in [Wallets -> Nat] /\ transfers' \subseteq Moves
    <3>1. seen[s][From[t]] - Amount[t] \in Nat /\ seen[s][To[t]] + Amount[t] \in Nat
      BY SMTT(60), <1>3, <2>1, <2>2
    <3>2. balance' \in [Wallets -> Nat]
      BY Zenon, <1>3, <3>1 DEF StoreInv, TypeOK
    <3>3. transfers' \subseteq Moves
      BY Zenon, <1>1, <1>3 DEF StoreInv, TypeOK, Moves
    <3> QED BY Zenon, <3>2, <3>3
  <2>5. TypeOK'
    BY Zenon, <1>1, <1>3, <2>4, ReturnTyped DEF StoreInv, TypeOK
  <2>6. ASSUME NEW u \in Sessions \ {s} PROVE Untouched(u)
    <3>1. \A w \in Wallets : walletLock[w] = u => balance'[w] = balance[w]
      BY Zenon, <1>3, <2>1, <2>2 DEF StoreInv, TypeOK
    <3>2. Op(u) = "transfer" => Move(u) # t
      <4> SUFFICES ASSUME Op(u) = "transfer", Move(u) = t PROVE FALSE
        OBVIOUS
      <4>1. pc[u] # "idle"
        BY Zenon, IdleOp DEF Ops
      <4>2. call[u] = call[s]
        BY Zenon, <1>1, <4>1, Busy
      <4> QED BY Zenon, <1>1, <4>2 DEF StoreInv
    <3> QED BY Zenon, <1>3, <3>1, <3>2 DEF Untouched
  <2> QED BY Zenon, <1>1, <2>3, <2>5, <2>6, AssembleReturn
<1> QED BY Zenon, <1>1, <1>2, <1>3 DEF WriteTransfer, CanDebit

\* The entries of a transfer.
LEMMA WriteEntriesStep ==
    ASSUME StoreInv, NEW s \in Sessions, WriteEntries(s)
    PROVE  StoreInv' /\ Move(s) \in Transfers /\ (Post(Move(s)) \/ UNCHANGED tables)
<1> DEFINE t == Move(s)
<1>1. pc[s] = "write" /\ Op(s) = "append" /\ Return(s) /\ t \in Transfers \cap transfers
  BY Zenon DEF WriteEntries, StoreInv, CallOK
<1>2. CASE UNCHANGED tables
  BY Zenon, <1>1, <1>2, ReturnOnly
<1>3. CASE /\ ~InLedger(t)
           /\ entries' = entries \cup Pair(t, seen[s])
           /\ UNCHANGED <<balance, debits, refunds, reservation, transfers>>
  <2>1. entries' = entries \cup Pair(t, balance)
    BY Zenon, <1>1, <1>3, PairIsCurrent
  <2>2. Post(t)
    BY Zenon, <1>1, <1>3, <2>1 DEF Post
  <2>3. entries' \subseteq [move : Moves, direction : {"debit", "credit"}, after : Nat]
    BY Zenon, <1>1, <2>1, PairIsCurrent DEF StoreInv, TypeOK
  <2>4. TypeOK'
    BY Zenon, <1>1, <1>3, <2>3, ReturnTyped DEF StoreInv, TypeOK
  <2>5. ASSUME NEW u \in Sessions \ {s} PROVE Untouched(u)
    BY Zenon, <1>3 DEF Untouched
  <2> QED BY Zenon, <1>1, <2>2, <2>4, <2>5, AssembleReturn
<1> QED BY Zenon, <1>1, <1>2, <1>3 DEF WriteEntries

-----------------------------------------------------------------------------

\* A request is for a move of its kind; a transfer is requested once.
LEMMA RequestsOK ==
    ASSUME StoreInv, NEW c \in Requests
    PROVE  /\ c \in Ops \X Moves
           /\ c[1] \in {"transfer", "append"} => c[2] \in Transfers
           /\ c[1] \notin {"transfer", "append"} => c[2] \in Payments
           /\ c[1] = "append" => c[2] \in transfers
           /\ c[1] = "transfer" => c[2] \notin transfers /\ \A u \in Sessions : call[u] # c
<1>1. CASE c \in WalletRequests
  BY <1>1 DEF WalletRequests, Ops, Moves
<1>2. CASE c \in LedgerRequests
  BY <1>2 DEF LedgerRequests, Ops, Moves
<1>3. CASE c \in TransferRequests
  BY <1>3 DEF TransferRequests, Ops, Moves
<1>4. CASE c \in EntryRequests
  BY SMTT(60), <1>4 DEF EntryRequests, Ops, Moves
<1> QED BY Zenon, <1>1, <1>2, <1>3, <1>4 DEF Requests

\* A new call starts without locks.
LEMMA CallStep ==
    ASSUME StoreInv, NEW s \in Sessions, Call(s)
    PROVE  StoreInv'
<1>1. PICK c \in Requests :
         /\ call' = [call EXCEPT ![s] = c]
         /\ pc' = [pc EXCEPT ![s] = IF c[1] = "transfer" THEN "lock" ELSE "find"]
  BY Zenon DEF Call
<1>2. pc[s] = "idle" /\ UNCHANGED <<tables, seen, locks>>
  BY Zenon DEF Call
<1>3. /\ c \in Ops \X Moves
      /\ c[1] \in {"transfer", "append"} => c[2] \in Transfers
      /\ c[1] \notin {"transfer", "append"} => c[2] \in Payments
      /\ c[1] = "append" => c[2] \in transfers
      /\ c[1] = "transfer" => c[2] \notin transfers /\ \A u \in Sessions : call[u] # c
  BY Zenon, RequestsOK
<1>4. /\ call' \in [Sessions -> {NoCall} \cup (Ops \X Moves)]
      /\ pc' \in [Sessions -> Labels]
  BY Zenon, <1>1, <1>3 DEF StoreInv, TypeOK, Labels
<1>5. TypeOK'
  BY Zenon, <1>2, <1>4 DEF StoreInv, TypeOK, tables, locks, Labels
<1>6. /\ Op(s)' = c[1] /\ Move(s)' = c[2] /\ call'[s] = c
      /\ pc'[s] = IF c[1] = "transfer" THEN "lock" ELSE "find"
  BY Zenon, <1>1 DEF StoreInv, TypeOK, Op, Move
<1>7. OwnStep(s)
  BY Zenon, <1>1, <1>2 DEF StoreInv, TypeOK, OwnStep, locks
<1>8. \A u \in Sessions \ {s} : CallOK(u)' /\ HeldRows(u)'
  BY Zenon, <1>2, <1>7, NothingTouched, OthersKept
<1>9. CallOK(s)'
  <2>1. c # NoCall
    BY SMTT(60), <1>3 DEF NoCall, Ops
  <2> QED BY Zenon, <1>2, <1>3, <1>6, <2>1 DEF CallOK, tables
<1>10. HeldRows(s)'
  BY ZenonT(40), <1>2, <1>6 DEF StoreInv, HeldRows, tables, locks
<1>11. \A r, u \in Sessions : call'[r][1] = "transfer" /\ call'[u] = call'[r] => u = r
  <2> SUFFICES ASSUME NEW r \in Sessions, NEW u \in Sessions,
                      call'[r][1] = "transfer", call'[u] = call'[r], u # r
               PROVE  FALSE
    BY Zenon
  <2>1. CASE r = s
    <3>1. c[1] = "transfer" /\ call'[u] = c /\ u \in Sessions \ {s}
      BY Zenon, <1>6, <2>1
    <3>2. call[u] = c
      BY Zenon, <1>7, <3>1 DEF OwnStep
    <3> QED BY Zenon, <1>3, <3>1, <3>2
  <2>2. CASE u = s
    <3>1. c[1] = "transfer" /\ call'[r] = c /\ r \in Sessions \ {s}
      BY Zenon, <1>6, <2>2
    <3>2. call[r] = c
      BY Zenon, <1>7, <3>1 DEF OwnStep
    <3> QED BY Zenon, <1>3, <3>1, <3>2
  <2>3. CASE r # s /\ u # s
    <3>1. r \in Sessions \ {s} /\ u \in Sessions \ {s}
      BY Zenon, <2>3
    <3>2. call'[r] = call[r] /\ call'[u] = call[u]
      BY Zenon, <1>7, <3>1 DEF OwnStep
    <3>3. call[r][1] = "transfer" /\ call[u] = call[r]
      BY Zenon, <3>2
    <3> QED BY Zenon, <3>3 DEF StoreInv, Op
  <2> QED BY Zenon, <2>1, <2>2, <2>3
<1> QED BY Zenon, <1>5, <1>8, <1>9, <1>10, <1>11 DEF StoreInv, Op

\* Every statement keeps the invariant.
LEMMA StatementStep ==
    ASSUME StoreInv, NEW s \in Sessions, Statement(s)
    PROVE  StoreInv'
BY Zenon, LockWalletStep, FindDebitStep, FindDebitAgainStep, WriteDebitStep,
   FindCompensationStep, LockDebitRowStep, FindCompensationAgainStep,
   WriteCompensationStep, FindRowsStep, InsertReservationStep, LockReservationStep,
   WriteConfirmationStep, WriteCancelStep, WriteTransferStep, WriteEntriesStep
   DEF Statement

\* The invariant is inductive.
LEMMA NextStep ==
    ASSUME StoreInv, [Next]_vars
    PROVE  StoreInv'
<1>1. CASE Next
  <2>1. PICK s \in Sessions : Call(s) \/ Statement(s) \/ Abort(s) \/ DeadlockDetected(s)
    BY Zenon, <1>1 DEF Next
  <2>2. CASE Abort(s) \/ DeadlockDetected(s)
    BY Zenon, <2>2, ReturnOnly DEF Abort, DeadlockDetected
  <2> QED BY Zenon, <2>1, <2>2, CallStep, StatementStep
<1>2. CASE UNCHANGED vars
  <2>1. TypeOK'
    BY Zenon, <1>2 DEF vars, tables, locks, StoreInv, TypeOK
  <2>2. ASSUME NEW s \in Sessions PROVE CallOK(s)' /\ HeldRows(s)'
    <3>1. CallOK(s) /\ HeldRows(s)
      BY Zenon DEF StoreInv
    <3>2. Op(s)' = Op(s) /\ Move(s)' = Move(s)
      BY Zenon, <1>2 DEF vars, Op, Move
    <3>3. CallOK(s)'
      BY Zenon, <1>2, <3>1, <3>2 DEF vars, tables, CallOK
    <3>4. HeldRows(s)'
      BY Zenon, <1>2, <3>1, <3>2 DEF vars, tables, locks, HeldRows
    <3> QED BY Zenon, <3>3, <3>4
  <2> QED BY Zenon, <1>2, <2>1, <2>2 DEF vars, StoreInv, Op
<1> QED BY Zenon, <1>1, <1>2

\* For any number of sessions and any moves: a row that a session of
\* repo/wallets.go has read and will write is held by it.
THEOREM StoreInvariant == Spec => []StoreInv
BY InitStore, NextStep, PTL DEF Spec

\* The balances that DebitForSaga, CompensateDebit, ConfirmTransfer, CreateTransfer
\* and AppendTransferEntries compute with are those of the rows when they write.
THEOREM BalancesCurrent == Spec => []LockedBalanceCurrent
<1>1. StoreInv => LockedBalanceCurrent
  <2> SUFFICES ASSUME StoreInv, NEW s \in Sessions,
                      pc[s] \in {"again", "write"}, Op(s) # "cancel",
                      NEW w \in WalletsOf(Op(s), Move(s))
               PROVE  walletLock[w] = s /\ seen[s][w] = balance[w]
    BY Zenon DEF LockedBalanceCurrent
  <2>1. w \in Wallets
    BY Zenon, Busy
  <2> QED BY ZenonT(60), <2>1 DEF StoreInv, HeldRows
<1> QED BY <1>1, StoreInvariant, PTL

\* The branches of DebitForSaga and CompensateDebit for a unique violation are
\* never taken by two calls for one payment.
THEOREM OperationsFresh == Spec => []OperationIsFresh
<1>1. StoreInv => OperationIsFresh
  BY Zenon DEF StoreInv, HeldRows, OperationIsFresh
<1> QED BY <1>1, StoreInvariant, PTL

-----------------------------------------------------------------------------

\* Every step of a session is a step of Accounts, or leaves the tables alone.
LEMMA StepImplements ==
    ASSUME StoreInv, [Next]_vars
    PROVE  [AccountsNext]_tables
<1>1. CASE UNCHANGED vars
  BY Zenon, <1>1 DEF vars
<1>2. CASE Next
  <2>1. PICK s \in Sessions : Call(s) \/ Statement(s) \/ Abort(s) \/ DeadlockDetected(s)
    BY Zenon, <1>2 DEF Next
  <2>2. CASE Call(s) \/ Abort(s) \/ DeadlockDetected(s)
    BY Zenon, <2>2 DEF Call, Abort, DeadlockDetected
  <2>3. CASE \/ LockWallet(s) \/ FindDebit(s) \/ FindDebitAgain(s) \/ FindCompensation(s)
             \/ LockDebitRow(s) \/ FindCompensationAgain(s) \/ FindReservation(s)
             \/ LockReservation(s) \/ FindEntries(s)
    BY Zenon, <2>3 DEF LockWallet, FindDebit, FindDebitAgain, FindCompensation, LockDebitRow,
                FindCompensationAgain, FindReservation, LockReservation, FindEntries
  <2>4. CASE \/ WriteDebit(s) \/ WriteCompensation(s) \/ InsertReservation(s)
             \/ WriteConfirmation(s) \/ WriteCancel(s)
    BY Zenon, <2>4, WriteDebitStep, WriteCompensationStep, InsertReservationStep,
       WriteConfirmationStep, WriteCancelStep DEF AccountsNext
  <2>5. CASE WriteTransfer(s) \/ WriteEntries(s)
    BY Zenon, <2>5, WriteTransferStep, WriteEntriesStep DEF AccountsNext
  <2> QED BY Zenon, <2>1, <2>2, <2>3, <2>4, <2>5 DEF Statement
<1> QED BY Zenon, <1>1, <1>2

\* The transactions of the store take effect one at a time, for any number of
\* sessions, wallets and moves.
THEOREM StoreImplementsAccounts == Spec => ImplementsAccounts
<1>1. Init => AccountsInit
  BY Zenon DEF Init
<1> QED BY <1>1, StepImplements, StoreInvariant, PTL
        DEF Spec, ImplementsAccounts, AccountsSpec

-----------------------------------------------------------------------------
(* The order of the locks.                                                 *)

\* The wallets of a call are one or two, and the next one to lock is the first
\* of those that the session has not locked.
LEMMA FirstIsLeast ==
    ASSUME StoreInv, NEW u \in Sessions, pc[u] # "idle", Unlocked(u) # {}
    PROVE  /\ First(u) \in Unlocked(u) /\ First(u) \in Wallets /\ First(u) \in Nat
           /\ \A v \in Unlocked(u) : v \in Nat /\ First(u) <= v
<1>1. /\ From[Move(u)] \in Nat /\ To[Move(u)] \in Nat
      /\ Unlocked(u) \subseteq {From[Move(u)], To[Move(u)]}
      /\ Unlocked(u) \subseteq Wallets
  BY Zenon, Busy, AccountsAssumption DEF Unlocked, WalletsOf
<1>2. ASSUME NEW a \in Nat, NEW b \in Nat, NEW S, S \subseteq {a, b}, S # {}
      PROVE  \E w \in S : \A v \in S : w <= v
  <2>1. a <= b \/ b <= a
    OBVIOUS
  <2>2. a <= a /\ b <= b
    OBVIOUS
  <2>3. \A v \in S : v = a \/ v = b
    BY Zenon, <1>2
  <2>4. CASE a \in S /\ a <= b
    BY Zenon, <2>2, <2>3, <2>4
  <2>5. CASE b \in S /\ b <= a
    BY Zenon, <2>2, <2>3, <2>5
  <2>6. CASE a \notin S \/ b \notin S
    BY Zenon, <1>2, <2>2, <2>3, <2>6
  <2> QED BY Zenon, <2>1, <2>4, <2>5, <2>6
<1>3. \E w \in Unlocked(u) : \A v \in Unlocked(u) : w <= v
  BY Zenon, <1>1, <1>2
<1>4. First(u) \in Unlocked(u) /\ \A v \in Unlocked(u) : First(u) <= v
  BY Zenon, <1>3 DEF First
<1> QED BY Zenon, <1>1, <1>4, AccountsAssumption

\* The locks of a session stay in order while another one works.
LEMMA OthersInOrder ==
    ASSUME StoreInv, NEW s \in Sessions, OwnStep(s), NEW u \in Sessions \ {s},
           LockOrder(u)
    PROVE  LockOrder(u)'
<1>1. /\ call'[u] = call[u] /\ pc'[u] = pc[u]
      /\ \A w \in Wallets : walletLock'[w] = u <=> walletLock[w] = u
      /\ \A p \in Payments : debitLock'[p] = u <=> debitLock[p] = u
      /\ \A p \in Payments : reservationLock'[p] = u <=> reservationLock[p] = u
  BY Zenon DEF OwnStep
<1>2. Op(u)' = Op(u) /\ Move(u)' = Move(u)
  BY Zenon, <1>1 DEF Op, Move
<1>3. WalletsOf(Op(u), Move(u))' = WalletsOf(Op(u), Move(u))
  BY Zenon, <1>2 DEF WalletsOf
<1>4. pc[u] = "lock" => Unlocked(u)' = Unlocked(u)
  BY Busy, <1>1, <1>3 DEF Unlocked
<1> QED BY Zenon, <1>1, <1>2, <1>3, <1>4 DEF LockOrder

\* A session that has ended its transaction holds nothing.
LEMMA ReturnInOrder ==
    ASSUME StoreInv, NEW s \in Sessions, Return(s)
    PROVE  LockOrder(s)'
BY Zenon, Returned DEF LockOrder

\* The invariant, for a step of s after which its locks are in order.
LEMMA AssembleOrder ==
    ASSUME LocksInv, NEW s \in Sessions, OwnStep(s), LockOrder(s)', StoreInv'
    PROVE  LocksInv'
<1>1. \A u \in Sessions : LockOrder(u)'
  BY Zenon, OthersInOrder DEF LocksInv
<1> QED BY Zenon, <1>1 DEF LocksInv

\* The end of a transaction keeps the locks in order.
LEMMA ReturnKeepsOrder ==
    ASSUME LocksInv, NEW s \in Sessions, Return(s), StoreInv'
    PROVE  LocksInv'
BY Zenon, Returned, ReturnInOrder, AssembleOrder DEF LocksInv

\* Going on from one statement to another, with the same locks.
LEMMA GotoKeepsOrder ==
    ASSUME LocksInv, NEW s \in Sessions, NEW l \in Labels, Goto(s, l),
           UNCHANGED tables, UNCHANGED locks, StoreInv', pc[s] # "idle",
           \/ pc[s] = "find" /\ l \in {"lock", "debitrow"}
           \/ pc[s] = "again" /\ l = "write"
           \/ pc[s] = "recheck" /\ l = "lock"
    PROVE  LocksInv'
<1>1. StoreInv /\ LockOrder(s)
  BY Zenon DEF LocksInv
<1>2. OwnStep(s) /\ pc'[s] = l /\ Op(s)' = Op(s) /\ Move(s)' = Move(s)
  BY Zenon, <1>1, GotoKept
<1>3. UNCHANGED <<walletLock, debitLock, reservationLock>> /\ call'[s] = call[s]
  BY Zenon DEF locks, Goto
<1>4. WalletsOf(Op(s), Move(s))' = WalletsOf(Op(s), Move(s)) /\ Unlocked(s)' = Unlocked(s)
  BY Zenon, <1>2, <1>3 DEF WalletsOf, Unlocked
<1>5. l = "lock" => Unlocked(s) # {} /\ \A w \in Wallets : walletLock[w] # s
  <2> SUFFICES ASSUME l = "lock"
               PROVE  Unlocked(s) # {} /\ \A w \in Wallets : walletLock[w] # s
    OBVIOUS
  <2>1. \A w \in Wallets : walletLock[w] # s
    BY <1>1 DEF LockOrder
  <2>2. From[Move(s)] \in Unlocked(s)
    BY Zenon, <1>1, <2>1, Busy DEF Unlocked
  <2> QED BY Zenon, <2>1, <2>2
<1>6. /\ \A w \in Wallets : walletLock[w] = s => l \in {"lock", "again", "write"}
      /\ \A p \in Payments : debitLock[p] = s => l \in {"recheck", "lock", "write"}
      /\ \A p \in Payments : reservationLock[p] = s => l \in {"lock", "write"}
  BY <1>1 DEF LockOrder
<1>7. LockOrder(s)'
  BY Zenon, <1>1, <1>2, <1>3, <1>4, <1>5, <1>6 DEF LockOrder
<1> QED BY Zenon, <1>2, <1>7, AssembleOrder

\* lockWallet and lockWallets lock the wallets of a call in ascending order.
LEMMA LockWalletKeepsOrder ==
    ASSUME LocksInv, NEW s \in Sessions, LockWallet(s), StoreInv'
    PROVE  LocksInv'
<1>1. StoreInv /\ LockOrder(s) /\ pc[s] = "lock" /\ Unlocked(s) # {}
  BY Zenon DEF LocksInv, LockOrder, LockWallet
<1>2. PICK f : f = First(s)
  BY Zenon
<1>3. /\ f \in Unlocked(s) /\ f \in Wallets /\ f \in Nat
      /\ \A v \in Unlocked(s) : v \in Nat /\ f <= v
  <2>1. pc[s] # "idle"
    BY <1>1
  <2> QED BY Zenon, <1>1, <1>2, <2>1, FirstIsLeast
<1>4. /\ walletLock[f] = Free
      /\ walletLock' = [walletLock EXCEPT ![f] = s]
      /\ seen' = [seen EXCEPT ![s][f] = balance[f]]
      /\ pc' = [pc EXCEPT ![s] = IF Unlocked(s) # {f} THEN "lock"
                                 ELSE IF Op(s) = "debit" THEN "again" ELSE "write"]
      /\ UNCHANGED <<tables, call, debitLock, reservationLock>>
  BY Zenon, <1>2 DEF LockWallet
<1>5. /\ \A w \in Wallets : walletLock'[w] = IF w = f THEN s ELSE walletLock[w]
      /\ \A u \in Sessions \ {s} : pc'[u] = pc[u] /\ seen'[u] = seen[u]
      /\ pc'[s] \in {"lock", "again", "write"}
      /\ pc'[s] = "lock" => Unlocked(s) # {f}
      /\ pc'[s] = "again" => Op(s) = "debit"
  BY <1>1, <1>3, <1>4 DEF StoreInv, TypeOK
<1>6. OwnStep(s)
  BY <1>1, <1>4, <1>5, StoreAssumption DEF OwnStep
<1>7. /\ Op(s)' = Op(s) /\ Move(s)' = Move(s) /\ call'[s] = call[s]
      /\ WalletsOf(Op(s), Move(s))' = WalletsOf(Op(s), Move(s))
  BY Zenon, <1>4 DEF Op, Move, WalletsOf
<1>8. WalletsOf(Op(s), Move(s)) \subseteq Wallets
  BY <1>1, Busy
<1>9. Unlocked(s)' = Unlocked(s) \ {f}
  BY Zenon, <1>5, <1>7, <1>8 DEF Unlocked
<1>10. \A w \in Wallets : walletLock'[w] = s => w \in WalletsOf(Op(s), Move(s))
  BY Zenon, <1>1, <1>3, <1>5 DEF LockOrder, Unlocked
<1>11. pc'[s] = "lock" => Unlocked(s) \ {f} # {}
  BY Zenon, <1>3, <1>5
<1>12. ASSUME NEW w \in Wallets, walletLock'[w] = s, NEW v \in Unlocked(s) \ {f}
       PROVE  w < v
  <2>1. CASE w = f
    BY <1>3, <2>1
  <2>2. CASE w # f
    BY Zenon, <1>1, <1>5, <1>12, <2>2 DEF LockOrder
  <2> QED BY Zenon, <2>1, <2>2
<1>13. /\ \A p \in Payments : debitLock[p] = s =>
              call[s] = <<"compensate", p>> /\ Op(s) = "compensate"
       /\ \A p \in Payments : reservationLock[p] = s => Op(s) \in {"confirm", "cancel"}
  BY <1>1 DEF LockOrder, Op
<1>14. /\ \A p \in Payments : debitLock[p] = s => pc'[s] \in {"recheck", "lock", "write"}
       /\ \A p \in Payments : reservationLock[p] = s => pc'[s] \in {"lock", "write"}
  BY <1>5, <1>13
<1>15. debitLock' = debitLock /\ reservationLock' = reservationLock
  BY Zenon, <1>4
<1>16. LockOrder(s)'
  BY Zenon, <1>5, <1>7, <1>9, <1>10, <1>11, <1>12, <1>13, <1>14, <1>15 DEF LockOrder
<1> QED BY Zenon, <1>6, <1>16, AssembleOrder

\* CompensateDebit locks the debit row before it locks a wallet.
LEMMA LockDebitRowKeepsOrder ==
    ASSUME LocksInv, NEW s \in Sessions, LockDebitRow(s), StoreInv'
    PROVE  LocksInv'
<1>1. StoreInv /\ LockOrder(s) /\ pc[s] = "debitrow" /\ Op(s) = "compensate"
  BY DEF LocksInv, LockDebitRow, StoreInv, CallOK
<1>2. CASE Return(s)
  BY Zenon, <1>2, ReturnKeepsOrder
<1>3. CASE /\ debitLock[Move(s)] = Free
           /\ debitLock' = [debitLock EXCEPT ![Move(s)] = s]
           /\ Goto(s, "recheck")
           /\ UNCHANGED <<walletLock, reservationLock>>
  <2>1. call' = call /\ seen' = seen /\ pc' = [pc EXCEPT ![s] = "recheck"]
    BY Zenon, <1>3 DEF Goto
  <2>2. /\ pc'[s] = "recheck"
        /\ \A u \in Sessions \ {s} : pc'[u] = pc[u]
        /\ \A p \in Payments : debitLock'[p] = IF p = Move(s) THEN s ELSE debitLock[p]
    BY Zenon, <1>1, <1>3, <2>1 DEF StoreInv, TypeOK
  <2>3. OwnStep(s)
    BY <1>3, <2>1, <2>2, StoreAssumption DEF OwnStep
  <2>4. /\ \A w \in Wallets : walletLock[w] # s
        /\ \A p \in Payments : debitLock[p] # s /\ reservationLock[p] # s
    BY <1>1 DEF LockOrder
  <2>5. call[s] = <<"compensate", Move(s)>>
    BY <1>1, Busy
  <2>6. LockOrder(s)'
    <3>1. \A p \in Payments : debitLock'[p] = s => p = Move(s)
      BY Zenon, <2>2, <2>4
    <3>2. /\ \A w \in Wallets : walletLock'[w] # s
          /\ \A p \in Payments : reservationLock'[p] # s
      BY Zenon, <1>3, <2>4
    <3>3. pc'[s] # "lock" /\ pc'[s] \in {"recheck", "lock", "write"}
      BY <2>2
    <3>4. call'[s] = <<"compensate", Move(s)>>
      BY Zenon, <2>1, <2>5
    <3> QED BY Zenon, <3>1, <3>2, <3>3, <3>4 DEF LockOrder
  <2> QED BY Zenon, <2>3, <2>6, AssembleOrder
<1> QED BY Zenon, <1>2, <1>3 DEF LockDebitRow, DebitRowFree

\* ConfirmTransfer and CancelReservation lock the reservation before any wallet.
LEMMA LockReservationKeepsOrder ==
    ASSUME LocksInv, NEW s \in Sessions, LockReservation(s), StoreInv'
    PROVE  LocksInv'
<1>1. StoreInv /\ LockOrder(s) /\ pc[s] = "find" /\ Op(s) \in {"confirm", "cancel"}
  BY Zenon DEF LocksInv, LockReservation
<1>2. CASE Return(s)
  BY Zenon, <1>2, ReturnKeepsOrder
<1>3. CASE /\ reservationLock[Move(s)] = Free
           /\ reservationLock' = [reservationLock EXCEPT ![Move(s)] = s]
           /\ Goto(s, IF Op(s) = "confirm" THEN "lock" ELSE "write")
           /\ UNCHANGED <<walletLock, debitLock>>
  <2>1. /\ call' = call /\ seen' = seen
        /\ pc' = [pc EXCEPT ![s] = IF Op(s) = "confirm" THEN "lock" ELSE "write"]
    BY Zenon, <1>3 DEF Goto
  <2>2. /\ pc'[s] \in {"lock", "write"}
        /\ \A u \in Sessions \ {s} : pc'[u] = pc[u]
        /\ \A p \in Payments :
              reservationLock'[p] = IF p = Move(s) THEN s ELSE reservationLock[p]
    BY Zenon, <1>1, <1>3, <2>1 DEF StoreInv, TypeOK
  <2>3. OwnStep(s)
    BY <1>3, <2>1, <2>2, StoreAssumption DEF OwnStep
  <2>4. /\ \A w \in Wallets : walletLock[w] # s
        /\ \A p \in Payments : debitLock[p] # s
    BY <1>1 DEF LockOrder
  <2>5. Op(s)' = Op(s) /\ Move(s)' = Move(s) /\ walletLock' = walletLock /\ debitLock' = debitLock
    BY Zenon, <1>3, <2>1 DEF Op, Move
  <2>6. From[Move(s)] \in Unlocked(s)'
    <3>1. pc[s] # "idle"
      BY <1>1
    <3>2. From[Move(s)] \in WalletsOf(Op(s), Move(s)) /\ From[Move(s)] \in Wallets
      BY Zenon, <1>1, <3>1, Busy
    <3> QED BY Zenon, <2>4, <2>5, <3>2 DEF Unlocked, WalletsOf
  <2>7. LockOrder(s)'
    <3>1. /\ \A w \in Wallets : walletLock'[w] # s
          /\ \A p \in Payments : debitLock'[p] # s
      BY Zenon, <2>4, <2>5
    <3>2. Unlocked(s)' # {}
      BY Zenon, <2>6
    <3> QED BY Zenon, <1>1, <2>2, <2>5, <3>1, <3>2 DEF LockOrder
  <2> QED BY Zenon, <2>3, <2>7, AssembleOrder
<1> QED BY Zenon, <1>2, <1>3 DEF LockReservation

\* A new call holds no lock, and has a wallet to lock.
LEMMA CallKeepsOrder ==
    ASSUME LocksInv, NEW s \in Sessions, Call(s), StoreInv'
    PROVE  LocksInv'
<1>1. StoreInv /\ LockOrder(s) /\ pc[s] = "idle"
  BY Zenon DEF LocksInv, Call
<1>2. PICK c \in Requests :
         /\ call' = [call EXCEPT ![s] = c]
         /\ pc' = [pc EXCEPT ![s] = IF c[1] = "transfer" THEN "lock" ELSE "find"]
  BY Zenon DEF Call
<1>3. UNCHANGED <<seen, walletLock, debitLock, reservationLock>>
  BY Zenon DEF Call, locks
<1>4. OwnStep(s)
  BY Zenon, <1>1, <1>2, <1>3 DEF StoreInv, TypeOK, OwnStep
<1>5. /\ \A w \in Wallets : walletLock'[w] # s
      /\ \A p \in Payments : debitLock'[p] # s /\ reservationLock'[p] # s
  BY <1>1, <1>3 DEF LockOrder
<1>6. pc'[s] # "idle"
  BY <1>1, <1>2 DEF StoreInv, TypeOK
<1>7. call'[s] \in Ops \X Moves
  BY Zenon, <1>6 DEF StoreInv, TypeOK, CallOK
<1>8. Move(s)' \in Moves
  BY <1>7 DEF Move
<1>9. From[Move(s)'] \in Wallets
  BY Zenon, <1>8, AccountsAssumption
<1>10. From[Move(s)'] \in Unlocked(s)'
  BY Zenon, <1>5, <1>9 DEF Unlocked, WalletsOf
<1>11. LockOrder(s)'
  BY Zenon, <1>5, <1>10 DEF LockOrder
<1> QED BY Zenon, <1>4, <1>11, AssembleOrder

\* The order of the locks is kept by every step.
LEMMA NextKeepsOrder ==
    ASSUME LocksInv, [Next]_vars
    PROVE  LocksInv'
<1>1. StoreInv /\ StoreInv'
  BY Zenon, NextStep DEF LocksInv
<1>2. CASE UNCHANGED vars
  <2>1. ASSUME NEW s \in Sessions PROVE LockOrder(s)'
    <3>1. LockOrder(s)
      BY Zenon DEF LocksInv
    <3>2. UNCHANGED <<call, pc, walletLock, debitLock, reservationLock>>
      BY Zenon, <1>2 DEF vars, locks
    <3>3. Op(s)' = Op(s) /\ Move(s)' = Move(s)
      BY Zenon, <3>2 DEF Op, Move
    <3>4. /\ WalletsOf(Op(s), Move(s))' = WalletsOf(Op(s), Move(s))
          /\ Unlocked(s)' = Unlocked(s)
      BY Zenon, <3>2, <3>3 DEF WalletsOf, Unlocked
    <3> QED BY Zenon, <3>1, <3>2, <3>3, <3>4 DEF LockOrder
  <2> QED BY Zenon, <1>1, <2>1 DEF LocksInv
<1>3. CASE Next
  <2>1. PICK s \in Sessions : Call(s) \/ Statement(s) \/ Abort(s) \/ DeadlockDetected(s)
    BY Zenon, <1>3 DEF Next
  <2>2. CASE Return(s)
    BY Zenon, <1>1, <2>2, ReturnKeepsOrder
  <2>3. CASE \/ FindDebit(s) \/ FindDebitAgain(s) \/ FindCompensation(s)
             \/ FindCompensationAgain(s) \/ FindReservation(s) \/ FindEntries(s)
    <3>1. \/ Return(s)
          \/ \E l \in Labels :
                /\ Goto(s, l) /\ UNCHANGED tables /\ UNCHANGED locks /\ pc[s] # "idle"
                /\ \/ pc[s] = "find" /\ l \in {"lock", "debitrow"}
                   \/ pc[s] = "again" /\ l = "write"
                   \/ pc[s] = "recheck" /\ l = "lock"
      BY <2>3 DEF FindDebit, FindDebitAgain, FindCompensation, FindCompensationAgain,
                  FindReservation, FindEntries, Labels
    <3> QED BY Zenon, <1>1, <2>2, <3>1, GotoKeepsOrder
  <2>4. CASE \/ WriteDebit(s) \/ WriteCompensation(s) \/ InsertReservation(s)
             \/ WriteConfirmation(s) \/ WriteCancel(s) \/ WriteTransfer(s)
             \/ WriteEntries(s) \/ Abort(s) \/ DeadlockDetected(s)
    BY Zenon, <2>2, <2>4 DEF WriteDebit, WriteCompensation, InsertReservation,
       WriteConfirmation, WriteCancel, WriteTransfer, WriteEntries, Abort, DeadlockDetected
  <2>5. CASE LockWallet(s) \/ LockDebitRow(s) \/ LockReservation(s) \/ Call(s)
    BY Zenon, <1>1, <2>5, LockWalletKeepsOrder, LockDebitRowKeepsOrder,
       LockReservationKeepsOrder, CallKeepsOrder
  <2> QED BY Zenon, <2>1, <2>3, <2>4, <2>5 DEF Statement
<1> QED BY Zenon, <1>2, <1>3

\* For any number of sessions: the locks of a session are those of its call, and
\* wallets are locked in ascending order.
THEOREM LocksOrdered == Spec => []LocksInv
<1>1. Init => LocksInv
  <2> SUFFICES ASSUME Init PROVE LocksInv
    OBVIOUS
  <2>1. ASSUME NEW s \in Sessions PROVE LockOrder(s)
    BY StoreAssumption DEF Init, LockOrder
  <2> QED BY Zenon, <2>1, InitStore DEF LocksInv
<1> QED BY <1>1, NextKeepsOrder, PTL DEF Spec

-----------------------------------------------------------------------------
(* Deadlocks.                                                              *)

\* A set of natural numbers that is not empty has a least element.
LEMMA LeastNumber ==
    ASSUME NEW T, T \subseteq Nat, T # {}
    PROVE  \E x \in T : \A y \in T : ~(y < x)
<1>1. PICK x \in T : \A y \in T : ~(<<y, x>> \in OpToRel(<, Nat))
  BY Zenon, NatLessThanWellFounded, WFMin
<1>2. \A y \in T : y < x => <<y, x>> \in OpToRel(<, Nat)
  BY DEF OpToRel
<1> QED BY Zenon, <1>1, <1>2

\* The session that another one waits for holds a row.
LEMMA BlockerHolds ==
    ASSUME LocksInv, NEW u \in Sessions, NEW v \in Sessions, v = Blocker(u)
    PROVE  \/ \E w \in Wallets : walletLock[w] = v
           \/ \E p \in Payments : debitLock[p] = v \/ reservationLock[p] = v
<1>1. StoreInv /\ LockOrder(u) /\ CallOK(u) /\ v # Free
  BY Zenon, StoreAssumption DEF LocksInv, StoreInv
<1>2. CASE pc[u] = "lock"
  <2>1. Unlocked(u) # {} /\ pc[u] # "idle"
    BY Zenon, <1>1, <1>2 DEF LockOrder
  <2>2. First(u) \in Wallets
    BY Zenon, <1>1, <2>1, FirstIsLeast
  <2> QED BY Zenon, <1>2, <2>2 DEF Blocker
<1>3. CASE pc[u] # "lock"
  <2> DEFINE Looks == pc[u] = "find" /\ Op(u) \in {"reserve", "confirm", "cancel"}
             Waits == pc[u] \in {"debitrow", "again"} \/ (pc[u] = "find" /\ Op(u) = "debit")
  <2>1. (v = debitLock[Move(u)] /\ Waits) \/ (v = reservationLock[Move(u)] /\ Looks)
    BY SMTT(30), <1>1, <1>3 DEF Blocker
  <2>2. /\ Waits => Op(u) \in {"debit", "compensate"} /\ pc[u] # "idle"
        /\ Looks => Op(u) \in {"reserve", "confirm", "cancel"} /\ pc[u] # "idle"
    BY <1>1 DEF CallOK
  <2>3. Op(u) \notin {"transfer", "append"} /\ pc[u] # "idle"
    BY <2>1, <2>2
  <2>4. Move(u) \in Payments
    BY Zenon, <1>1, <2>3 DEF CallOK
  <2> QED BY Zenon, <2>1, <2>4
<1> QED BY Zenon, <1>2, <1>3

\* A session of a ring holds what another one waits for, so that it waits for a
\* wallet, or for the debit row of its own payment with its wallet locked.
LEMMA RingMember ==
    ASSUME LocksInv, NEW ring \in SUBSET Sessions, ring = {Blocker(u) : u \in ring},
           NEW v \in ring
    PROVE  /\ pc[v] = "lock" \/ (pc[v] = "again" /\ Move(v) \in debits)
           /\ Blocker(v) \in ring
<1>1. v \in Sessions /\ Blocker(v) \in ring /\ Blocker(v) \in Sessions /\ Blocker(v) # Free
  BY StoreAssumption
<1>2. PICK u \in ring : v = Blocker(u)
  BY Zenon
<1>3. StoreInv /\ LockOrder(v) /\ u \in Sessions
  BY Zenon, <1>1 DEF LocksInv
<1>4. \/ \E w \in Wallets : walletLock[w] = v
      \/ \E p \in Payments : debitLock[p] = v \/ reservationLock[p] = v
  BY Zenon, <1>1, <1>2, <1>3, BlockerHolds
<1>5. pc[v] \in {"lock", "again", "write", "recheck"}
  BY <1>3, <1>4 DEF LockOrder
<1> QED BY <1>1, <1>5 DEF Blocker

\* A session that waits for a wallet is blocked by one that holds it; if that
\* one waits for a wallet as well, it waits for a greater one.
LEMMA WaitsForGreater ==
    ASSUME LocksInv, NEW u \in Sessions, NEW v \in Sessions,
           v = Blocker(u), pc[u] = "lock", pc[v] = "lock"
    PROVE  First(u) \in Nat /\ First(v) \in Nat /\ First(u) < First(v)
<1>1. StoreInv /\ LockOrder(u) /\ LockOrder(v)
  BY Zenon DEF LocksInv
<1>2. pc[u] # "idle" /\ pc[v] # "idle" /\ Unlocked(u) # {} /\ Unlocked(v) # {}
  BY <1>1 DEF LockOrder
<1>3. First(u) \in Wallets /\ First(u) \in Nat /\ First(v) \in Unlocked(v) /\ First(v) \in Nat
  BY Zenon, <1>1, <1>2, FirstIsLeast
<1>4. walletLock[First(u)] = v
  BY Zenon DEF Blocker
<1> QED BY Zenon, <1>1, <1>3, <1>4 DEF LockOrder

\* A debit that waits for the debit row of its payment is blocked by the refund
\* of that payment.
LEMMA WaitsForRefund ==
    ASSUME LocksInv, NEW u \in Sessions, NEW v \in Sessions,
           v = Blocker(u), pc[u] = "again", pc[v] \in {"lock", "again"}
    PROVE  /\ call[u] = <<"debit", Move(v)>>
           /\ call[v] = <<"compensate", Move(u)>> /\ pc[v] = "lock"
<1>1. StoreInv /\ LockOrder(v) /\ v # Free
  BY Zenon, StoreAssumption DEF LocksInv
<1>2. v = debitLock[Move(u)]
  BY <1>1 DEF Blocker
<1>3. Op(u) = "debit" /\ Move(u) \in Payments
  BY <1>1 DEF StoreInv, CallOK
<1>4. call[v] = <<"compensate", Move(u)>> /\ pc[v] = "lock"
  BY <1>1, <1>2, <1>3 DEF LockOrder
<1>5. Move(v) = Move(u)
  BY <1>4 DEF Move
<1>6. call[u] = <<Op(u), Move(u)>>
  BY Zenon, <1>1, Busy
<1> QED BY Zenon, <1>3, <1>4, <1>5, <1>6

\* Sessions that wait for wallets only do not wait for each other in a ring.
LEMMA NoRingOfWallets ==
    ASSUME LocksInv, NEW ring \in SUBSET Sessions, ring # {},
           ring = {Blocker(u) : u \in ring}, \A u \in ring : pc[u] = "lock"
    PROVE  FALSE
<1> DEFINE T == {First(u) : u \in ring}
<1>1. \A v \in ring : \E u \in ring :
         First(u) \in Nat /\ First(v) \in Nat /\ First(u) < First(v)
  <2> SUFFICES ASSUME NEW v \in ring
               PROVE  \E u \in ring :
                         First(u) \in Nat /\ First(v) \in Nat /\ First(u) < First(v)
    OBVIOUS
  <2>1. PICK u \in ring : v = Blocker(u)
    BY Zenon
  <2>2. u \in Sessions /\ v \in Sessions /\ pc[u] = "lock" /\ pc[v] = "lock"
    BY Zenon
  <2> QED BY Zenon, <2>1, <2>2, WaitsForGreater
<1>2. T \subseteq Nat /\ T # {}
  BY Zenon, <1>1
<1>3. PICK x \in T : \A y \in T : ~(y < x)
  <2> HIDE DEF T
  <2> QED BY Zenon, <1>2, LeastNumber
<1>4. PICK v \in ring : x = First(v)
  BY Zenon
<1>5. PICK u \in ring : First(u) < First(v)
  BY Zenon, <1>1
<1> QED BY Zenon, <1>3, <1>4, <1>5

\* For any number of sessions, wallets and moves: the only calls of repo/wallets.go
\* that wait for each other in a ring are a repeated debit, which locks the wallet
\* before the debit row, and the refund of that payment, which locks the debit row
\* first.
THEOREM OnlyRepeatedDebitsDeadlock == Spec => []RingsOnlyOnRepeatedDebit
<1>1. LocksInv => RingsOnlyOnRepeatedDebit
  <2> SUFFICES ASSUME LocksInv, NEW s \in Sessions, NEW ring \in SUBSET Sessions,
                      s \in ring, ring = {Blocker(u) : u \in ring}
               PROVE  \E u, v \in Sessions :
                         /\ call[u] = <<"debit", Move(v)>> /\ pc[u] = "again"
                         /\ call[v] = <<"compensate", Move(u)>> /\ pc[v] = "lock"
    BY Zenon DEF RingsOnlyOnRepeatedDebit, OnCycle
  <2>1. PICK u \in ring : pc[u] # "lock"
    BY Zenon, NoRingOfWallets
  <2>2. PICK v : v = Blocker(u)
    BY Zenon
  <2>3. pc[u] = "again" /\ v \in ring
    BY Zenon, <2>1, <2>2, RingMember
  <2>4. u \in Sessions /\ v \in Sessions /\ pc[v] \in {"lock", "again"}
    BY Zenon, <2>3, RingMember
  <2> QED BY Zenon, <2>2, <2>3, <2>4, WaitsForRefund
<1> QED BY <1>1, LocksOrdered, PTL

-----------------------------------------------------------------------------
(* Sums.  Total is a fold over a set; what it gives for every finite set    *)
(* follows from the least set for which it would not.                       *)

\* The element of a set that a sum takes first.
Any(s) == CHOOSE x \in s : TRUE

\* A function that gives the sums of f over the subsets of S.
Sums(f, S, g) ==
    g = [s \in SUBSET S |-> IF s = {} THEN 0 ELSE f[Any(s)] + g[s \ {Any(s)}]]

\* A sum takes one element and leaves the sum of the others.
TakesOne(f, s) ==
    Total(f, s) = IF s = {} THEN 0 ELSE f[Any(s)] + Total(f, s \ {Any(s)})

\* The values of f at the members of S are integers.
IntsOn(f, S) == \A x \in S : f[x] \in Int

\* f and g agree on S.
Agree(f, g, S) == \A x \in S : f[x] = g[x]

\* Total is the value of such a function.
LEMMA TotalIsSums ==
    ASSUME NEW f, NEW S
    PROVE  Total(f, S) = (CHOOSE g : Sums(f, S, g))[S]
BY Zenon DEF Total, FoldSet, MapThenFoldSet, Sums, Any

\* A member of B that contains no other one.
Least(B, t) == t \in B /\ \A u \in B : ~(u \subseteq t /\ u # t)

\* A set of subsets of a finite set has a least member.
LEMMA LeastSubset ==
    ASSUME NEW S, IsFiniteSet(S), NEW B, B \subseteq SUBSET S, B # {}
    PROVE  \E t : Least(B, t)
<1>1. IsWellFoundedOn(StrictSubsetOrdering(S), SUBSET S)
  BY Zenon, FS_StrictSubsetOrderingWellFounded, FS_FiniteSubsetsOfFinite
<1>2. PICK t \in B : \A u \in B : ~(<<u, t>> \in StrictSubsetOrdering(S))
  BY Zenon, <1>1, WFMin
<1>3. ASSUME NEW u \in B, u \subseteq t, u # t
      PROVE  FALSE
  <2>1. /\ <<u, t>>[1] = u /\ <<u, t>>[2] = t
        /\ u \in SUBSET S /\ t \in SUBSET S
    BY Zenon
  <2>2. <<u, t>> \in (SUBSET S) \X (SUBSET S)
    BY Zenon, <2>1
  <2>3. <<u, t>> \in StrictSubsetOrdering(S)
    BY Zenon, <1>3, <2>1, <2>2 DEF StrictSubsetOrdering
  <2> QED BY Zenon, <1>2, <2>3
<1> QED BY Zenon, <1>3 DEF Least

\* A member of a set that is not empty, and the set without it.
LEMMA AnyIsMember ==
    ASSUME NEW s, s # {}
    PROVE  /\ Any(s) \in s /\ s \ {Any(s)} \subseteq s /\ s \ {Any(s)} # s
<1>1. Any(s) \in s
  BY Zenon DEF Any
<1> QED BY Zenon, <1>1

\* The functions of Sums exist, and agree with Total, one set after another.
LEMMA TakesOneStep ==
    ASSUME NEW f, NEW s, IsFiniteSet(s),
           \A t \in SUBSET s : t # s => TakesOne(f, t)
    PROVE  TakesOne(f, s)
<1> DEFINE h == [t \in SUBSET s |->
                    IF t = {} THEN 0
                    ELSE IF t = s THEN f[Any(s)] + Total(f, s \ {Any(s)})
                    ELSE Total(f, t)]
<1>1. \A t \in SUBSET s : t # s => h[t] = Total(f, t)
  <2> SUFFICES ASSUME NEW t \in SUBSET s, t # s PROVE h[t] = Total(f, t)
    BY Zenon
  <2>1. CASE t = {}
    <3>1. Total(f, t) = 0
      BY Zenon, <2>1 DEF TakesOne
    <3> QED BY Zenon, <2>1, <3>1
  <2>2. CASE t # {}
    BY Zenon, <2>2
  <2> QED BY Zenon, <2>1, <2>2
<1>2. \A t \in SUBSET s : h[t] = IF t = {} THEN 0 ELSE f[Any(t)] + h[t \ {Any(t)}]
  <2> SUFFICES ASSUME NEW t \in SUBSET s, t # {}
               PROVE  h[t] = f[Any(t)] + h[t \ {Any(t)}]
    BY Zenon
  <2>1. t \ {Any(t)} \in SUBSET s /\ t \ {Any(t)} # s
    BY Zenon, AnyIsMember
  <2>2. h[t \ {Any(t)}] = Total(f, t \ {Any(t)})
    BY Zenon, <1>1, <2>1
  <2>3. CASE t = s
    <3>1. h[t] = f[Any(s)] + Total(f, s \ {Any(s)})
      BY Zenon, <2>3
    <3> QED BY Zenon, <2>2, <2>3, <3>1
  <2>4. CASE t # s
    <3>1. h[t] = Total(f, t)
      BY Zenon, <1>1, <2>4
    <3>2. Total(f, t) = f[Any(t)] + Total(f, t \ {Any(t)})
      BY Zenon, <2>4 DEF TakesOne
    <3> QED BY Zenon, <2>2, <3>1, <3>2
  <2> QED BY Zenon, <2>3, <2>4
<1>3. Sums(f, s, h)
  <2>1. h = [t \in SUBSET s |-> h[t]]
    BY Zenon
  <2> HIDE DEF h
  <2> QED BY Zenon, <1>2, <2>1 DEF Sums
<1> HIDE DEF h
<1>4. PICK g : g = (CHOOSE k : Sums(f, s, k)) /\ Sums(f, s, g)
  BY Zenon, <1>3
<1>5. \A t \in SUBSET s : g[t] = IF t = {} THEN 0 ELSE f[Any(t)] + g[t \ {Any(t)}]
  BY Zenon, <1>4 DEF Sums
<1>6. \A t \in SUBSET s : t # s => g[t] = Total(f, t)
  <2> DEFINE B == {t \in SUBSET s : t # s /\ g[t] # Total(f, t)}
  <2> SUFFICES ASSUME B # {} PROVE FALSE
    BY Zenon
  <2>1. PICK t : Least(B, t)
    <3>1. B \subseteq SUBSET s
      BY Zenon
    <3> HIDE DEF B
    <3> QED BY Zenon, <3>1, LeastSubset
  <2>2. t \in SUBSET s /\ t # s /\ g[t] # Total(f, t) /\ TakesOne(f, t)
    BY Zenon, <2>1 DEF Least
  <2>3. CASE t = {}
    BY Zenon, <1>5, <2>2, <2>3 DEF TakesOne
  <2>4. CASE t # {}
    <3>1. PICK r : r = t \ {Any(t)}
      BY Zenon
    <3>2. r \in SUBSET s /\ r # s /\ r \subseteq t /\ r # t
      BY Zenon, <2>2, <2>4, <3>1, AnyIsMember
    <3>3. g[r] = Total(f, r)
      BY Zenon, <2>1, <3>2 DEF Least
    <3>4. g[t] = f[Any(t)] + g[r]
      BY Zenon, <1>5, <2>2, <2>4, <3>1
    <3>5. Total(f, t) = f[Any(t)] + Total(f, r)
      BY Zenon, <2>2, <2>4, <3>1 DEF TakesOne
    <3> QED BY Zenon, <2>2, <3>3, <3>4, <3>5
  <2> QED BY Zenon, <2>3, <2>4
<1>7. Total(f, s) = g[s]
  BY Zenon, <1>4, TotalIsSums
<1>8. CASE s = {}
  BY Zenon, <1>5, <1>7, <1>8 DEF TakesOne
<1>9. CASE s # {}
  <2>1. s \ {Any(s)} \in SUBSET s /\ s \ {Any(s)} # s
    BY Zenon, <1>9, AnyIsMember
  <2>2. g[s] = f[Any(s)] + g[s \ {Any(s)}]
    BY Zenon, <1>5, <1>9
  <2> QED BY Zenon, <1>6, <1>7, <1>9, <2>1, <2>2 DEF TakesOne
<1> QED BY Zenon, <1>8, <1>9

\* A sum over a finite set takes one element and leaves the sum of the others.
LEMMA TotalTakesOne ==
    ASSUME NEW f, NEW S, IsFiniteSet(S)
    PROVE  TakesOne(f, S)
<1> DEFINE B == {t \in SUBSET S : ~TakesOne(f, t)}
<1> SUFFICES ASSUME B # {} PROVE FALSE
  BY Zenon
<1>1. PICK t : Least(B, t)
  <2>1. B \subseteq SUBSET S
    BY Zenon
  <2> HIDE DEF B
  <2> QED BY Zenon, <2>1, LeastSubset
<1>2. t \in SUBSET S /\ ~TakesOne(f, t) /\ IsFiniteSet(t)
  BY Zenon, <1>1, FS_Subset DEF Least
<1>3. \A u \in SUBSET t : u # t => TakesOne(f, u)
  BY Zenon, <1>1, <1>2 DEF Least
<1> QED BY Zenon, <1>2, <1>3, TakesOneStep

\* A sum of integers is an integer.
LEMMA TotalIsInt ==
    ASSUME NEW f, NEW S, IsFiniteSet(S), IntsOn(f, S)
    PROVE  Total(f, S) \in Int
<1> DEFINE B == {t \in SUBSET S : Total(f, t) \notin Int}
<1> SUFFICES ASSUME B # {} PROVE FALSE
  BY Zenon
<1>1. PICK t : Least(B, t)
  <2>1. B \subseteq SUBSET S
    BY Zenon
  <2> HIDE DEF B
  <2> QED BY Zenon, <2>1, LeastSubset
<1>2. t \in SUBSET S /\ Total(f, t) \notin Int /\ TakesOne(f, t)
  BY Zenon, <1>1, FS_Subset, TotalTakesOne DEF Least
<1>3. t # {}
  BY <1>2 DEF TakesOne
<1>4. PICK r : r = t \ {Any(t)}
  BY Zenon
<1>5. r \subseteq t /\ r # t /\ Any(t) \in S
  BY Zenon, <1>2, <1>3, <1>4, AnyIsMember
<1>6. Total(f, r) \in Int
  BY Zenon, <1>1, <1>2, <1>5 DEF Least
<1>7. Total(f, t) = f[Any(t)] + Total(f, r)
  BY Zenon, <1>2, <1>3, <1>4 DEF TakesOne
<1>8. f[Any(t)] \in Int
  BY Zenon, <1>5 DEF IntsOn
<1> QED BY <1>2, <1>6, <1>7, <1>8

\* A sum depends only on the values at the members of the set.
LEMMA TotalSame ==
    ASSUME NEW f, NEW g, NEW S, IsFiniteSet(S), Agree(f, g, S)
    PROVE  Total(f, S) = Total(g, S)
<1> DEFINE B == {t \in SUBSET S : Total(f, t) # Total(g, t)}
<1> SUFFICES ASSUME B # {} PROVE FALSE
  BY Zenon
<1>1. PICK t : Least(B, t)
  <2>1. B \subseteq SUBSET S
    BY Zenon
  <2> HIDE DEF B
  <2> QED BY Zenon, <2>1, LeastSubset
<1>2. t \in SUBSET S /\ Total(f, t) # Total(g, t) /\ TakesOne(f, t) /\ TakesOne(g, t)
  BY Zenon, <1>1, FS_Subset, TotalTakesOne DEF Least
<1>3. t # {}
  BY <1>2 DEF TakesOne
<1>4. PICK r : r = t \ {Any(t)}
  BY Zenon
<1>5. r \subseteq t /\ r # t /\ Any(t) \in S
  BY Zenon, <1>2, <1>3, <1>4, AnyIsMember
<1>6. Total(f, r) = Total(g, r)
  BY Zenon, <1>1, <1>2, <1>5 DEF Least
<1>7. Total(f, t) = f[Any(t)] + Total(f, r)
  BY Zenon, <1>2, <1>3, <1>4 DEF TakesOne
<1>8. Total(g, t) = g[Any(t)] + Total(g, r)
  BY Zenon, <1>2, <1>3, <1>4 DEF TakesOne
<1>9. f[Any(t)] = g[Any(t)]
  BY Zenon, <1>5 DEF Agree
<1> QED BY Zenon, <1>2, <1>6, <1>7, <1>8, <1>9

\* A sum takes x and leaves the sum of the others.
Takes(f, t, x) == Total(f, t) = f[x] + Total(f, t \ {x})

\* Any element may be taken first.
LEMMA TotalWithout ==
    ASSUME NEW f, NEW S, IsFiniteSet(S), IntsOn(f, S), NEW x \in S
    PROVE  Takes(f, S, x)
<1> DEFINE B == {t \in SUBSET S : \E y \in t : ~Takes(f, t, y)}
<1> SUFFICES ASSUME B # {} PROVE FALSE
  BY Zenon
<1>1. PICK t : Least(B, t)
  <2>1. B \subseteq SUBSET S
    BY Zenon
  <2> HIDE DEF B
  <2> QED BY Zenon, <2>1, LeastSubset
<1>2. t \in SUBSET S /\ (\E y \in t : ~Takes(f, t, y)) /\ TakesOne(f, t)
  BY Zenon, <1>1, FS_Subset, TotalTakesOne DEF Least
<1>3. PICK y \in t : ~Takes(f, t, y)
  BY Zenon, <1>2
<1>4. PICK c : c = Any(t)
  BY Zenon
<1>5. c \in t /\ Takes(f, t, c)
  BY Zenon, <1>2, <1>3, <1>4, AnyIsMember DEF TakesOne, Takes
<1>6. y # c
  BY Zenon, <1>3, <1>5
<1>7. PICK r : r = (t \ {c}) \ {y}
  BY Zenon
<1>8. (t \ {y}) \ {c} = r
  BY <1>7
<1>9. Takes(f, t \ {c}, y) /\ Takes(f, t \ {y}, c)
  <2>1. /\ t \ {c} \in SUBSET S /\ t \ {c} \subseteq t /\ t \ {c} # t
        /\ t \ {y} \in SUBSET S /\ t \ {y} \subseteq t /\ t \ {y} # t
    BY Zenon, <1>2, <1>3, <1>5
  <2>2. t \ {c} \notin B /\ t \ {y} \notin B
    BY Zenon, <1>1, <2>1 DEF Least
  <2>3. y \in t \ {c} /\ c \in t \ {y}
    BY Zenon, <1>3, <1>5, <1>6
  <2> QED BY Zenon, <2>1, <2>2, <2>3
<1>10. /\ Total(f, t) = f[c] + (f[y] + Total(f, r))
       /\ Total(f, t \ {y}) = f[c] + Total(f, r)
  BY Zenon, <1>5, <1>7, <1>8, <1>9 DEF Takes
<1>11. f[c] \in Int /\ f[y] \in Int /\ Total(f, r) \in Int
  <2>1. r \in SUBSET S /\ c \in S /\ y \in S
    BY Zenon, <1>2, <1>3, <1>5, <1>7
  <2>2. IsFiniteSet(r) /\ IntsOn(f, r)
    BY Zenon, <2>1, FS_Subset DEF IntsOn
  <2>3. f[c] \in Int /\ f[y] \in Int
    BY Zenon, <2>1 DEF IntsOn
  <2> QED BY Zenon, <2>2, <2>3, TotalIsInt
<1>12. Total(f, t) = f[y] + Total(f, t \ {y})
  BY <1>10, <1>11
<1> QED BY Zenon, <1>3, <1>12 DEF Takes

\* g differs from f at x only, and so do the sums over S.
SumFollows(f, g, S, x) == Total(g, S) = (Total(f, S) - f[x]) + g[x]

\* The sum after one value has changed.
LEMMA TotalChanged ==
    ASSUME NEW S, IsFiniteSet(S), NEW f, NEW g, NEW x \in S, IntsOn(f, S), g[x] \in Int,
           Agree(g, f, S \ {x})
    PROVE  SumFollows(f, g, S, x)
<1>1. PICK r : r = S \ {x}
  BY Zenon
<1>2. IsFiniteSet(r) /\ IntsOn(f, r) /\ Agree(g, f, r)
  BY Zenon, <1>1, FS_RemoveElement DEF IntsOn
<1>3. IntsOn(g, S)
  <2> SUFFICES ASSUME NEW y \in S PROVE g[y] \in Int
    BY Zenon DEF IntsOn
  <2>1. CASE y = x
    BY Zenon, <2>1
  <2>2. CASE y # x
    <3>1. g[y] = f[y] /\ f[y] \in Int
      BY Zenon, <2>2 DEF IntsOn, Agree
    <3> QED BY Zenon, <3>1
  <2> QED BY Zenon, <2>1, <2>2
<1>4. Total(f, S) = f[x] + Total(f, r)
  <2>1. Takes(f, S, x)
    BY Zenon, TotalWithout
  <2> QED BY Zenon, <1>1, <2>1 DEF Takes
<1>5. Total(g, S) = g[x] + Total(g, r)
  <2>1. Takes(g, S, x)
    BY Zenon, <1>3, TotalWithout
  <2> QED BY Zenon, <1>1, <2>1 DEF Takes
<1>6. Total(g, r) = Total(f, r)
  BY Zenon, <1>2, TotalSame
<1>7. Total(f, r) \in Int /\ f[x] \in Int
  BY Zenon, <1>2, TotalIsInt DEF IntsOn
<1>8. PICK i \in Int, j \in Int, k \in Int : i = f[x] /\ j = g[x] /\ k = Total(f, r)
  BY Zenon, <1>7
<1>9. Total(f, S) = i + k /\ Total(g, S) = j + k
  BY Zenon, <1>4, <1>5, <1>6, <1>8
<1>10. SumFollows(f, g, S, x) <=> j + k = ((i + k) - i) + j
  BY Zenon, <1>8, <1>9 DEF SumFollows
<1>11. j + k = ((i + k) - i) + j
  OBVIOUS
<1> QED BY ZenonT(40), <1>10, <1>11

-----------------------------------------------------------------------------
(* Money.                                                                   *)

\* The sum of the balances after one of them has changed.
LEMMA BalanceChanged ==
    ASSUME NEW b \in [Wallets -> Nat], NEW c \in [Wallets -> Nat], NEW w \in Wallets,
           Agree(c, b, Wallets \ {w})
    PROVE  /\ SumFollows(b, c, Wallets, w)
           /\ Total(b, Wallets) \in Int /\ b[w] \in Int /\ c[w] \in Int
<1>1. IntsOn(b, Wallets) /\ b[w] \in Int /\ c[w] \in Int
  BY DEF IntsOn
<1>2. SumFollows(b, c, Wallets, w)
  BY ZenonT(40), <1>1, WalletsFinite, TotalChanged
<1>3. Total(b, Wallets) \in Int
  BY Zenon, <1>1, WalletsFinite, TotalIsInt
<1> QED BY Zenon, <1>1, <1>2, <1>3

\* The sum of the amounts taken, with one more payment.
LEMMA AmountAdded ==
    ASSUME NEW D, IsFiniteSet(D), D \subseteq Payments, NEW p \in Payments \ D
    PROVE  /\ Total(Amount, D \cup {p}) = Amount[p] + Total(Amount, D)
           /\ Total(Amount, D) \in Int /\ Amount[p] \in Int
<1>1. PICK E : E = D \cup {p}
  BY Zenon
<1>2. IsFiniteSet(E) /\ p \in E /\ E \ {p} = D /\ E \subseteq Payments
  BY Zenon, <1>1, FS_AddElement
<1>3. \A m \in Payments : Amount[m] \in Int
  BY AccountsAssumption DEF Moves
<1>4. IntsOn(Amount, E) /\ IntsOn(Amount, D)
  BY Zenon, <1>2, <1>3 DEF IntsOn
<1>5. Takes(Amount, E, p)
  BY Zenon, <1>2, <1>4, TotalWithout
<1>6. Total(Amount, E) = Amount[p] + Total(Amount, D)
  BY Zenon, <1>2, <1>5 DEF Takes
<1>7. Total(Amount, D) \in Int
  BY Zenon, <1>4, TotalIsInt
<1> QED BY Zenon, <1>1, <1>3, <1>6, <1>7

\* The money in the wallets and the money taken for payments.
Money(b, D) == Total(b, Wallets) + Total(Amount, D)

\* The money is the same with balances b and payments D as with c and E.
SameMoney(b, D, c, E) == Money(b, D) = Money(c, E)

\* The payer of p has paid its amount, or has it back, and no other wallet changes.
HasPaid(b, c, p) ==
    /\ Agree(c, b, Wallets \ {From[p]})
    /\ c[From[p]] = b[From[p]] - Amount[p]
HasBack(b, c, p) ==
    /\ Agree(c, b, Wallets \ {From[p]})
    /\ c[From[p]] = b[From[p]] + Amount[p]

\* A debit moves money from a wallet to its payment.
LEMMA DebitMoves ==
    ASSUME NEW b \in [Wallets -> Nat], NEW c \in [Wallets -> Nat],
           NEW D, IsFiniteSet(D), D \subseteq Payments, NEW p \in Payments \ D,
           HasPaid(b, c, p)
    PROVE  SameMoney(b, D, c, D \cup {p})
<1>1. PICK w : w = From[p]
  BY Zenon
<1>2. w \in Wallets /\ Agree(c, b, Wallets \ {w}) /\ c[w] = b[w] - Amount[p]
  BY Zenon, <1>1, AccountsAssumption DEF Moves, HasPaid, HasBack
<1>3. /\ SumFollows(b, c, Wallets, w)
      /\ Total(b, Wallets) \in Int /\ b[w] \in Int /\ c[w] \in Int
  BY ZenonT(40), <1>2, BalanceChanged
<1>4. /\ Total(Amount, D \cup {p}) = Amount[p] + Total(Amount, D)
      /\ Total(Amount, D) \in Int /\ Amount[p] \in Int
  BY Zenon, AmountAdded
<1> QED BY <1>2, <1>3, <1>4 DEF SameMoney, Money, SumFollows

\* A refund moves it back.
LEMMA RefundMoves ==
    ASSUME NEW b \in [Wallets -> Nat], NEW c \in [Wallets -> Nat],
           NEW D, IsFiniteSet(D), D \subseteq Payments, NEW p \in Payments \ D,
           HasBack(b, c, p)
    PROVE  SameMoney(b, D \cup {p}, c, D)
<1>1. PICK w : w = From[p]
  BY Zenon
<1>2. w \in Wallets /\ Agree(c, b, Wallets \ {w}) /\ c[w] = b[w] + Amount[p]
  BY Zenon, <1>1, AccountsAssumption DEF Moves, HasPaid, HasBack
<1>3. /\ SumFollows(b, c, Wallets, w)
      /\ Total(b, Wallets) \in Int /\ b[w] \in Int /\ c[w] \in Int
  BY ZenonT(40), <1>2, BalanceChanged
<1>4. /\ Total(Amount, D \cup {p}) = Amount[p] + Total(Amount, D)
      /\ Total(Amount, D) \in Int /\ Amount[p] \in Int
  BY Zenon, AmountAdded
<1> QED BY <1>2, <1>3, <1>4 DEF SameMoney, Money, SumFollows

\* A transfer moves it from one wallet to the other.
LEMMA TransferMoves ==
    ASSUME NEW b \in [Wallets -> Nat], NEW c \in [Wallets -> Nat],
           NEW v \in Wallets, NEW w \in Wallets, v # w, NEW n \in Nat,
           b[v] >= n, c = [b EXCEPT ![v] = @ - n, ![w] = @ + n]
    PROVE  Total(c, Wallets) = Total(b, Wallets)
<1>1. PICK d : d = [b EXCEPT ![v] = @ - n]
  BY Zenon
<1>2. d \in [Wallets -> Nat] /\ d[v] = b[v] - n /\ \A x \in Wallets \ {v} : d[x] = b[x]
  BY <1>1
<1>3. c[w] = d[w] + n /\ \A x \in Wallets \ {w} : c[x] = d[x]
  BY <1>1, <1>2
<1>4. Agree(d, b, Wallets \ {v}) /\ Agree(c, d, Wallets \ {w})
  BY Zenon, <1>2, <1>3 DEF Agree
<1>5. /\ SumFollows(b, d, Wallets, v)
      /\ Total(b, Wallets) \in Int /\ b[v] \in Int /\ d[v] \in Int
  BY ZenonT(40), <1>2, <1>4, BalanceChanged
<1>6. /\ SumFollows(d, c, Wallets, w)
      /\ Total(d, Wallets) \in Int /\ d[w] \in Int /\ c[w] \in Int
  BY ZenonT(40), <1>2, <1>4, BalanceChanged
<1> QED BY <1>2, <1>3, <1>5, <1>6 DEF SumFollows

\* Every operation of Accounts keeps the money.
LEMMA MoneyStep ==
    ASSUME StoreInv, StoreInv', MoneyInv, [AccountsNext]_tables
    PROVE  MoneyInv'
<1>1. PICK b \in [Wallets -> Nat] : b = balance
  BY Zenon DEF StoreInv, TypeOK
<1>2. PICK c \in [Wallets -> Nat] : c = balance'
  BY Zenon DEF StoreInv, TypeOK
<1>3. /\ debits \subseteq Payments /\ refunds \subseteq debits /\ IsFiniteSet(debits)
      /\ Money(b, debits \ refunds) = Total(Opening, Wallets)
  BY Zenon, <1>1 DEF StoreInv, TypeOK, MoneyInv, MoneyConserved, Money
<1>4. IsFiniteSet(debits \ refunds) /\ debits \ refunds \subseteq Payments
  BY Zenon, <1>3, FS_Subset
<1> SUFFICES /\ refunds' \subseteq debits' /\ IsFiniteSet(debits')
             /\ Money(c, debits' \ refunds') = Money(b, debits \ refunds)
  BY Zenon, <1>2, <1>3 DEF MoneyInv, MoneyConserved, Money
<1>5. CASE UNCHANGED <<balance, debits, refunds>>
  BY Zenon, <1>1, <1>2, <1>3, <1>5
<1>6. ASSUME NEW p \in Payments, Debit(p)
      PROVE  /\ refunds' \subseteq debits' /\ IsFiniteSet(debits')
             /\ Money(c, debits' \ refunds') = Money(b, debits \ refunds)
  <2>1. /\ p \notin debits /\ c = [b EXCEPT ![From[p]] = b[From[p]] - Amount[p]]
        /\ debits' = debits \cup {p} /\ refunds' = refunds
    BY Zenon, <1>1, <1>2, <1>6 DEF Debit
  <2>2. PICK D : D = debits \ refunds
    BY Zenon
  <2>3. debits' \ refunds' = D \cup {p} /\ p \in Payments \ D
    BY Zenon, <1>3, <2>1, <2>2
  <2>4. HasPaid(b, c, p)
    BY <2>1, AccountsAssumption DEF HasPaid, HasBack, Agree, Moves
  <2>5. SameMoney(b, D, c, D \cup {p})
    <3>1. IsFiniteSet(D) /\ D \subseteq Payments /\ p \in Payments \ D
      BY Zenon, <1>4, <2>2, <2>3
    <3> QED BY ZenonT(40), <2>4, <3>1, DebitMoves
  <2> QED BY Zenon, <1>3, <2>1, <2>2, <2>3, <2>5, FS_AddElement DEF SameMoney
<1>7. ASSUME NEW p \in Payments, Refund(p)
      PROVE  /\ refunds' \subseteq debits' /\ IsFiniteSet(debits')
             /\ Money(c, debits' \ refunds') = Money(b, debits \ refunds)
  <2>1. /\ p \in debits \ refunds /\ c = [b EXCEPT ![From[p]] = b[From[p]] + Amount[p]]
        /\ debits' = debits /\ refunds' = refunds \cup {p}
    BY Zenon, <1>1, <1>2, <1>7 DEF Refund
  <2>2. PICK D : D = (debits \ refunds) \ {p}
    BY Zenon
  <2>3. debits' \ refunds' = D /\ debits \ refunds = D \cup {p} /\ p \in Payments \ D
    BY <2>1, <2>2
  <2>4. HasBack(b, c, p)
    BY <2>1, AccountsAssumption DEF HasPaid, HasBack, Agree, Moves
  <2>5. IsFiniteSet(D) /\ D \subseteq Payments
    BY Zenon, <1>4, <2>2, FS_RemoveElement
  <2>6. SameMoney(b, D \cup {p}, c, D)
    BY ZenonT(40), <2>3, <2>4, <2>5, RefundMoves
  <2> QED BY Zenon, <1>3, <2>1, <2>3, <2>6 DEF SameMoney
<1>8. ASSUME NEW t \in Transfers, Transfer(t)
      PROVE  /\ refunds' \subseteq debits' /\ IsFiniteSet(debits')
             /\ Money(c, debits' \ refunds') = Money(b, debits \ refunds)
  <2>1. PICK v, w, n : v = From[t] /\ w = To[t] /\ n = Amount[t]
    BY Zenon
  <2>2. v \in Wallets /\ w \in Wallets /\ v # w /\ n \in Nat
    BY <2>1, AccountsAssumption DEF Moves
  <2>3. /\ b[v] >= n /\ c = [b EXCEPT ![v] = @ - n, ![w] = @ + n]
        /\ debits' = debits /\ refunds' = refunds
    BY Zenon, <1>1, <1>2, <1>8, <2>1 DEF Transfer
  <2>4. Total(c, Wallets) = Total(b, Wallets)
    BY Zenon, <2>2, <2>3, TransferMoves
  <2> QED BY Zenon, <1>3, <2>3, <2>4 DEF Money
<1>9. CASE AccountsNext
  <2>1. ASSUME NEW p \in Payments, Reserve(p) \/ Confirm(p) \/ Cancel(p)
        PROVE  UNCHANGED <<balance, debits, refunds>>
    BY Zenon, <2>1 DEF Reserve, Confirm, Cancel
  <2>2. ASSUME NEW t \in Transfers, Post(t)
        PROVE  UNCHANGED <<balance, debits, refunds>>
    BY Zenon, <2>2 DEF Post
  <2> QED BY Zenon, <1>5, <1>6, <1>7, <1>8, <1>9, <2>1, <2>2 DEF AccountsNext
<1> QED BY Zenon, <1>5, <1>9 DEF tables

\* For any wallets, moves and number of sessions: whatever calls are repeated,
\* aborted or run at the same time, the balances of repo/wallets.go and the amounts
\* debited and not refunded add up to the money there was at first.
THEOREM MoneyIsConserved == Spec => []MoneyConserved
<1>1. Init => MoneyInv
  <2> SUFFICES ASSUME Init PROVE MoneyInv
    OBVIOUS
  <2>1. balance = Opening /\ debits = {} /\ refunds = {}
    BY Zenon DEF Init, AccountsInit
  <2>2. debits \ refunds = {} /\ IsFiniteSet(debits) /\ refunds \subseteq debits
    BY Zenon, <2>1, FS_EmptySet
  <2>3. Total(Amount, debits \ refunds) = 0
    <3>1. TakesOne(Amount, debits \ refunds)
      BY Zenon, <2>2, FS_EmptySet, TotalTakesOne
    <3> QED BY Zenon, <2>2, <3>1 DEF TakesOne
  <2>4. Total(Opening, Wallets) \in Int
    <3>1. IntsOn(Opening, Wallets)
      BY AccountsAssumption DEF IntsOn
    <3> QED BY Zenon, <3>1, WalletsFinite, TotalIsInt
  <2>5. MoneyConserved
    BY <2>1, <2>3, <2>4 DEF MoneyConserved
  <2> QED BY Zenon, <2>2, <2>5 DEF MoneyInv
<1>2. StoreInv /\ StoreInv' /\ MoneyInv /\ [Next]_vars => MoneyInv'
  BY Zenon, StepImplements, MoneyStep
<1>3. MoneyInv => MoneyConserved
  BY Zenon DEF MoneyInv
<1> QED BY <1>1, <1>2, <1>3, StoreInvariant, PTL DEF Spec

=============================================================================
