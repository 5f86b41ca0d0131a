------------------------------ MODULE Accounts ------------------------------
(***************************************************************************)
(* What the wallet and ledger store promises its callers: every operation  *)
(* takes effect at once, or not at all, on the tables as they are at that  *)
(* moment.  A payment is debited, refunded and settled at most once, and a *)
(* transfer has one debit and one credit entry.                            *)
(***************************************************************************)
EXTENDS Integers

CONSTANTS
    Wallets,
    Payments,      \* payments of sagas
    Transfers,     \* transfers between wallets
    From, To,      \* the wallets of a payment or transfer
    Amount,
    Opening        \* the balances at first

Moves == Payments \cup Transfers

ASSUME AccountsAssumption ==
    /\ Wallets \subseteq Nat
    /\ Payments \cap Transfers = {}
    /\ From \in [Moves -> Wallets]
    /\ To \in [Moves -> Wallets]
    /\ \A m \in Moves : From[m] # To[m]
    /\ Amount \in [Moves -> Nat \ {0}]
    /\ Opening \in [Wallets -> Nat]

VARIABLES
    balance,       \* wallets.balance
    debits,        \* payments with a debit row in saga_wallet_operations
    refunds,       \* payments with a compensation row
    reservation,   \* ledger_transfer_reservations.status, by payment
    transfers,     \* rows of transfers
    entries        \* rows of ledger_entries

tables == <<balance, debits, refunds, reservation, transfers, entries>>

AccountsInit ==
    /\ balance = Opening
    /\ debits = {}
    /\ refunds = {}
    /\ reservation = [p \in Payments |-> "none"]
    /\ transfers = {}
    /\ entries = {}

\* The two entries of a move, with the balances seen when they are written.
Pair(m, bal) ==
    {[move |-> m, direction |-> "debit",  after |-> bal[From[m]]],
     [move |-> m, direction |-> "credit", after |-> bal[To[m]]]}

InLedger(m) == \E e \in entries : e.move = m

Debit(p) ==
    /\ p \notin debits
    /\ balance[From[p]] >= Amount[p]
    /\ balance' = [balance EXCEPT ![From[p]] = @ - Amount[p]]
    /\ debits' = debits \cup {p}
    /\ UNCHANGED <<refunds, reservation, transfers, entries>>

Refund(p) ==
    /\ p \in debits \ refunds
    /\ balance' = [balance EXCEPT ![From[p]] = @ + Amount[p]]
    /\ refunds' = refunds \cup {p}
    /\ UNCHANGED <<debits, reservation, transfers, entries>>

Reserve(p) ==
    /\ reservation[p] = "none"
    /\ reservation' = [reservation EXCEPT ![p] = "RESERVED"]
    /\ UNCHANGED <<balance, debits, refunds, transfers, entries>>

Confirm(p) ==
    /\ reservation[p] = "RESERVED"
    /\ reservation' = [reservation EXCEPT ![p] = "CONFIRMED"]
    /\ transfers' = transfers \cup {p}
    /\ entries' = entries \cup Pair(p, balance)
    /\ UNCHANGED <<balance, debits, refunds>>

Cancel(p) ==
    /\ reservation[p] = "RESERVED"
    /\ reservation' = [reservation EXCEPT ![p] = "CANCELED"]
    /\ UNCHANGED <<balance, debits, refunds, transfers, entries>>

Transfer(t) ==
    /\ t \notin transfers
    /\ balance[From[t]] >= Amount[t]
    /\ balance' = [balance EXCEPT ![From[t]] = @ - Amount[t],
                                  ![To[t]] = @ + Amount[t]]
    /\ transfers' = transfers \cup {t}
    /\ UNCHANGED <<debits, refunds, reservation, entries>>

Post(t) ==
    /\ t \in transfers
    /\ ~InLedger(t)
    /\ entries' = entries \cup Pair(t, balance)
    /\ UNCHANGED <<balance, debits, refunds, reservation, transfers>>

AccountsNext ==
    \/ \E p \in Payments :
          Debit(p) \/ Refund(p) \/ Reserve(p) \/ Confirm(p) \/ Cancel(p)
    \/ \E t \in Transfers : Transfer(t) \/ Post(t)

AccountsSpec == AccountsInit /\ [][AccountsNext]_tables

=============================================================================
