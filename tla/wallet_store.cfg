SPECIFICATION FairSpec
CONSTANTS
    Wallets <- MCWallets
    Payments <- MCPayments
    Transfers <- MCTransfers
    From <- MCFrom
    To <- MCTo
    Amount <- MCAmount
    Opening <- MCOpening
    Sessions = {s1, s2}
    Free = free
INVARIANTS
    MoneyConserved
    RingsOnlyOnRepeatedDebit
PROPERTIES
    ImplementsAccounts
    CallsReturn
