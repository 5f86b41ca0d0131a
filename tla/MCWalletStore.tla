---------------------------- MODULE MCWalletStore ---------------------------
(***************************************************************************)
(* The instance of WalletStore that TLC checks: two wallets, one payment   *)
(* from the first to the second, and a transfer in each direction.         *)
(***************************************************************************)
EXTENDS WalletStore

MCWallets == {1, 2}
MCPayments == {"p"}
MCTransfers == {"t", "u"}
MCFrom == [m \in {"p", "t", "u"} |-> IF m = "u" THEN 2 ELSE 1]
MCTo == [m \in {"p", "t", "u"} |-> IF m = "u" THEN 1 ELSE 2]
MCAmount == [m \in {"p", "t", "u"} |-> IF m = "t" THEN 2 ELSE 1]

\* The first wallet can pay for the payment or the transfer, the second only
\* after it has been paid.
MCOpening == [w \in {1, 2} |-> IF w = 1 THEN 2 ELSE 0]

=============================================================================
