------------------------- MODULE MCPaymentProcessor -------------------------
(* PaymentProcessor with a partition of three records. *)
EXTENDS PaymentProcessor

CONSTANTS p1, p2

\* A command and its duplicate around an invalid one.
DuplicatedCommands == <<p1, "invalid", p1>>

\* Two commands.
TwoCommands == <<p1, p2>>

\* A crash or a failing store call, with or without a rebalance.
OneFault == crashes + errors <= 1

=============================================================================
