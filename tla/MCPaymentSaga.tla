--------------------------- MODULE MCPaymentSaga ---------------------------
(* Instances of PaymentSaga for TLC. *)
EXTENDS PaymentSaga, TLC

Symmetry == Permutations(Workers)

\* The payment that the balance does not cover has been touched.
UnfundedBegun ==
    \E p \in Payments \ Funded : row[p] # NoSaga \/ verification[p] = "verified"

\* A crash or a transient error at most, and neither of them, nor a fraud
\* flag, together with the payment that the balance does not cover.
OneFault ==
    /\ crashes + errors <= 1
    /\ UnfundedBegun => crashes + errors = 0 /\ log["fraud.flagged"] = << >>

=============================================================================
