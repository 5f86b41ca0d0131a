--------------------------- MODULE PaymentOutcome ---------------------------
(***************************************************************************)
(* What a payment saga promises the payer, with no services, threads or    *)
(* messages: the money of a payment is taken at most once, and ends either *)
(* with the recipient or back with the payer, never both and never undone. *)
(* A final event is only ever sent about an end that has been reached.     *)
(***************************************************************************)
CONSTANT Payments

VARIABLES
    money,       \* where the money of each payment is
    announced    \* final events sent, as <<event, payment>>

Init ==
    /\ money = [p \in Payments |-> "payer"]
    /\ announced = {}

Move(p, from, to) ==
    /\ money[p] = from
    /\ money' = [money EXCEPT ![p] = to]
    /\ UNCHANGED announced

Take(p)   == Move(p, "payer", "held")
Settle(p) == Move(p, "held", "recipient")
Return(p) == Move(p, "held", "returned")

Announce(p) ==
    /\ \/ /\ money[p] = "recipient"
          /\ announced' = announced \cup {<<"tx.completed", p>>}
       \/ /\ money[p] = "returned"
          /\ announced' = announced \cup {<<"tx.failed", p>>}
    /\ UNCHANGED money

Next == \E p \in Payments : Take(p) \/ Settle(p) \/ Return(p) \/ Announce(p)

Spec == Init /\ [][Next]_<<money, announced>>

=============================================================================
