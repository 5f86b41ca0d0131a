----------------------------- MODULE MCGateway ------------------------------
(***************************************************************************)
(* Two users, one of them an administrator; a payment that is asked for    *)
(* again with the same and with other fields, with and without an id; a    *)
(* client that reads a ledger of three entries one by one while entries    *)
(* commit; and requests for every other route, refused and served.         *)
(***************************************************************************)
EXTENDS Gateway, TLC

CONSTANTS u1, u2, p1, p2, k1

Token(u, role) == [alg |-> Alg, live |-> TRUE, user |-> u, role |-> role]
Payer == Token(u1, "user")
Admin == Token(u2, "admin")

Req(front, kind, token, p, k, body) ==
    [front |-> front, kind |-> kind, token |-> token, payment |-> p, key |-> k, body |-> body]

First == Req("gateway", "start", Payer, p1, k1, "ten")

Paying ==
    {First,
     Req("gateway", "start", Payer, p1, k1, "twenty"),
     Req("gateway", "start", Payer, None, k1, "ten"),
     Req("gateway", "start", Admin, p1, None, "ten")}

Reviewing ==
    {First,
     Req("gateway", "decide", Admin, p1, None, ""),
     Req("gateway", "decide", Payer, p1, None, ""),
     Req("gateway", "reviews", Admin, p1, None, ""),
     Req("gateway", "get", Payer, p1, None, "")}

Move == Req("api", "transfer", Payer, None, None, "ten")
Reading == {Req("api", "page", Payer, None, None, ""),
            Req("gateway", "page", Payer, None, None, ""), Move}

Serving ==
    {Req("gateway", "reviews", Admin, None, None, ""),
     Req("gateway", "wallet", Payer, None, None, "other_currency"),
     Req("api", "wallet", Payer, None, None, "other_currency"),
     Req("gateway", "balance", Admin, None, None, ""),
     Req("gateway", "verify", Payer, None, None, ""),
     Req("gateway", "verify", Payer, None, k1, ""),
     Req("gateway", "status", [Payer EXCEPT !.live = FALSE], None, None, ""),
     Req("gateway", "start", Payer, p1, k1, "invalid"),
     Req("api", "page", Admin, None, None, ""),
     Req("api", "page", Payer, None, None, "invalid"),
     Req("api", "transfer", Payer, None, None, "bad_amount")}

Asking == {Req("gateway", "status", Payer, None, None, "")}

MCRequests == Paying \cup Reviewing \cup Reading \cup Serving \cup Asking

Groups == {Paying, Reviewing, Reading, Serving, Asking}
\* One transfer at most, and a walk goes through one front.
MCTogether(r, q) ==
    /\ \E g \in Groups : {r, q} \subseteq g
    /\ ~(r = Move /\ q = Move)
    /\ r.kind = "page" /\ q.kind = "page" /\ {r, q} \subseteq Reading => r = q

\* A behaviour lasts as long as the requests in it need.
Bounds ==
    LET sent == {log[n].req : n \in 1..Len(log)}
        Only(group, requests, until) ==
            sent \subseteq group /\ Len(log) <= requests /\ clock <= until
    IN  /\ \/ Only(Paying, 3, 0)
           \/ Only(Reading, 4, 1) /\ lost = 0
           \/ Only(Reviewing, 2, 0) \/ Only(Serving, 2, 0)
           \/ Only(Asking, 5, MaxClock) /\ lost = 0
        /\ (\E e \in Entries : entry[e] # None) => Only(Reading, 4, 1)

=============================================================================
