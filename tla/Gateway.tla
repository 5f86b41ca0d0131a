------------------------------ MODULE Gateway -------------------------------
(***************************************************************************)
(* A request from the public boundary to the table it reads or writes:     *)
(* the gateway (internal/gateway) authenticates it, charges it to the      *)
(* caller's bucket, checks it and calls a service over gRPC; the service   *)
(* runs statement by statement beside those of other requests; its answer  *)
(* becomes an HTTP status.  The connection between the two may break:      *)
(* the caller is told 500 and the service goes on.  cmd/api serves the     *)
(* wallet and ledger routes without limiter and gRPC.                      *)
(*                                                                         *)
(* What advance does to a payment, and what a review decision does, is the *)
(* subject of PaymentSaga; here only their answers matter.                 *)
(***************************************************************************)
EXTENDS RateLimiter, Sequences

CONSTANTS
    Requests,      \* the requests clients send
    Payments,      \* payment ids
    None,          \* a field the client leaves out; an absent row or cursor
    Alg,           \* JWT_ALG
    Owner,         \* the user whose wallet has the ledger entries
    Entries,       \* ids of ledger entries, ordered as integers
    Limit,         \* entries on a page
    Together(_,_), \* bound: whether two requests occur in one behaviour
    MaxRequests,   \* bound: requests of a behaviour
    MaxOpen,       \* bound: requests in progress at a time
    MaxLost        \* bound: broken connections to a service

ASSUME GatewayAssumption ==
    /\ None \notin Payments
    /\ Entries \subseteq Nat /\ IsFiniteSet(Entries)
    /\ Limit \in Nat \ {0}
    /\ {MaxRequests, MaxOpen, MaxLost} \subseteq Nat

VARIABLES
    log,           \* the requests, in the order they arrived
    sagas,         \* table sagas: None, or the row of the payment
    entry,         \* table ledger_entries: None, or created_at
    walk,          \* a client that reads the ledger of Owner page by page
    lost

gatewayVars == <<clock, bucket, log, sagas, entry, walk, lost>>

Init ==
    /\ LimiterInit
    /\ log = <<>>
    /\ sagas = [p \in Payments |-> None]
    /\ entry = [e \in Entries |-> None]
    /\ walk = [cursor |-> <<>>, seen |-> [e \in Entries |-> 0], start |-> {}, state |-> "new"]
    /\ lost = 0

-----------------------------------------------------------------------------
(* What the gateway decides before it calls a service.                     *)

\* Verifier: tokens of the one configured algorithm, not expired.
Verified(t) == t.alg = Alg /\ t.live

\* authenticate: a verified token that names a user and a role.
Authenticated(t) == Verified(t) /\ t.user # None /\ t.role # None

\* What each handler refuses before it calls its service: the HTTP status, or
\* 0 when it goes on.  The two of the review queue are for administrators, and
\* say so before they look at the request.
StartRefused(r) == IF r.body = "invalid" THEN 400 ELSE 0

GetRefused(r) == IF r.body = "invalid" THEN 400 ELSE 0

DecideRefused(r) ==
    IF r.token.role # "admin"    THEN 403
    ELSE IF r.body = "invalid"   THEN 400
    ELSE 0

ReviewsRefused(r) ==
    IF r.token.role # "admin"                       THEN 403
    ELSE IF r.payment # None /\ r.body = "invalid" THEN 400
    ELSE 0

WalletRefused(r) == IF r.body = "invalid" THEN 400 ELSE 0

LedgerRefused(r) == IF r.body = "invalid" THEN 400 ELSE 0

TransferRefused(r) ==
    CASE r.body = "invalid"    -> 400
      [] r.body = "bad_amount" -> 422
      [] OTHER                 -> 0

VerificationRefused(r) == IF r.kind = "verify" /\ r.body = "invalid" THEN 400 ELSE 0

\* The same routes where cmd/api serves them.
ApiWalletRefused(r) == IF r.body = "invalid" THEN 400 ELSE 0

ApiLedgerRefused(r) == IF r.body = "invalid" THEN 400 ELSE 0

ApiRefused(r) ==
    CASE r.kind \in {"wallet", "balance"} -> ApiWalletRefused(r)
      [] r.kind = "page"                  -> ApiLedgerRefused(r)
      [] r.kind = "transfer"              -> TransferRefused(r)

\* The route of a request.
Refused(r) ==
    IF r.front = "api" THEN ApiRefused(r) ELSE
    CASE r.kind = "start"                 -> StartRefused(r)
      [] r.kind = "get"                   -> GetRefused(r)
      [] r.kind = "decide"                -> DecideRefused(r)
      [] r.kind = "reviews"               -> ReviewsRefused(r)
      [] r.kind \in {"wallet", "balance"} -> WalletRefused(r)
      [] r.kind = "page"                  -> LedgerRefused(r)
      [] r.kind \in {"verify", "status"}  -> VerificationRefused(r)

\* The status a request is answered with before any service is called; 0 when
\* it goes on.  cmd/api has no limiter.
Early(r) ==
    IF ~Authenticated(r.token)                            THEN 401
    ELSE IF r.front = "gateway" /\ ~Allowed(r.token.user) THEN 429
    ELSE Refused(r)

\* Payment ids nobody has named yet: what uuid.NewString returns.
Fresh == {p \in Payments : /\ sagas[p] = None
                           /\ \A n \in 1..Len(log) : log[n].payment # p
                           /\ \A r \in Requests : r.payment # p}

\* startPayment: a payment without an id gets a new one.
PaymentOf(r) == IF r.kind = "start" /\ r.payment = None THEN Fresh ELSE {r.payment}

\* startPayment: the idempotency key is the header, or else the payment id.
KeyOf(r, p) == IF r.key = None THEN p ELSE r.key

\* The first statement of the service a request is for.
FirstStep(r) ==
    CASE r.kind = "start"    -> "insert"
      [] r.kind = "page"     -> "page"
      [] r.kind = "transfer" -> "transfer"
      [] OTHER               -> "serve"

Open == {n \in 1..Len(log) : log[n].status = 0}

\* A walk asks for one page at a time, from the cursor it was given last.
MaySend(r) ==
    /\ Len(log) < MaxRequests /\ Cardinality(Open) < MaxOpen
    /\ \A n \in 1..Len(log) : Together(log[n].req, r)
    /\ r.kind = "page" => /\ walk.state # "done"
                          /\ \A n \in Open : log[n].req.kind # "page"

Received(r, p, step) ==
    [req |-> r, at |-> clock, payment |-> p, key |-> KeyOf(r, p), cursor |-> walk.cursor,
     page |-> {}, err |-> "none", status |-> Early(r), step |-> step]

Charge(r) == IF r.front = "gateway" /\ Authenticated(r.token) THEN Allow(r.token.user)
                                                              ELSE UNCHANGED bucket

\* The first page of a walk is asked for.
BeginWalk(r) ==
    walk' = IF r.kind = "page" /\ walk.state = "new"
            THEN [walk EXCEPT !.state = "reading", !.start = {e \in Entries : entry[e] # None}]
            ELSE walk

\* A request arrives: authentication, limiter, route and checks, and either an
\* answer or a call of a service.
Send(r) ==
    /\ MaySend(r)
    /\ \E p \in PaymentOf(r) :
          log' = Append(log, Received(r, p, IF Early(r) = 0 THEN FirstStep(r) ELSE "done"))
    /\ Charge(r) /\ BeginWalk(r)
    /\ UNCHANGED <<clock, sagas, entry, lost>>

-----------------------------------------------------------------------------
(* The services.                                                           *)

At(n, step) == log[n].step = step

\* The service handling request n does its next statement, or returns err.
Goto(n, step) == log' = [log EXCEPT ![n].step = step]
Return(n, err) == log' = [log EXCEPT ![n].step = "done", ![n].err = err]

\* The two unique constraints of table sagas.
SameKey(n, p) == /\ sagas[p] # None
                 /\ sagas[p].user = log[n].req.token.user
                 /\ sagas[p].key = log[n].key

\* Mutant of Duplicate: the key is not unique.
DuplicateId(n) == sagas[log[n].payment] # None

Duplicate(n) == sagas[log[n].payment] # None \/ \E p \in Payments : SameKey(n, p)

\* Create: INSERT, which one of two equal requests wins.
Insert(n) ==
    /\ At(n, "insert")
    /\ IF Duplicate(n)
       THEN Goto(n, "find") /\ UNCHANGED sagas
       ELSE /\ sagas' = [sagas EXCEPT ![log[n].payment] =
                            [user |-> log[n].req.token.user, key |-> log[n].key,
                             body |-> log[n].req.body, state |-> "STARTED", by |-> n]]
            /\ Goto(n, "advance")
    /\ UNCHANGED <<clock, bucket, entry, walk, lost>>

\* findDuplicate: by the payment id, and only then by user and key.
Existing(n) == IF sagas[log[n].payment] # None THEN log[n].payment
               ELSE CHOOSE p \in Payments : SameKey(n, p)

\* Mutant of SameStartPayload: only the request that made the row matches it.
SameRequest(n, p) == p = log[n].payment /\ SameKey(n, p) /\ sagas[p].by = n

SameStartPayload(n, p) ==
    p = log[n].payment /\ SameKey(n, p) /\ sagas[p].body = log[n].req.body

\* Mutant of FindDuplicate: it waits for the first request to have advanced.
FindAdvanced(n) ==
    /\ At(n, "find") /\ sagas[Existing(n)].state # "STARTED"
    /\ Return(n, IF SameStartPayload(n, Existing(n)) THEN "none" ELSE "exists")
    /\ UNCHANGED <<clock, bucket, sagas, entry, walk, lost>>

\* Create after a unique violation, and what StartPaymentSaga makes of it.
FindDuplicate(n) ==
    /\ At(n, "find")
    /\ LET p == Existing(n)
       IN  IF ~SameStartPayload(n, p)            THEN Return(n, "exists")
           ELSE IF sagas[p].state = "STARTED"    THEN Goto(n, "advance")
                                                 ELSE Return(n, "none")
    /\ UNCHANGED <<clock, bucket, sagas, entry, walk, lost>>

\* advance: the saga moves on, or its user is not verified, or the wallet
\* refuses the debit and the saga stays where it is.
Advance(n) ==
    /\ At(n, "advance")
    /\ \E out \in {[err |-> "none",       state |-> "MOVED"],
                   [err |-> "unverified", state |-> "FAILED"],
                   [err |-> "funds",      state |-> "CHECKED"]} :
          /\ sagas' = [sagas EXCEPT ![log[n].payment].state = out.state]
          /\ Return(n, out.err)
    /\ UNCHANGED <<clock, bucket, entry, walk, lost>>

\* GetPaymentSaga.
GetPayment(p) == IF sagas[p] = None THEN {"not_found"} ELSE {"none"}

\* ResumeFraudReview and RejectFraudReview: a payment under review is one of
\* those that have moved on.
DecideReview(p) ==
    IF sagas[p] = None               THEN {"not_found"}
    ELSE IF sagas[p].state = "MOVED" THEN {"none", "not_under_review"}
    ELSE {"not_under_review"}

\* ListFraudReviews, and GetFraudReview of one payment.
ReadReviews(p) == IF p = None THEN {"none"} ELSE GetPayment(p)

\* CreateWallet: the currency must be supported.
CreateWallet(r) == {IF r.body = "other_currency" THEN "unsupported_currency" ELSE "none"}

\* GetWallet and GetBalance: a wallet of somebody else is not found.
GetWallet(r) == {IF r.token.user = Owner THEN "none" ELSE "not_found"}

\* SubmitVerification: without a key it is invalid; Verification has the rest.
SubmitVerification(r) ==
    IF r.key = None THEN {"invalid"} ELSE {"none", "exists", "not_allowed"}

\* GetStatus of the caller's verification.
GetStatus(r) == {"none", "not_found"}

\* What the service may return to a request that changes nothing here.
Results(n) ==
    LET r == log[n].req IN
    CASE r.kind = "get"     -> GetPayment(r.payment)
      [] r.kind = "decide"  -> DecideReview(r.payment)
      [] r.kind = "reviews" -> ReadReviews(r.payment)
      [] r.kind = "wallet"  -> CreateWallet(r)
      [] r.kind = "balance" -> GetWallet(r)
      [] r.kind = "verify"  -> SubmitVerification(r)
      [] r.kind = "status"  -> GetStatus(r)

Serve(n) ==
    /\ At(n, "serve")
    /\ \E err \in Results(n) : Return(n, err)
    /\ UNCHANGED <<clock, bucket, sagas, entry, walk, lost>>

-----------------------------------------------------------------------------
(* Pages of the ledger, newest entry first.                                *)

Newer(e, f) == entry[e] > entry[f] \/ (entry[e] = entry[f] /\ e > f)

\* Mutant of Below: entries of the cursor's instant are skipped.
BelowInstant(e, c) == c = None \/ entry[e] < c.at

Below(e, c) == c = None \/ entry[e] < c.at \/ (entry[e] = c.at /\ e < c.id)

\* ListLedgerEntries: the query asks for one entry more than the page holds.
Rows(c) ==
    LET all == {e \in Entries : entry[e] # None /\ Below(e, c)}
    IN  {e \in all : Cardinality({f \in all : Newer(f, e)}) < Limit + 1}

PageOf(rows) == {e \in rows : Cardinality({f \in rows : Newer(f, e)}) < Limit}

\* The cursor of the next page is the last entry of this one, if the query
\* found another.
NextCursor(rows) ==
    IF Cardinality(rows) > Limit
    THEN LET last == CHOOSE e \in PageOf(rows) : \A f \in PageOf(rows) \ {e} : Newer(f, e)
         IN  [at |-> entry[last], id |-> last]
    ELSE None

\* A cursor on its way to the client and back is encoded and decoded by the
\* HTTP handler, by the gateway's gRPC client and by the ledger service.  Each
\* keeps the nanoseconds of the time, and for each no cursor is no text.

\* decodeLedgerCursor, of the query parameter.
QueryCursor(raw) == IF raw = <<>> THEN None ELSE [at |-> raw[1], id |-> raw[2]]

\* Mutant of LedgerResponse: the time is cut to seconds.
ResponseInSeconds(c) == IF c = None THEN <<>> ELSE <<2 * (c.at \div 2), c.id>>

\* ledgerResponse and encodeLedgerCursor: next_cursor.
LedgerResponse(c) == IF c = None THEN <<>> ELSE <<c.at, c.id>>

\* LedgerClient.
EncodeLedgerCursor(c) == IF c = None THEN <<>> ELSE <<c.at, c.id>>
DecodeLedgerCursor(raw) == IF raw = <<>> THEN None ELSE [at |-> raw[1], id |-> raw[2]]

\* The ledger service.
EncodeCursor(c) == IF c = None THEN <<>> ELSE <<c.at, c.id>>
DecodeCursor(raw) == IF raw = <<>> THEN None ELSE [at |-> raw[1], id |-> raw[2]]

\* ListLedger: the cursor the service is asked for, and the one it returns.
\* cmd/api calls the service itself.
Asked(r, c) == IF r.front = "api" THEN c ELSE DecodeCursor(EncodeLedgerCursor(c))
Given(r, c) == IF r.front = "api" THEN c ELSE DecodeLedgerCursor(EncodeCursor(c))

\* GetEntries: the page of the caller's own wallet, in one statement.
ReadPage(n) ==
    /\ At(n, "page")
    /\ LET r == log[n].req
       IN  IF r.token.user # Owner
           THEN Return(n, "not_found")
           ELSE \E c \in {Asked(r, QueryCursor(log[n].cursor))} : \E rows \in {Rows(c)} :
                \E next \in {Given(r, NextCursor(rows))} :
                   log' = [log EXCEPT ![n].step = "done", ![n].page = PageOf(rows),
                                      ![n].cursor = LedgerResponse(next)]
    /\ UNCHANGED <<clock, bucket, sagas, entry, walk, lost>>

\* CreateTransfer of cmd/api: done, the wallet is not the caller's or not there,
\* or its balance or currency does not do.  The rows it writes are the subject of
\* WalletStore; a ledger entry is none of them.
Transfer(n) ==
    /\ At(n, "transfer")
    /\ \E err \in {"none", "not_found", "funds"} : Return(n, err)
    /\ UNCHANGED <<clock, bucket, sagas, entry, walk, lost>>

\* The ledger service records the two sides of a payment or a transfer: an entry
\* has the time at which its transaction began, and an id that says nothing about
\* order.
CommitEntry(e) ==
    /\ entry[e] = None
    /\ \E at \in 0..clock : entry' = [entry EXCEPT ![e] = at]
    /\ UNCHANGED <<clock, bucket, log, sagas, walk, lost>>

-----------------------------------------------------------------------------
(* The answer.                                                             *)

\* The error with which the wallet refuses a debit is none statusFromSaga knows.
StatusFromSaga(err) ==
    CASE err = "none"                                 -> "OK"
      [] err = "exists"                               -> "AlreadyExists"
      [] err = "not_found"                            -> "NotFound"
      [] err \in {"unverified", "not_under_review"}   -> "FailedPrecondition"
      [] OTHER                                        -> "Internal"

StatusFromDomain(err) ==
    CASE err = "none"                  -> "OK"
      [] err = "not_found"             -> "NotFound"
      [] err = "unsupported_currency"  -> "InvalidArgument"
      [] err = "funds"                 -> "FailedPrecondition"
      [] OTHER                         -> "Internal"

StatusFromVerification(err) ==
    CASE err = "none"        -> "OK"
      [] err = "invalid"     -> "InvalidArgument"
      [] err = "not_found"   -> "NotFound"
      [] err = "not_allowed" -> "FailedPrecondition"
      [] err = "exists"      -> "AlreadyExists"
      [] OTHER               -> "Internal"

Code(r, err) ==
    CASE r.kind \in {"start", "get", "decide", "reviews"} -> StatusFromSaga(err)
      [] r.kind \in {"wallet", "balance", "page"}         -> StatusFromDomain(err)
      [] r.kind \in {"verify", "status"}                  -> StatusFromVerification(err)

\* The status of a request that succeeded.
Success(r) ==
    CASE r.kind = "start"                  -> 202
      [] r.kind \in {"wallet", "transfer"} -> 201
      [] OTHER                             -> 200

\* writeGRPCError.
FromGRPC(r, code) ==
    CASE code = "OK"                 -> Success(r)
      [] code = "InvalidArgument"    -> 400
      [] code = "NotFound"           -> 404
      [] code = "FailedPrecondition" -> 422
      [] OTHER                       -> 500

\* writeDomainError of cmd/api.
FromDomain(r, err) ==
    CASE err = "none"      -> Success(r)
      [] err = "not_found" -> 404
      [] err \in {"unsupported_currency", "funds"} -> 422
      [] OTHER             -> 500

\* The service's answer reaches the caller; a page moves the walk on.
Answer(n) ==
    /\ log[n].status = 0 /\ At(n, "done")
    /\ LET r == log[n].req
           code == IF r.front = "api" THEN FromDomain(r, log[n].err)
                                      ELSE FromGRPC(r, Code(r, log[n].err))
       IN  /\ log' = [log EXCEPT ![n].status = code, ![n].page = {}, ![n].cursor = <<>>]
           /\ walk' = IF r.kind = "page" /\ code = 200
                      THEN [walk EXCEPT
                              !.cursor = log[n].cursor,
                              !.seen = [e \in Entries |->
                                          IF e \in log[n].page THEN @[e] + 1 ELSE @[e]],
                              !.state = IF log[n].cursor = <<>> THEN "done" ELSE @]
                      ELSE walk
    /\ UNCHANGED <<clock, bucket, sagas, entry, lost>>

\* The connection to the service breaks: the caller gets 500 at once, the
\* service may still do all of its work.
LoseConnection(n) ==
    /\ log[n].status = 0 /\ log[n].req.front = "gateway" /\ lost < MaxLost
    /\ log' = [log EXCEPT ![n].status = 500]
    /\ lost' = lost + 1
    /\ UNCHANGED <<clock, bucket, sagas, entry, walk>>

\* A statement of the service fails.
Fail(n) ==
    /\ ~At(n, "done") /\ lost < MaxLost
    /\ Return(n, "internal")
    /\ lost' = lost + 1
    /\ UNCHANGED <<clock, bucket, sagas, entry, walk>>

-----------------------------------------------------------------------------

Pass == Tick /\ UNCHANGED <<bucket, log, sagas, entry, walk, lost>>

Handle(n) == Insert(n) \/ FindDuplicate(n) \/ Advance(n) \/ Serve(n) \/ ReadPage(n)
             \/ Transfer(n) \/ Answer(n)

Next ==
    \/ \E r \in Requests : Send(r)
    \/ \E n \in 1..Len(log) : Handle(n) \/ LoseConnection(n) \/ Fail(n)
    \/ \E e \in Entries : CommitEntry(e)
    \/ Pass

Spec == Init /\ [][Next]_gatewayVars

\* Services that have requests go on with them, and their answers arrive.
FairSpec == Spec /\ WF_gatewayVars(\E n \in 1..Len(log) : Handle(n))

-----------------------------------------------------------------------------
(* Properties.                                                             *)

Starts == {n \in 1..Len(log) : log[n].req.kind = "start"}

\* A payment the gateway accepted (202) is the one the caller asked for: the
\* row has their id, user, key and amount, and no other payment has the same
\* user and key, however the request raced others and its own retries.
AcceptedIsRecorded ==
    \A n \in Starts : log[n].status = 202 =>
        /\ SameStartPayload(n, log[n].payment)
        /\ \A p \in Payments \ {log[n].payment} : ~SameKey(n, p)

\* findDuplicate refuses a start only if an earlier one with the same payment
\* id, or of the same user with the same key, asked for something else: a retry
\* of a request whose answer was lost is never a conflict, if it names the
\* payment.
RetryNeverConflicts ==
    \A n \in Starts : log[n].err = "exists" /\ log[n].req.payment # None =>
        \E m \in Starts : /\ log[m].req # log[n].req
                          /\ \/ log[m].payment = log[n].payment
                             \/ /\ log[m].req.token.user = log[n].req.token.user
                                /\ log[m].key = log[n].key

\* The requests of u the limiter let through between s and t.
LetThrough(rec) == rec.status \notin {401, 429}

Counted(rec, u, s, t) == /\ rec.req.front = "gateway" /\ rec.req.token.user = u
                         /\ LetThrough(rec) /\ rec.at \in s..t

Through(u, s, t) == {n \in 1..Len(log) : Counted(log[n], u, s, t)}

\* In no interval does the limiter let a user through more often than the
\* burst and one refill for each period that ended in it, however the requests
\* are spread over it.
WithinBudget ==
    \A u \in Users : \A m, n \in Through(u, 0, clock) :
        LET s == log[m].at
            t == log[n].at
        IN  s <= t => Cardinality(Through(u, s, t)) <= Burst + (t - s) \div RefillEvery + 1

\* A user is turned away (429) only if they have used the burst and every whole
\* period since: no part of a waiting time is lost, however often they ask.
RefusedOnlyOverBudget ==
    \A n \in 1..Len(log) : log[n].status = 429 =>
        \E s \in 0..log[n].at :
            Cardinality(Through(log[n].req.token.user, s, log[n].at))
                >= Burst + (log[n].at - s) \div RefillEvery

\* A client that follows next_cursor through the ledger while entries commit
\* sees no entry twice, and at the end has seen every entry that was there when
\* it began.
WalkIsExact ==
    /\ \A e \in Entries : walk.seen[e] <= 1
    /\ walk.state = "done" => \A e \in walk.start : walk.seen[e] = 1

\* Every request is answered, also one that waits for the row of another.  The
\* requests of a behaviour are bounded, so this is to say that again and again
\* none is open.
EveryRequestAnswered == []<>(Open = {})

\* docs/phase3/specs/01-contracts-and-topics.md:176 and :210: a conflicting
\* idempotency key is answered with 409.
ConflictIs409 ==
    \A n \in Starts : log[n].err = "exists" /\ log[n].status # 0 => log[n].status = 409

\* docs/phase3/specs/01-contracts-and-topics.md:50 and :209: insufficient funds
\* are answered with 422.
FundsIs422 ==
    \A n \in Starts : log[n].err = "funds" /\ log[n].status # 0 => log[n].status = 422

-----------------------------------------------------------------------------
(* What the properties rest on.                                            *)

\* The routes of the two fronts.
ASSUME RoutesAssumption ==
    \A r \in Requests :
       /\ \/ /\ r.front = "gateway"
             /\ r.kind \in {"start", "get", "decide", "reviews", "wallet", "balance",
                            "page", "verify", "status"}
          \/ /\ r.front = "api"
             /\ r.kind \in {"wallet", "balance", "page", "transfer"}
       /\ r.payment \in Payments \cup {None}
       /\ r.token.user \in Users \cup {None}

Keys == Payments \cup {r.key : r \in Requests}

Cursors == {<<>>} \cup (Nat \X Entries)

Errors == {"none", "exists", "unverified", "funds", "not_found", "not_under_review",
           "unsupported_currency", "invalid", "not_allowed", "internal"}

LogRecords ==
    [req : Requests, at : Nat, payment : Payments \cup {None}, key : Keys,
     cursor : Cursors, page : SUBSET Entries, err : Errors, status : Nat,
     step : {"insert", "find", "advance", "serve", "page", "transfer", "done"}]

SagaRows ==
    [user : Users, key : Keys, body : {r.body : r \in Requests},
     state : {"STARTED", "MOVED", "FAILED", "CHECKED"}, by : Nat]

\* None is neither a row nor a cursor.
ASSUME NoneAssumption == None \notin SagaRows /\ None \notin [at : Nat, id : Entries]

TypeOK ==
    /\ clock \in Nat
    /\ bucket \in [Users -> {NoBucket} \cup [tokens : 0..Burst, last : 0..clock]]
    /\ log \in Seq(LogRecords)
    /\ sagas \in [Payments -> {None} \cup SagaRows]
    /\ entry \in [Entries -> {None} \cup 0..clock]
    /\ walk \in [cursor : Cursors, seen : [Entries -> Nat], start : SUBSET Entries,
                 state : {"new", "reading", "done"}]
    /\ lost \in Nat

\* What a service does for a request until it is done.
StepsOf(r) ==
    CASE r.kind = "start"    -> {"insert", "find", "advance", "done"}
      [] r.kind = "page"     -> {"page", "done"}
      [] r.kind = "transfer" -> {"transfer", "done"}
      [] OTHER               -> {"serve", "done"}

StepsInv == \A n \in 1..Len(log) : log[n].step \in StepsOf(log[n].req)

\* A row is that of a start, and alone with its user and key.
RowInv(p) ==
    sagas[p] # None =>
       /\ \E n \in Starts : SameStartPayload(n, p) /\ sagas[p].by = n
       /\ \A q \in Payments :
             /\ sagas[q] # None /\ sagas[q].user = sagas[p].user /\ sagas[q].key = sagas[p].key
             => q = p

\* Requests whose payment has a row that is as they asked.
Matched(n) == \/ log[n].step = "advance"
              \/ log[n].step = "done" /\ log[n].err = "none" /\ log[n].status \in {0, 202}

\* A start knows its payment and key.  While it looks for a duplicate there is
\* one; once it advances, or has succeeded, the row is as it asked.
StartInv(n) ==
    /\ log[n].payment \in Payments
    /\ log[n].req.payment # None => log[n].payment = log[n].req.payment
    /\ log[n].key = KeyOf(log[n].req, log[n].payment)
    /\ log[n].step # "done" => log[n].req.token.user # None /\ log[n].err = "none"
    /\ log[n].step = "find" => Duplicate(n)
    /\ Matched(n) => SameStartPayload(n, log[n].payment)
    /\ log[n].status = 202 => log[n].step = "done" /\ log[n].err = "none"

StartsInv ==
    /\ \A p \in Payments : RowInv(p)
    /\ \A n \in Starts : StartInv(n)
    /\ RetryNeverConflicts

\* The requests of u that were let through since s.
Taken(u, s) == Cardinality(Through(u, s, clock))

\* The refills after s, if last is the instant of one.
Periods(last, s) == (last - s + RefillEvery - 1) \div RefillEvery

\* The tokens in a bucket and those taken since s are at most the burst and the
\* refills since.
NotTooMany(u, b, s) == Taken(u, s) + b.tokens <= Burst + Periods(b.last, s)

\* Since some instant, when the bucket was full, they are not less.
NotTooFew(u, b) ==
    \E s, k \in 0..b.last : b.last = s + k * RefillEvery /\ Taken(u, s) + b.tokens >= Burst + k

BucketInv(u) ==
    /\ bucket[u] = NoBucket => Through(u, 0, clock) = {}
    /\ bucket[u] # NoBucket =>
          /\ \E t \in bucket[u].last..clock :
                /\ t < bucket[u].last + RefillEvery
                /\ \A n \in Through(u, 0, clock) : log[n].at <= t
                /\ \A s \in 0..t : NotTooMany(u, bucket[u], s)
          /\ NotTooFew(u, bucket[u])

Budget(u, s, t) == Cardinality(Through(u, s, t)) <= Burst + (t - s) \div RefillEvery + 1

\* A request of u was turned away at t; the user had been let through often enough.
Denied(u, t) == \E n \in 1..Len(log) :
                    log[n].status = 429 /\ log[n].req.token.user = u /\ log[n].at = t

OverBudget(u, t) ==
    \E s \in 0..t : Cardinality(Through(u, s, t)) >= Burst + (t - s) \div RefillEvery

LimiterInv ==
    /\ \A n \in 1..Len(log) : log[n].at <= clock
    /\ \A u \in Users : BucketInv(u)
    /\ \A u \in Users : \A t \in 0..clock : \A s \in 0..t : Budget(u, s, t)
    /\ \A u \in Users \cup {None} : \A t \in 0..clock : Denied(u, t) => OverBudget(u, t)

\* The pages on their way.
Pending == {n \in Open : log[n].req.kind = "page"}

\* A page asked for from cursor c, and the next cursor d: entries between the
\* two, and of those all that were there when the walk began.
Brings(page, c, d) ==
    /\ \A e \in page : entry[e] # None /\ Below(e, c) /\ (d # None => ~Below(e, d))
    /\ \A e \in walk.start \ page : Below(e, c) => d # None /\ Below(e, d)
    /\ \A e \in Entries : walk.seen[e] = 1 /\ d # None => ~Below(e, d)

PendingInv(n) ==
    \/ log[n].step = "page" /\ log[n].err = "none" /\ log[n].cursor = walk.cursor
    \/ log[n].step = "done" /\ log[n].err \in {"not_found", "internal"}
    \/ /\ log[n].step = "done" /\ log[n].err = "none"
       /\ Brings(log[n].page, QueryCursor(walk.cursor), QueryCursor(log[n].cursor))

\* What a walk has seen is above its cursor c; what it must see yet is below.
Divides(c) ==
    \A e \in Entries : /\ walk.seen[e] = 1 => ~Below(e, c)
                       /\ e \in walk.start /\ walk.seen[e] = 0 => Below(e, c)

WalkInv ==
    /\ \A e \in Entries : walk.seen[e] \in {0, 1}
    /\ \A e \in Entries : walk.seen[e] = 1 \/ e \in walk.start => entry[e] # None
    /\ walk.state = "new" => walk.cursor = <<>> /\ Pending = {}
    /\ walk.state = "done" => Pending = {} /\ \A e \in walk.start : walk.seen[e] = 1
    /\ walk.state # "done" => Divides(QueryCursor(walk.cursor))
    /\ \A m, n \in Pending : m = n
    /\ \A n \in Pending : PendingInv(n)

GatewayInv == TypeOK /\ StepsInv /\ StartsInv /\ LimiterInv /\ WalkInv

=============================================================================
