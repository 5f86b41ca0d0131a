---------------------------- MODULE RateLimiter -----------------------------
(***************************************************************************)
(* The token buckets of internal/gateway/middleware: one for every         *)
(* authenticated user, kept in the memory of the gateway behind a mutex    *)
(* that makes each decision one step.  Time passes in ticks, finer than    *)
(* RATE_LIMIT_REFILL_EVERY.                                                *)
(***************************************************************************)
EXTENDS Integers, FiniteSets

CONSTANTS
    Users,
    Burst,         \* RATE_LIMIT_BURST
    RefillEvery,   \* RATE_LIMIT_REFILL_EVERY, in ticks
    MaxClock       \* bound: the time a behaviour lasts

ASSUME LimiterAssumption ==
    Burst \in Nat \ {0} /\ RefillEvery \in Nat \ {0} /\ MaxClock \in Nat

VARIABLES
    clock,
    bucket         \* by user; NoBucket before the first request

NoBucket == [tokens |-> -1, last |-> -1]

Smaller(a, b) == IF a < b THEN a ELSE b

LimiterInit ==
    /\ clock = 0
    /\ bucket = [u \in Users |-> NoBucket]

\* Mutant of Refilled: a period counts again at every request.
RefilledAgain(b) ==
    [b EXCEPT !.tokens = Smaller(Burst, @ + (clock - b.last) \div RefillEvery)]

\* Mutant of Refilled: the part of a period that has passed is lost.
RefilledLate(b) ==
    LET n == (clock - b.last) \div RefillEvery
    IN  [tokens |-> Smaller(Burst, b.tokens + n), last |-> clock]

\* The bucket b with the whole periods that have passed added to it; the
\* rest of the period still counts for the next token.
Refilled(b) ==
    LET n == (clock - b.last) \div RefillEvery
    IN  [tokens |-> Smaller(Burst, b.tokens + n), last |-> b.last + n * RefillEvery]

\* The bucket a request of u finds.
Found(u) == IF bucket[u] = NoBucket THEN [tokens |-> Burst, last |-> clock]
                                    ELSE Refilled(bucket[u])

Allowed(u) == Found(u).tokens > 0

\* allow: the decision, and the token it takes.
Allow(u) ==
    bucket' = [bucket EXCEPT ![u] =
                  [Found(u) EXCEPT !.tokens = IF @ > 0 THEN @ - 1 ELSE @]]

Tick == clock < MaxClock /\ clock' = clock + 1

=============================================================================
