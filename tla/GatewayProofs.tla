--------------------------- MODULE GatewayProofs ----------------------------
(***************************************************************************)
(* What the gateway keeps, for any requests of its routes, users, payments *)
(* and ledger entries, any burst, refill period and page size: an accepted *)
(* payment is recorded, a retry never conflicts with itself, the limiter   *)
(* gives neither too much nor too little, and a walk over the ledger sees  *)
(* every entry once.                                                       *)
(***************************************************************************)
EXTENDS Gateway, FiniteSetTheorems, TLAPS

-----------------------------------------------------------------------------
(* Whole periods.                                                          *)

\* How many whole d there are in x.
LEMMA Quotient ==
    ASSUME NEW x \in Int, NEW d \in Nat \ {0}
    PROVE  /\ x \div d \in Int
           /\ (x \div d) * d <= x
           /\ x < (x \div d) * d + d
OBVIOUS

\* Multiples of d are d apart.
LEMMA Multiples ==
    ASSUME NEW a \in Int, NEW b \in Int, NEW d \in Nat \ {0}, a * d < b * d + d
    PROVE  a <= b
<1> SUFFICES ASSUME a >= b + 1 PROVE FALSE
  OBVIOUS
<1>1. PICK c \in Nat : a = b + 1 + c
  <2>1. a - b - 1 \in Nat /\ a = b + 1 + (a - b - 1)
    OBVIOUS
  <2> QED BY Zenon, <2>1
<1>2. a * d = b * d + d + c * d
  BY <1>1
<1>3. c * d >= 0 /\ c * d \in Nat /\ b * d \in Int
  OBVIOUS
<1> QED BY <1>2, <1>3

\* The quotient is the only number between.
LEMMA QuotientIs ==
    ASSUME NEW x \in Int, NEW q \in Int, NEW d \in Nat \ {0}, q * d <= x, x < q * d + d
    PROVE  x \div d = q
<1>1. PICK a \in Int : a = x \div d
  BY Zenon, Quotient
<1>2. a * d <= x /\ x < a * d + d
  BY Zenon, <1>1, Quotient
<1>3. a * d \in Int /\ q * d \in Int
  BY <1>1
<1>4. a * d < q * d + d /\ q * d < a * d + d
  BY <1>2, <1>3
<1>5. a <= q /\ q <= a
  BY Zenon, <1>4, Multiples
<1> QED BY <1>1, <1>5

\* The quotient of a number that is n times d larger is n larger.
LEMMA QuotientShift ==
    ASSUME NEW x \in Int, NEW n \in Int, NEW d \in Nat \ {0}
    PROVE  (x + n * d) \div d = x \div d + n
<1>1. PICK q \in Int : q = x \div d
  BY Zenon, Quotient
<1>2. q * d <= x /\ x < q * d + d
  BY Zenon, <1>1, Quotient
<1>3. PICK y \in Int : y = x + n * d
  OBVIOUS
<1>4. (q + n) * d = q * d + n * d /\ q * d \in Int /\ n * d \in Int /\ q + n \in Int
  BY <1>1
<1>5. (q + n) * d <= y /\ y < (q + n) * d + d
  BY <1>2, <1>3, <1>4
<1>6. y \div d = q + n
  BY Zenon, <1>3, <1>4, <1>5, QuotientIs
<1> QED BY Zenon, <1>1, <1>3, <1>6

\* More of x has no fewer.
LEMMA QuotientGrows ==
    ASSUME NEW x \in Int, NEW y \in Int, NEW d \in Nat \ {0}, x <= y
    PROVE  x \div d <= y \div d
<1>1. PICK a \in Int : a = x \div d
  BY Zenon, Quotient
<1>2. PICK b \in Int : b = y \div d
  BY Zenon, Quotient
<1>3. a * d <= x /\ y < b * d + d
  BY Zenon, <1>1, <1>2, Quotient
<1>4. a * d \in Int /\ b * d \in Int
  BY <1>1, <1>2
<1>5. a * d < b * d + d
  BY <1>3, <1>4
<1>6. a <= b
  BY Zenon, <1>5, Multiples
<1> QED BY Zenon, <1>1, <1>2, <1>6

\* The refills after s: one more for each period, none before, and not more than
\* the periods that ended, and one.
LEMMA PeriodsFacts ==
    ASSUME NEW last \in Nat, NEW s \in Nat
    PROVE  /\ Periods(last, s) \in Int
           /\ \A n \in Nat : Periods(last + n * RefillEvery, s) = Periods(last, s) + n
           /\ s < last + RefillEvery => Periods(last, s) >= 0
           /\ \A t \in Nat : last <= t => Periods(last, s) <= (t - s) \div RefillEvery + 1
<1>1. RefillEvery \in Nat \ {0}
  BY Zenon, LimiterAssumption
<1>2. PICK d \in Nat \ {0} : d = RefillEvery
  BY Zenon, <1>1
<1>3. PICK x \in Int : x = last - s + d - 1
  BY <1>2
<1>4. Periods(last, s) = x \div d
  BY Zenon, <1>2, <1>3 DEF Periods
<1>5. x \div d \in Int
  BY Zenon, Quotient
<1>6. ASSUME NEW n \in Nat PROVE Periods(last + n * RefillEvery, s) = x \div d + n
  <2>1. n * d \in Int /\ n \in Int
    BY <1>6
  <2>2. (last + n * d) - s + d - 1 = x + n * d
    BY <1>3, <2>1
  <2>3. (x + n * d) \div d = x \div d + n
    BY Zenon, <2>1, QuotientShift
  <2> QED BY Zenon, <1>2, <2>2, <2>3 DEF Periods
<1>7. s < last + RefillEvery => x \div d >= 0
  <2>1. s < last + RefillEvery => 0 <= x
    BY <1>2, <1>3
  <2>2. 0 \div d = 0
    <3>1. PICK z \in Int : z = 0
      OBVIOUS
    <3>2. z * d <= z /\ z < z * d + d
      BY <1>2, <3>1
    <3>3. z \div d = z
      BY <3>2, QuotientIs
    <3> QED BY Zenon, <3>1, <3>3
  <2>3. 0 \in Int
    OBVIOUS
  <2>4. 0 <= x => 0 \div d <= x \div d
    BY Zenon, <2>3, QuotientGrows
  <2> QED BY <1>5, <2>1, <2>2, <2>4
<1>8. ASSUME NEW t \in Nat, last <= t PROVE x \div d <= (t - s) \div RefillEvery + 1
  <2>1. PICK y \in Int : y = t - s
    BY <1>8
  <2>2. y + 1 * d \in Int /\ x <= y + 1 * d /\ 1 \in Int
    BY <1>3, <1>8, <2>1
  <2>3. (y + 1 * d) \div d = y \div d + 1
    BY Zenon, <2>2, QuotientShift
  <2>4. x \div d <= (y + 1 * d) \div d
    BY Zenon, <2>2, QuotientGrows
  <2> QED BY Zenon, <1>2, <2>1, <2>3, <2>4
<1> QED BY Zenon, <1>2, <1>4, <1>5, <1>6, <1>7, <1>8

-----------------------------------------------------------------------------
(* Pages.                                                                  *)

\* A set of natural numbers that is not empty has a least element.
LEMMA LeastNumber ==
    ASSUME NEW T, T \subseteq Nat, T # {}
    PROVE  \E x \in T : \A y \in T : ~(y < x)
<1>1. PICK x \in T : \A y \in T : ~(<<y, x>> \in OpToRel(<, Nat))
  BY Zenon, NatLessThanWellFounded, WFMin
<1>2. \A y \in T : y < x => <<y, x>> \in OpToRel(<, Nat)
  BY DEF OpToRel
<1> QED BY Zenon, <1>1, <1>2

\* Entries that are in the table.
Stored == {e \in Entries : entry[e] # None}

\* What is known of them.
Timed == \A e \in Stored : e \in Nat /\ entry[e] \in Nat

\* Newer is a strict total order on them.
LEMMA NewerOrders ==
    ASSUME Timed
    PROVE  /\ \A e \in Stored : ~Newer(e, e)
           /\ \A e, f \in Stored : e = f \/ Newer(e, f) \/ Newer(f, e)
           /\ \A e, f, g \in Stored : Newer(e, f) /\ Newer(f, g) => Newer(e, g)
<1>1. \A e \in Stored : ~Newer(e, e)
  BY DEF Timed, Newer
<1>2. \A e, f \in Stored : e = f \/ Newer(e, f) \/ Newer(f, e)
  BY DEF Timed, Newer
<1>3. \A e, f, g \in Stored : Newer(e, f) /\ Newer(f, g) => Newer(e, g)
  BY DEF Timed, Newer
<1> QED BY Zenon, <1>1, <1>2, <1>3

\* The entries of S newer than e.
Above(e, S) == {f \in S : Newer(f, e)}

\* Counting the newer ones follows the order.
LEMMA CountsOrder ==
    ASSUME Timed, NEW S, S \subseteq Stored, IsFiniteSet(S), NEW e \in S, NEW f \in S, Newer(f, e)
    PROVE  /\ Above(f, S) \subseteq Above(e, S)
           /\ Cardinality(Above(f, S)) < Cardinality(Above(e, S))
<1>1. Above(f, S) \subseteq Above(e, S)
  BY Zenon, NewerOrders DEF Above
<1>2. f \in Above(e, S) /\ f \notin Above(f, S)
  BY Zenon, NewerOrders DEF Above
<1>3. Above(e, S) \subseteq S
  BY Zenon DEF Above
<1>4. IsFiniteSet(Above(e, S)) /\ IsFiniteSet(Above(f, S))
  BY Zenon, <1>1, <1>3, FS_Subset
<1>5. /\ Cardinality(Above(f, S)) <= Cardinality(Above(e, S))
      /\ Cardinality(Above(e, S)) # Cardinality(Above(f, S))
  BY Zenon, <1>1, <1>2, <1>4, FS_Subset
<1>6. Cardinality(Above(e, S)) \in Nat /\ Cardinality(Above(f, S)) \in Nat
  BY Zenon, <1>4, FS_CardinalityType
<1> QED BY <1>1, <1>5, <1>6

\* A set of entries that is not empty has one with the fewest newer ones in S.
LEMMA FewestAbove ==
    ASSUME Timed, NEW S, S \subseteq Stored, IsFiniteSet(S), NEW T, T \subseteq S, T # {}
    PROVE  \E e \in T : \A f \in T : ~Newer(f, e)
<1>1. PICK counts : counts = {Cardinality(Above(e, S)) : e \in T}
  BY Zenon
<1>2. counts \subseteq Nat /\ counts # {}
  <2>1. \A e \in T : IsFiniteSet(Above(e, S))
    <3>1. \A e \in T : Above(e, S) \subseteq S
      BY Zenon DEF Above
    <3> QED BY Zenon, <3>1, FS_Subset
  <2>2. \A e \in T : Cardinality(Above(e, S)) \in Nat
    BY Zenon, <2>1, FS_CardinalityType
  <2> QED BY Zenon, <1>1, <2>2
<1>3. PICK c \in counts : \A y \in counts : ~(y < c)
  BY Zenon, <1>2, LeastNumber
<1>4. PICK e \in T : c = Cardinality(Above(e, S))
  BY Zenon, <1>1, <1>3
<1>5. \A f \in T : ~(Cardinality(Above(f, S)) < Cardinality(Above(e, S)))
  BY Zenon, <1>1, <1>3, <1>4
<1>6. \A f \in T : ~Newer(f, e)
  BY Zenon, <1>5, CountsOrder
<1> QED BY Zenon, <1>6

\* The oldest of some entries.
LEMMA Oldest ==
    ASSUME Timed, NEW T, T \subseteq Stored, T # {}
    PROVE  \E e \in T : \A f \in T \ {e} : Newer(f, e)
<1>1. PICK times : times = {entry[e] : e \in T}
  BY Zenon
<1>2. times \subseteq Nat /\ times # {}
  BY Zenon, <1>1 DEF Timed
<1>3. PICK t \in times : \A y \in times : ~(y < t)
  BY Zenon, <1>2, LeastNumber
<1>4. PICK ids : ids = {e \in T : entry[e] = t}
  BY Zenon
<1>5. ids \subseteq Nat /\ ids # {}
  BY Zenon, <1>1, <1>3, <1>4 DEF Timed
<1>6. PICK e \in ids : \A y \in ids : ~(y < e)
  BY Zenon, <1>5, LeastNumber
<1>7. e \in T /\ entry[e] = t
  BY Zenon, <1>4, <1>6
<1>8. ASSUME NEW f \in T \ {e} PROVE Newer(f, e)
  <2>1. f \in Nat /\ e \in Nat /\ entry[f] \in Nat /\ entry[e] \in Nat
    BY Zenon, <1>7, <1>8 DEF Timed
  <2>2. ~(entry[f] < entry[e])
    BY Zenon, <1>1, <1>3, <1>7, <1>8
  <2>3. entry[f] = entry[e] => ~(f < e)
    BY Zenon, <1>4, <1>6, <1>7, <1>8
  <2>4. f # e
    BY Zenon, <1>8
  <2> QED BY <2>1, <2>2, <2>3, <2>4 DEF Newer
<1> QED BY Zenon, <1>7, <1>8

-----------------------------------------------------------------------------
(* Records of the log.                                                     *)

\* Request n goes on: nothing else of the log changes, and nothing of what the
\* client sent.
Becomes(n, step, err, status, cursor, page) ==
    /\ log' \in Seq(LogRecords) /\ Len(log') = Len(log)
    /\ \A m \in 1..Len(log) : m # n => log'[m] = log[m]
    /\ /\ log'[n].req = log[n].req /\ log'[n].at = log[n].at
       /\ log'[n].payment = log[n].payment /\ log'[n].key = log[n].key
    /\ /\ log'[n].step = step /\ log'[n].err = err /\ log'[n].status = status
       /\ log'[n].cursor = cursor /\ log'[n].page = page

\* A request of the log has the fields of one.
LEMMA LogFields ==
    ASSUME log \in Seq(LogRecords), NEW n \in 1..Len(log)
    PROVE  /\ log[n] \in LogRecords
           /\ log[n].req \in Requests /\ log[n].at \in Nat /\ log[n].key \in Keys
           /\ log[n].payment \in Payments \cup {None}
           /\ log[n].cursor \in Cursors /\ log[n].page \in SUBSET Entries
           /\ log[n].err \in Errors /\ log[n].status \in Nat
           /\ log[n].step \in {"insert", "find", "advance", "serve", "page", "transfer", "done"}
<1>1. log[n] \in LogRecords
  OBVIOUS
<1> HIDE DEF Keys, Cursors, Errors
<1> QED BY <1>1 DEF LogRecords

\* The log with one record replaced.
LEMMA LogReplaced ==
    ASSUME log \in Seq(LogRecords), NEW n \in 1..Len(log), NEW rec \in LogRecords,
           log' = [log EXCEPT ![n] = rec]
    PROVE  /\ log' \in Seq(LogRecords) /\ Len(log') = Len(log)
           /\ \A m \in 1..Len(log) : m # n => log'[m] = log[m]
           /\ log'[n] = rec
OBVIOUS

\* Replacing a record by one with other results.
LEMMA LogResults ==
    ASSUME log \in Seq(LogRecords), NEW n \in 1..Len(log),
           NEW step \in {"insert", "find", "advance", "serve", "page", "transfer", "done"},
           NEW err \in Errors, NEW status \in Nat, NEW cursor \in Cursors,
           NEW page \in SUBSET Entries,
           log' = [log EXCEPT ![n] = [req |-> log[n].req, at |-> log[n].at,
                                      payment |-> log[n].payment, key |-> log[n].key,
                                      cursor |-> cursor, page |-> page, err |-> err,
                                      status |-> status, step |-> step]]
    PROVE  Becomes(n, step, err, status, cursor, page)
<1>1. PICK rec : rec = [req |-> log[n].req, at |-> log[n].at,
                        payment |-> log[n].payment, key |-> log[n].key,
                        cursor |-> cursor, page |-> page, err |-> err,
                        status |-> status, step |-> step]
  BY Zenon
<1>2. rec \in LogRecords
  BY <1>1, LogFields DEF LogRecords
<1>3. /\ log' \in Seq(LogRecords) /\ Len(log') = Len(log)
      /\ \A m \in 1..Len(log) : m # n => log'[m] = log[m]
      /\ log'[n] = rec
  BY Zenon, <1>1, <1>2, LogReplaced
<1>4. /\ rec.req = log[n].req /\ rec.at = log[n].at
      /\ rec.payment = log[n].payment /\ rec.key = log[n].key
      /\ rec.step = step /\ rec.err = err /\ rec.status = status
      /\ rec.cursor = cursor /\ rec.page = page
  BY <1>1
<1> QED BY Zenon, <1>3, <1>4 DEF Becomes

\* A record is its fields.
LEMMA LogRecordIs ==
    ASSUME log \in Seq(LogRecords), NEW n \in 1..Len(log)
    PROVE  log[n] = [req |-> log[n].req, at |-> log[n].at,
                     payment |-> log[n].payment, key |-> log[n].key,
                     cursor |-> log[n].cursor, page |-> log[n].page, err |-> log[n].err,
                     status |-> log[n].status, step |-> log[n].step]
<1>1. log[n] \in LogRecords
  OBVIOUS
<1> QED BY <1>1 DEF LogRecords

\* The forms in which the actions write the log.
LEMMA LogWrites ==
    ASSUME log \in Seq(LogRecords), NEW n \in 1..Len(log)
    PROVE  /\ \A step \in {"find", "advance"} :
                 Goto(n, step) => Becomes(n, step, log[n].err, log[n].status,
                                          log[n].cursor, log[n].page)
           /\ \A err \in Errors :
                 Return(n, err) => Becomes(n, "done", err, log[n].status,
                                           log[n].cursor, log[n].page)
           /\ \A cursor \in Cursors, page \in SUBSET Entries :
                 log' = [log EXCEPT ![n].step = "done", ![n].page = page, ![n].cursor = cursor]
                 => Becomes(n, "done", log[n].err, log[n].status, cursor, page)
           /\ \A status \in Nat :
                 log' = [log EXCEPT ![n].status = status, ![n].page = {}, ![n].cursor = <<>>]
                 => Becomes(n, log[n].step, log[n].err, status, <<>>, {})
           /\ \A status \in Nat :
                 log' = [log EXCEPT ![n].status = status]
                 => Becomes(n, log[n].step, log[n].err, status, log[n].cursor, log[n].page)
<1> DEFINE Rec(step, err, status, cursor, page) ==
              [req |-> log[n].req, at |-> log[n].at, payment |-> log[n].payment,
               key |-> log[n].key, cursor |-> cursor, page |-> page, err |-> err,
               status |-> status, step |-> step]
<1>1. log[n] = Rec(log[n].step, log[n].err, log[n].status, log[n].cursor, log[n].page)
  BY Zenon, LogRecordIs
<1>2. \A step \in {"find", "advance"} :
        Goto(n, step)
        => log' = [log EXCEPT ![n] = Rec(step, log[n].err, log[n].status,
                                         log[n].cursor, log[n].page)]
  BY Zenon, <1>1 DEF Goto
<1>3. \A err \in Errors :
        Return(n, err)
        => log' = [log EXCEPT ![n] = Rec("done", err, log[n].status,
                                         log[n].cursor, log[n].page)]
  BY Zenon, <1>1 DEF Return
<1>4. \A cursor \in Cursors, page \in SUBSET Entries :
        log' = [log EXCEPT ![n].step = "done", ![n].page = page, ![n].cursor = cursor]
        => log' = [log EXCEPT ![n] = Rec("done", log[n].err, log[n].status, cursor, page)]
  BY Zenon, <1>1
<1>5. \A status \in Nat :
        log' = [log EXCEPT ![n].status = status, ![n].page = {}, ![n].cursor = <<>>]
        => log' = [log EXCEPT ![n] = Rec(log[n].step, log[n].err, status, <<>>, {})]
  BY Zenon, <1>1
<1>6. \A status \in Nat :
        log' = [log EXCEPT ![n].status = status]
        => log' = [log EXCEPT ![n] = Rec(log[n].step, log[n].err, status,
                                         log[n].cursor, log[n].page)]
  BY Zenon, <1>1
<1>7. /\ log[n].cursor \in Cursors /\ log[n].page \in SUBSET Entries
      /\ log[n].err \in Errors /\ log[n].status \in Nat
      /\ log[n].step \in {"insert", "find", "advance", "serve", "page", "transfer", "done"}
  BY Zenon, LogFields
<1>8. <<>> \in Cursors /\ {} \in SUBSET Entries
  BY Zenon DEF Cursors
<1> HIDE DEF Rec
<1>9. \A step \in {"insert", "find", "advance", "serve", "page", "transfer", "done"},
         err \in Errors, status \in Nat, cursor \in Cursors, page \in SUBSET Entries :
        log' = [log EXCEPT ![n] = Rec(step, err, status, cursor, page)]
        => Becomes(n, step, err, status, cursor, page)
  BY Zenon, LogResults DEF Rec
<1>10. ASSUME NEW step \in {"find", "advance"}, Goto(n, step)
       PROVE  Becomes(n, step, log[n].err, log[n].status, log[n].cursor, log[n].page)
  <2>1. step \in {"insert", "find", "advance", "serve", "page", "transfer", "done"}
    BY Zenon
  <2>2. log' = [log EXCEPT ![n] = Rec(step, log[n].err, log[n].status,
                                      log[n].cursor, log[n].page)]
    BY Zenon, <1>2, <1>10
  <2> QED BY Zenon, <1>7, <1>9, <2>1, <2>2
<1>11. \A err \in Errors :
         Return(n, err) => Becomes(n, "done", err, log[n].status,
                                   log[n].cursor, log[n].page)
  BY Zenon, <1>3, <1>7, <1>9
<1>12. \A cursor \in Cursors, page \in SUBSET Entries :
         log' = [log EXCEPT ![n].step = "done", ![n].page = page, ![n].cursor = cursor]
         => Becomes(n, "done", log[n].err, log[n].status, cursor, page)
  BY Zenon, <1>4, <1>7, <1>9
<1>13. \A status \in Nat :
         log' = [log EXCEPT ![n].status = status, ![n].page = {}, ![n].cursor = <<>>]
         => Becomes(n, log[n].step, log[n].err, status, <<>>, {})
  BY Zenon, <1>5, <1>7, <1>8, <1>9
<1>14. \A status \in Nat :
         log' = [log EXCEPT ![n].status = status]
         => Becomes(n, log[n].step, log[n].err, status, log[n].cursor, log[n].page)
  BY Zenon, <1>6, <1>7, <1>9
<1> QED BY Zenon, <1>10, <1>11, <1>12, <1>13, <1>14

-----------------------------------------------------------------------------
(* The limiter.                                                            *)

\* No request is let through or turned away, and no time passes.
Quiet ==
    /\ clock' = clock /\ bucket' = bucket
    /\ log \in Seq(LogRecords) /\ log' \in Seq(LogRecords) /\ Len(log) <= Len(log')
    /\ \A n \in 1..Len(log) :
          /\ log'[n].req = log[n].req /\ log'[n].at = log[n].at
          /\ log'[n].status = log[n].status \/ (log[n].status = 0 /\ log'[n].status \notin {401, 429})
    /\ \A n \in 1..Len(log') : n \notin 1..Len(log) =>
          /\ log'[n].at = clock /\ log'[n].status # 429
          /\ log'[n].req.front # "gateway" \/ log'[n].status = 401

\* Which records are counted, and which the next state counts.
LEMMA ThroughIs ==
    ASSUME NEW u, NEW s, NEW t
    PROVE  /\ \A n : n \in Through(u, s, t) <=> n \in 1..Len(log) /\ Counted(log[n], u, s, t)
           /\ \A n : n \in Through(u, s, t)' <=> n \in 1..Len(log') /\ Counted(log'[n], u, s, t)
           /\ \A n : n \in Through(u, s, clock)' <=>
                        n \in 1..Len(log') /\ Counted(log'[n], u, s, clock')
BY Zenon DEF Through

\* Then the same requests are let through and turned away.
LEMMA QuietThrough ==
    ASSUME Quiet
    PROVE  /\ \A u, s, t : Through(u, s, t)' = Through(u, s, t)
           /\ \A u, s : Through(u, s, clock)' = Through(u, s, clock)
           /\ \A u, t : Denied(u, t)' => Denied(u, t)
<1>1. \A n \in 1..Len(log) : n \in 1..Len(log')
  BY DEF Quiet
<1>2. clock' = clock
  BY Zenon DEF Quiet
<1>3. \A n \in 1..Len(log) :
         /\ log'[n].req = log[n].req /\ log'[n].at = log[n].at
         /\ log'[n].status \in {401, 429} <=> log[n].status \in {401, 429}
         /\ log'[n].status = 429 <=> log[n].status = 429
  BY DEF Quiet
<1>4. \A n \in 1..Len(log') : n \notin 1..Len(log) =>
         /\ log'[n].req.front # "gateway" \/ log'[n].status \in {401, 429}
         /\ log'[n].status # 429
  BY DEF Quiet
<1>5. ASSUME NEW u, NEW s, NEW t PROVE Through(u, s, t)' = Through(u, s, t)
  <2>1. \A n \in 1..Len(log) : Counted(log'[n], u, s, t) <=> Counted(log[n], u, s, t)
    BY <1>3 DEF Counted, LetThrough
  <2>2. \A n \in 1..Len(log') : n \notin 1..Len(log) => ~Counted(log'[n], u, s, t)
    BY <1>4 DEF Counted, LetThrough
  <2>3. \A n : n \in Through(u, s, t)' <=> n \in Through(u, s, t)
    BY Zenon, <1>1, <2>1, <2>2, ThroughIs
  <2> QED BY Zenon, <2>3
<1>6. ASSUME NEW u, NEW s PROVE Through(u, s, clock)' = Through(u, s, clock)
  <2>1. \A n : n \in Through(u, s, clock)' <=> n \in Through(u, s, clock)
    <3>1. PICK t : t = clock
      BY Zenon
    <3>2. \A n \in 1..Len(log) : Counted(log'[n], u, s, t) <=> Counted(log[n], u, s, t)
      BY <1>3 DEF Counted, LetThrough
    <3>3. \A n \in 1..Len(log') : n \notin 1..Len(log) => ~Counted(log'[n], u, s, t)
      BY <1>4 DEF Counted, LetThrough
    <3> QED BY Zenon, <1>1, <1>2, <3>1, <3>2, <3>3, ThroughIs
  <2> QED BY Zenon, <2>1
<1>7. ASSUME NEW u, NEW t, Denied(u, t)' PROVE Denied(u, t)
  <2>1. PICK n \in 1..Len(log') :
           log'[n].status = 429 /\ log'[n].req.token.user = u /\ log'[n].at = t
    BY Zenon, <1>7 DEF Denied
  <2>2. n \in 1..Len(log)
    BY <1>4, <2>1
  <2>3. log[n].status = 429 /\ log[n].req.token.user = u /\ log[n].at = t
    BY <1>3, <2>1, <2>2
  <2> QED BY Zenon, <2>2, <2>3 DEF Denied
<1> QED BY Zenon, <1>5, <1>6, <1>7

\* And the limiter is as before.
LEMMA QuietLimiter ==
    ASSUME clock \in Nat, LimiterInv, Quiet
    PROVE  LimiterInv'
<1>1. clock' = clock /\ bucket' = bucket
  BY Zenon DEF Quiet
<1>2. \A u, s : Taken(u, s)' = Taken(u, s)
  BY Zenon, QuietThrough DEF Taken
<1>3. \A n \in 1..Len(log') : log'[n].at <= clock'
  <2>1. ASSUME NEW n \in 1..Len(log), log[n].at <= clock PROVE log'[n].at <= clock
    BY <2>1 DEF Quiet
  <2>2. ASSUME NEW n \in 1..Len(log'), n \notin 1..Len(log) PROVE log'[n].at <= clock
    <3>1. log'[n].at = clock
      BY <2>2 DEF Quiet
    <3> QED BY <3>1
  <2> QED BY Zenon, <1>1, <2>1, <2>2 DEF LimiterInv
<1>4. ASSUME NEW u \in Users PROVE BucketInv(u)'
  <2>1. BucketInv(u)
    BY Zenon DEF LimiterInv
  <2>2. \A n \in Through(u, 0, clock) : log'[n].at = log[n].at
    BY Zenon DEF Quiet, Through, Counted
  <2>3. \A s : NotTooMany(u, bucket[u], s) => NotTooMany(u, bucket[u], s)'
    BY Zenon, <1>1, <1>2 DEF NotTooMany
  <2>4. NotTooFew(u, bucket[u]) => NotTooFew(u, bucket[u])'
    BY Zenon, <1>1, <1>2 DEF NotTooFew
  <2> QED BY Zenon, <1>1, <2>1, <2>2, <2>3, <2>4, QuietThrough DEF BucketInv
<1>5. ASSUME NEW u \in Users, NEW t \in 0..clock', NEW s \in 0..t PROVE Budget(u, s, t)'
  <2>1. Budget(u, s, t)
    BY Zenon, <1>1, <1>5 DEF LimiterInv
  <2> QED BY Zenon, <2>1, QuietThrough DEF Budget
<1>6. ASSUME NEW u \in Users \cup {None}, NEW t \in 0..clock', Denied(u, t)'
      PROVE  OverBudget(u, t)'
  <2>1. OverBudget(u, t)
    BY Zenon, <1>1, <1>6, QuietThrough DEF LimiterInv
  <2> QED BY Zenon, <2>1, QuietThrough DEF OverBudget
<1> QED BY Zenon, <1>3, <1>4, <1>5, <1>6 DEF LimiterInv

\* Requests let through are counted.
LEMMA ThroughFinite ==
    ASSUME log \in Seq(LogRecords), NEW u, NEW s, NEW t
    PROVE  IsFiniteSet(Through(u, s, t)) /\ Cardinality(Through(u, s, t)) \in Nat
<1>1. Through(u, s, t) \subseteq 1..Len(log)
  BY Zenon DEF Through, Counted
<1>2. Len(log) \in Nat /\ 1 \in Int /\ Len(log) \in Int
  OBVIOUS
<1>3. IsFiniteSet(1..Len(log))
  BY Zenon, <1>2, FS_Interval
<1>4. IsFiniteSet(Through(u, s, t))
  BY Zenon, <1>1, <1>3, FS_Subset
<1> QED BY Zenon, <1>4, FS_CardinalityType

\* What is to be known of a bucket b of u that is up to date.
Current(u, b) ==
    /\ b.tokens \in 0..Burst /\ b.last \in 0..clock /\ clock < b.last + RefillEvery
    /\ \A s \in 0..clock : NotTooMany(u, b, s)
    /\ NotTooFew(u, b)

\* A user's first bucket is full.
LEMMA FirstBucket ==
    ASSUME TypeOK, NEW u, Through(u, 0, clock) = {}, NEW b, b = [tokens |-> Burst, last |-> clock]
    PROVE  Current(u, b)
<1>1. clock \in Nat /\ Burst \in Nat \ {0} /\ RefillEvery \in Nat \ {0}
  BY Zenon, LimiterAssumption DEF TypeOK
<1>2. b.tokens = Burst /\ b.last = clock
  OBVIOUS
<1>3. \A s \in 0..clock : Taken(u, s) = 0
  <2>1. ASSUME NEW s \in 0..clock PROVE Through(u, s, clock) = {}
    <3>1. s..clock \subseteq 0..clock
      BY <1>1
    <3>2. Through(u, s, clock) \subseteq Through(u, 0, clock)
      BY Zenon, <3>1 DEF Through, Counted
    <3> QED BY Zenon, <3>2
  <2> QED BY Zenon, <2>1, FS_EmptySet DEF Taken
<1>4. ASSUME NEW s \in 0..clock PROVE NotTooMany(u, b, s)
  <2>1. s \in Nat /\ s < clock + RefillEvery
    BY <1>1
  <2>2. PICK p \in Int : p = Periods(b.last, s)
    BY Zenon, <1>1, <1>2, <2>1, PeriodsFacts
  <2>3. p >= 0
    BY Zenon, <1>1, <1>2, <2>1, <2>2, PeriodsFacts
  <2>4. 0 + Burst <= Burst + p
    BY <1>1, <2>3
  <2>5. Taken(u, s) = 0
    BY Zenon, <1>3
  <2> QED BY Zenon, <1>2, <2>2, <2>4, <2>5 DEF NotTooMany
<1>5. NotTooFew(u, b)
  <2>1. clock \in 0..b.last /\ 0 \in 0..b.last /\ b.last = clock + 0 * RefillEvery
    BY <1>1, <1>2
  <2>2. Taken(u, clock) = 0
    <3>1. clock \in 0..clock
      BY <1>1
    <3> QED BY Zenon, <1>3, <3>1
  <2>3. 0 + b.tokens >= Burst + 0
    BY <1>1, <1>2
  <2> QED BY Zenon, <2>1, <2>2, <2>3 DEF NotTooFew
<1>6. b.tokens \in 0..Burst /\ b.last \in 0..clock /\ clock < b.last + RefillEvery
  BY <1>1, <1>2
<1> QED BY Zenon, <1>4, <1>5, <1>6 DEF Current

\* A bucket that is refilled is up to date.
LEMMA RefilledBucket ==
    ASSUME TypeOK, LimiterInv, NEW u \in Users, bucket[u] # NoBucket,
           NEW b, b = Refilled(bucket[u])
    PROVE  Current(u, b)
<1>1. clock \in Nat /\ Burst \in Nat \ {0} /\ RefillEvery \in Nat \ {0}
  BY Zenon, LimiterAssumption DEF TypeOK
<1>2. bucket[u] \in [tokens : 0..Burst, last : 0..clock]
  BY Zenon DEF TypeOK
<1>3. PICK tokens \in 0..Burst : tokens = bucket[u].tokens
  BY <1>2
<1>4. PICK last \in 0..clock : last = bucket[u].last
  BY <1>2
<1>5. tokens \in Nat /\ last \in Nat /\ last <= clock /\ clock - last \in Int /\ tokens <= Burst
  BY <1>1, <1>3, <1>4
<1>6. PICK n \in Int : n = (clock - last) \div RefillEvery
  BY Zenon, <1>1, <1>5, Quotient
<1>7. PICK m \in Int : m = n * RefillEvery
  BY <1>1
<1>8. m <= clock - last /\ clock - last < m + RefillEvery
  BY Zenon, <1>1, <1>5, <1>6, <1>7, Quotient
<1>9. n \in Nat
  <2>1. 0 * RefillEvery < n * RefillEvery + RefillEvery
    BY <1>1, <1>5, <1>7, <1>8
  <2>2. 0 \in Int
    OBVIOUS
  <2>3. 0 <= n
    BY Zenon, <1>1, <2>1, <2>2, Multiples
  <2> QED BY <2>3
<1>10. n <= m
  <2>1. n * 1 <= n * RefillEvery
    BY <1>1, <1>9
  <2> QED BY <1>7, <2>1
<1>11. b.tokens = Smaller(Burst, tokens + n) /\ b.last = last + m
  BY Zenon, <1>3, <1>4, <1>6, <1>7 DEF Refilled
<1>12. PICK full \in Nat : full = b.tokens /\ full <= Burst /\ full <= tokens + n
                          /\ (full = Burst \/ full = tokens + n)
  BY <1>1, <1>5, <1>9, <1>11 DEF Smaller
<1>13. PICK now \in Nat : now = last + m
  BY <1>5, <1>9, <1>10
<1>14. now <= clock /\ clock < now + RefillEvery
  BY <1>1, <1>5, <1>8, <1>13
<1>15. b.tokens = full /\ b.last = now
  BY Zenon, <1>11, <1>12, <1>13
<1>16. \A s : Taken(u, s) \in Nat
  BY Zenon, ThroughFinite DEF Taken, TypeOK
<1>17. ASSUME NEW s \in 0..clock PROVE NotTooMany(u, b, s)
  <2>1. PICK t \in last..clock :
           /\ \A i \in Through(u, 0, clock) : log[i].at <= t
           /\ \A i \in 0..t : NotTooMany(u, bucket[u], i)
    <3>1. BucketInv(u)
      BY Zenon DEF LimiterInv
    <3>2. \E t \in bucket[u].last..clock :
             /\ \A i \in Through(u, 0, clock) : log[i].at <= t
             /\ \A i \in 0..t : NotTooMany(u, bucket[u], i)
      BY Zenon, <3>1 DEF BucketInv
    <3> QED BY Zenon, <1>4, <3>2
  <2>2. s \in Nat /\ t \in Nat /\ s < now + RefillEvery
    BY <1>1, <1>5, <1>14
  <2>3. PICK p \in Int : p = Periods(last, s)
    BY Zenon, <1>5, <2>2, PeriodsFacts
  <2>4. PICK q \in Int : q = Periods(now, s)
    BY Zenon, <1>13, <2>2, PeriodsFacts
  <2>5. q = p + n /\ q >= 0
    <3>1. Periods(last + n * RefillEvery, s) = Periods(last, s) + n
      BY <1>5, <1>9, <2>2, PeriodsFacts
    <3>2. q = p + n
      BY Zenon, <1>7, <1>13, <2>3, <2>4, <3>1
    <3>3. q >= 0
      BY Zenon, <1>13, <2>2, <2>4, PeriodsFacts
    <3> QED BY <3>2, <3>3
  <2>6. PICK taken \in Nat : taken = Taken(u, s)
    BY Zenon, <1>16
  <2>7. CASE s <= t
    <3>1. s \in 0..t
      BY <2>2, <2>7
    <3>2. taken + tokens <= Burst + p
      BY Zenon, <1>3, <1>4, <2>1, <2>3, <2>6, <3>1 DEF NotTooMany
    <3>3. taken + full <= Burst + q
      BY <1>1, <1>5, <1>9, <1>12, <2>5, <3>2
    <3> QED BY Zenon, <1>15, <2>4, <2>6, <3>3 DEF NotTooMany
  <2>8. CASE ~(s <= t)
    <3>1. Through(u, s, clock) = {}
      <4>1. s..clock \subseteq 0..clock
        BY <1>1, <2>2
      <4>2. \A i \in Through(u, s, clock) : i \in Through(u, 0, clock) /\ log[i].at \in s..clock
        BY Zenon, <4>1 DEF Through, Counted
      <4>3. \A a \in s..clock : ~(a <= t)
        BY <1>1, <2>2, <2>8
      <4> QED BY Zenon, <2>1, <4>2, <4>3
    <3>2. taken = 0
      BY Zenon, <2>6, <3>1, FS_EmptySet DEF Taken
    <3>3. taken + full <= Burst + q
      BY <1>1, <1>12, <2>5, <3>2
    <3> QED BY Zenon, <1>15, <2>4, <2>6, <3>3 DEF NotTooMany
  <2> QED BY Zenon, <2>7, <2>8
<1>18. NotTooFew(u, b)
  <2>1. CASE full = Burst
    <3>1. now \in 0..now /\ 0 \in 0..now /\ now = now + 0 * RefillEvery
      BY <1>1, <1>13
    <3>2. PICK taken \in Nat : taken = Taken(u, now)
      BY Zenon, <1>16
    <3>3. taken + full >= Burst + 0
      BY <1>1, <1>12, <2>1, <3>2
    <3> QED BY Zenon, <1>15, <3>1, <3>2, <3>3 DEF NotTooFew
  <2>2. CASE full = tokens + n
    <3>1. PICK s \in 0..last, k \in 0..last : last = s + k * RefillEvery
                                              /\ Taken(u, s) + tokens >= Burst + k
      BY Zenon, <1>3, <1>4 DEF LimiterInv, BucketInv, NotTooFew
    <3>2. PICK taken \in Nat : taken = Taken(u, s)
      BY Zenon, <1>16
    <3>3. PICK j \in Nat : j = k + n
      BY <1>5, <1>9
    <3>4. s \in 0..now /\ j \in 0..now
      BY <1>5, <1>9, <1>10, <1>13, <3>1, <3>3
    <3>5. now = s + j * RefillEvery
      <4>1. j * RefillEvery = k * RefillEvery + n * RefillEvery /\ k * RefillEvery \in Int
        BY <1>1, <1>5, <1>9, <3>3
      <4> QED BY <1>5, <1>7, <1>13, <3>1, <4>1
    <3>6. taken + full >= Burst + j
      BY <1>1, <1>5, <1>9, <2>2, <3>1, <3>2, <3>3
    <3> QED BY Zenon, <1>15, <3>2, <3>4, <3>5, <3>6 DEF NotTooFew
  <2> QED BY Zenon, <1>12, <2>1, <2>2
<1>19. b.tokens \in 0..Burst /\ b.last \in 0..clock /\ clock < b.last + RefillEvery
  BY <1>1, <1>12, <1>14, <1>15
<1> QED BY Zenon, <1>17, <1>18, <1>19 DEF Current

\* The bucket a request finds is up to date.
LEMMA FoundBucket ==
    ASSUME TypeOK, LimiterInv, NEW u \in Users
    PROVE  Current(u, Found(u))
<1>1. CASE bucket[u] = NoBucket
  <2>1. Through(u, 0, clock) = {}
    BY Zenon, <1>1 DEF LimiterInv, BucketInv
  <2>2. Found(u) = [tokens |-> Burst, last |-> clock]
    BY Zenon, <1>1 DEF Found
  <2> QED BY Zenon, <2>1, <2>2, FirstBucket
<1>2. CASE bucket[u] # NoBucket
  <2>1. Found(u) = Refilled(bucket[u])
    BY Zenon, <1>2 DEF Found
  <2> QED BY Zenon, <1>2, <2>1, RefilledBucket
<1> QED BY Zenon, <1>1, <1>2

\* A request of u is decided by the limiter.
Charged(u) ==
    /\ clock' = clock /\ Allow(u)
    /\ log \in Seq(LogRecords) /\ log' \in Seq(LogRecords) /\ Len(log') = Len(log) + 1
    /\ \A n \in 1..Len(log) : log'[n] = log[n]
    /\ log'[Len(log) + 1].at = clock
    /\ log'[Len(log) + 1].req.front = "gateway" /\ log'[Len(log) + 1].req.token.user = u
    /\ Allowed(u) => log'[Len(log) + 1].status \notin {401, 429}
    /\ ~Allowed(u) => log'[Len(log) + 1].status = 429

SameThrough(v, s, t) == Through(v, s, t)' = Through(v, s, t)

OneMore(u) ==
    /\ \A v, s, t : v # u \/ ~Allowed(u) => SameThrough(v, s, t)
    /\ \A v, s, t : t \in Nat /\ t < clock => SameThrough(v, s, t)
    /\ \A v, s : v # u \/ ~Allowed(u) =>
          Through(v, s, clock)' = Through(v, s, clock) /\ Taken(v, s)' = Taken(v, s)
    /\ \A s \in 0..clock : Allowed(u) => Taken(u, s)' = Taken(u, s) + 1

\* It is one more that was let through, or turned away.
LEMMA ChargedThrough ==
    ASSUME clock \in Nat, NEW u, Charged(u)
    PROVE  OneMore(u)
<1>1. PICK new : new = Len(log) + 1
  BY Zenon
<1>2. clock' = clock /\ log \in Seq(LogRecords)
  BY Zenon DEF Charged
<1>3. new \notin 1..Len(log) /\ \A n : n \in 1..Len(log') <=> n \in 1..Len(log) \/ n = new
  BY <1>1 DEF Charged
<1>4. \A n \in 1..Len(log) : log'[n] = log[n]
  BY Zenon DEF Charged
<1>5. /\ log'[new].at = clock /\ log'[new].req.front = "gateway"
      /\ log'[new].req.token.user = u
      /\ Allowed(u) <=> LetThrough(log'[new])
  BY <1>1 DEF Charged, LetThrough
<1>6. ASSUME NEW v, NEW s, NEW t PROVE
         \A n : n \in Through(v, s, t)' <=>
                   n \in Through(v, s, t) \/ (n = new /\ Counted(log'[new], v, s, t))
  <2>1. \A n : n \in Through(v, s, t) <=> n \in 1..Len(log) /\ Counted(log[n], v, s, t)
    BY Zenon, ThroughIs
  <2>2. \A n : n \in Through(v, s, t)' <=> n \in 1..Len(log') /\ Counted(log'[n], v, s, t)
    BY Zenon, ThroughIs
  <2> QED BY Zenon, <1>3, <1>4, <2>1, <2>2
<1>7. ASSUME NEW v, NEW s, NEW t
      PROVE  Counted(log'[new], v, s, t) <=> v = u /\ Allowed(u) /\ clock \in s..t
  BY Zenon, <1>5 DEF Counted
<1>8. ASSUME NEW v, NEW s, NEW t, v # u \/ ~Allowed(u)
      PROVE  SameThrough(v, s, t)
  <2>1. \A n : n \in Through(v, s, t)' <=> n \in Through(v, s, t)
    BY Zenon, <1>6, <1>7, <1>8
  <2> QED BY Zenon, <2>1 DEF SameThrough
<1>9. ASSUME NEW v, NEW s, NEW t, t \in Nat, t < clock PROVE SameThrough(v, s, t)
  <2>1. clock \notin s..t
    BY <1>9
  <2>2. \A n : n \in Through(v, s, t)' <=> n \in Through(v, s, t)
    BY Zenon, <1>6, <1>7, <2>1
  <2> QED BY Zenon, <2>2 DEF SameThrough
<1>10. ASSUME NEW v, NEW s
       PROVE  \A n : n \in Through(v, s, clock)' <=>
                        \/ n \in Through(v, s, clock)
                        \/ n = new /\ v = u /\ Allowed(u) /\ clock \in s..clock
  <2>1. PICK t : t = clock
    BY Zenon
  <2>2. \A n : n \in Through(v, s, clock)' <=> n \in 1..Len(log') /\ Counted(log'[n], v, s, t)
    BY Zenon, <1>2, <2>1, ThroughIs
  <2>3. \A n : n \in Through(v, s, t) <=> n \in 1..Len(log) /\ Counted(log[n], v, s, t)
    BY Zenon, ThroughIs
  <2>4. \A n : n \in Through(v, s, clock)' <=>
                  n \in Through(v, s, t) \/ (n = new /\ Counted(log'[new], v, s, t))
    BY Zenon, <1>3, <1>4, <2>2, <2>3
  <2> QED BY Zenon, <1>7, <2>1, <2>4
<1>11. ASSUME NEW v, NEW s, v # u \/ ~Allowed(u)
       PROVE  Through(v, s, clock)' = Through(v, s, clock) /\ Taken(v, s)' = Taken(v, s)
  <2>1. \A n : n \in Through(v, s, clock)' <=> n \in Through(v, s, clock)
    BY Zenon, <1>10, <1>11
  <2>2. Through(v, s, clock)' = Through(v, s, clock)
    BY Zenon, <2>1
  <2> QED BY Zenon, <2>2 DEF Taken
<1>12. ASSUME NEW s \in 0..clock, Allowed(u) PROVE Taken(u, s)' = Taken(u, s) + 1
  <2>1. clock \in s..clock
    OBVIOUS
  <2>2. Through(u, s, clock)' = Through(u, s, clock) \cup {new}
    <3>1. \A n : n \in Through(u, s, clock)' <=> n \in Through(u, s, clock) \/ n = new
      <4>1. \A n : n \in Through(u, s, clock)' <=>
                      \/ n \in Through(u, s, clock)
                      \/ n = new /\ u = u /\ Allowed(u) /\ clock \in s..clock
        BY Zenon, <1>10
      <4> QED BY Zenon, <1>12, <2>1, <4>1
    <3>2. \A n : n \in Through(u, s, clock)' <=> n \in Through(u, s, clock) \cup {new}
      BY Zenon, <3>1
    <3> QED BY Zenon, <3>2
  <2>3. new \notin Through(u, s, clock)
    BY Zenon, <1>3 DEF Through, Counted
  <2>4. IsFiniteSet(Through(u, s, clock))
    BY Zenon, <1>2, ThroughFinite
  <2>5. Cardinality(Through(u, s, clock) \cup {new}) = Cardinality(Through(u, s, clock)) + 1
    BY Zenon, <2>3, <2>4, FS_AddElement
  <2> QED BY Zenon, <2>2, <2>5 DEF Taken
<1> QED BY Zenon, <1>8, <1>9, <1>11, <1>12 DEF OneMore

\* The bucket it leaves behind.
LEMMA ChargedBucket ==
    ASSUME TypeOK, NEW u \in Users, Charged(u)
    PROVE  \E left : /\ left = [tokens |-> IF Allowed(u) THEN Found(u).tokens - 1
                                           ELSE Found(u).tokens,
                                last   |-> Found(u).last]
                     /\ bucket' = [bucket EXCEPT ![u] = left]
                     /\ bucket'[u] = left
                     /\ \A v \in Users \ {u} : bucket'[v] = bucket[v]
<1>1. PICK f : f = Found(u)
  BY Zenon
<1>2. f = [tokens |-> f.tokens, last |-> f.last]
  BY <1>1 DEF Found, Refilled
<1>3. PICK left : left = [tokens |-> IF f.tokens > 0 THEN f.tokens - 1 ELSE f.tokens,
                          last |-> f.last]
  BY Zenon
<1>4. [f EXCEPT !.tokens = IF @ > 0 THEN @ - 1 ELSE @] = left
  BY <1>2, <1>3
<1>5. bucket' = [bucket EXCEPT ![u] = left]
  BY Zenon, <1>1, <1>4 DEF Charged, Allow
<1>6. DOMAIN bucket = Users
  BY Zenon DEF TypeOK
<1>7. bucket'[u] = left /\ \A v \in Users \ {u} : bucket'[v] = bucket[v]
  BY Zenon, <1>5, <1>6
<1>8. left = [tokens |-> IF Allowed(u) THEN Found(u).tokens - 1 ELSE Found(u).tokens,
              last |-> Found(u).last]
  BY Zenon, <1>1, <1>3 DEF Allowed
<1> QED BY Zenon, <1>5, <1>7, <1>8

\* What the limiter decides keeps its accounts.
LEMMA ChargedCurrent ==
    ASSUME TypeOK, LimiterInv, NEW u \in Users, Charged(u)
    PROVE  /\ bucket'[u].tokens \in 0..Burst /\ bucket'[u].last \in 0..clock
           /\ clock < bucket'[u].last + RefillEvery
           /\ \A s \in 0..clock : NotTooMany(u, bucket[u], s)'
           /\ NotTooFew(u, bucket[u])'
<1>1. clock \in Nat /\ Burst \in Nat \ {0} /\ RefillEvery \in Nat \ {0}
  BY Zenon, LimiterAssumption DEF TypeOK
<1>2. PICK f : f = Found(u)
  BY Zenon
<1>3. Current(u, f)
  BY Zenon, <1>2, FoundBucket
<1>4. PICK tokens \in 0..Burst : tokens = f.tokens
  BY Zenon, <1>3 DEF Current
<1>5. PICK last \in 0..clock : last = f.last
  BY Zenon, <1>3 DEF Current
<1>6. Allowed(u) <=> tokens > 0
  BY Zenon, <1>2, <1>4 DEF Allowed
<1>7. PICK left \in 0..Burst : left = IF Allowed(u) THEN tokens - 1 ELSE tokens
  BY <1>1, <1>6
<1>8. bucket'[u].tokens = left /\ bucket'[u].last = last
  <2>1. bucket'[u] = [tokens |-> IF Allowed(u) THEN f.tokens - 1 ELSE f.tokens, last |-> f.last]
    BY Zenon, <1>2, ChargedBucket
  <2>2. bucket'[u] = [tokens |-> left, last |-> last]
    BY Zenon, <1>4, <1>5, <1>7, <2>1
  <2> QED BY <2>2
<1>9. \A s \in 0..clock : \E old \in Nat, new \in Nat :
         /\ old = Taken(u, s) /\ new = Taken(u, s)' /\ new + left = old + tokens
  <2>1. ASSUME NEW s \in 0..clock
        PROVE  \E old \in Nat, new \in Nat :
                  /\ old = Taken(u, s) /\ new = Taken(u, s)' /\ new + left = old + tokens
    <3>1. PICK old \in Nat : old = Taken(u, s)
      BY Zenon, ThroughFinite DEF Taken, TypeOK
    <3>2. CASE Allowed(u)
      <4>1. old + 1 = Taken(u, s)'
        <5>1. OneMore(u)
          BY Zenon, <1>1, ChargedThrough
        <5> QED BY Zenon, <2>1, <3>1, <3>2, <5>1 DEF OneMore
      <4>2. old + 1 \in Nat /\ old + 1 + left = old + tokens
        BY <1>1, <1>7, <3>1, <3>2
      <4> QED BY Zenon, <3>1, <4>1, <4>2
    <3>3. CASE ~Allowed(u)
      <4>1. old = Taken(u, s)'
        <5>1. OneMore(u)
          BY Zenon, <1>1, ChargedThrough
        <5> QED BY Zenon, <3>1, <3>3, <5>1 DEF OneMore
      <4>2. old + left = old + tokens
        BY Zenon, <1>7, <3>3
      <4> QED BY Zenon, <3>1, <4>1, <4>2
    <3> QED BY Zenon, <3>2, <3>3
  <2> QED BY Zenon, <2>1
<1>10. ASSUME NEW s \in 0..clock PROVE NotTooMany(u, bucket[u], s)'
  <2>1. PICK old \in Nat, new \in Nat :
           old = Taken(u, s) /\ new = Taken(u, s)' /\ new + left = old + tokens
    BY Zenon, <1>9, <1>10
  <2>2. old + tokens <= Burst + Periods(last, s)
    BY Zenon, <1>3, <1>4, <1>5, <1>10, <2>1 DEF Current, NotTooMany
  <2>3. new + left <= Burst + Periods(last, s)
    BY Zenon, <2>1, <2>2
  <2> QED BY Zenon, <1>8, <2>1, <2>3 DEF NotTooMany, Periods
<1>11. NotTooFew(u, bucket[u])'
  <2>1. PICK s \in 0..last, k \in 0..last :
           last = s + k * RefillEvery /\ Taken(u, s) + tokens >= Burst + k
    BY Zenon, <1>3, <1>4, <1>5 DEF Current, NotTooFew
  <2>2. s \in 0..clock
    BY <1>1, <2>1
  <2>3. PICK old \in Nat, new \in Nat :
           old = Taken(u, s) /\ new = Taken(u, s)' /\ new + left = old + tokens
    BY Zenon, <1>9, <2>2
  <2>4. new + left >= Burst + k
    BY Zenon, <2>1, <2>3
  <2> QED BY Zenon, <1>8, <2>1, <2>3, <2>4 DEF NotTooFew
<1>12. clock < last + RefillEvery
  BY Zenon, <1>3, <1>5 DEF Current
<1> QED BY Zenon, <1>8, <1>10, <1>11, <1>12

\* A bucket that is not u's, or was up to date, keeps its accounts.
LEMMA ChargedBuckets ==
    ASSUME TypeOK, LimiterInv, NEW u \in Users, Charged(u), NEW v \in Users
    PROVE  BucketInv(v)'
<1>1. clock \in Nat /\ clock' = clock
  BY Zenon DEF TypeOK, Charged
<1>2. CASE v = u
  <2>1. PICK b : b = bucket'[u]
    BY Zenon
  <2>2. /\ b.tokens \in 0..Burst /\ b.last \in 0..clock /\ clock < b.last + RefillEvery
        /\ \A s \in 0..clock : NotTooMany(u, bucket[u], s)'
        /\ NotTooFew(u, bucket[u])'
    BY Zenon, <2>1, ChargedCurrent
  <2>3. b # NoBucket
    BY <2>2 DEF NoBucket
  <2>4. clock \in b.last..clock
    BY <1>1, <2>2
  <2>5. \A n \in Through(u, 0, clock)' : log'[n].at <= clock
    <3>1. \A a \in 0..clock : a <= clock
      BY <1>1
    <3> QED BY Zenon, <1>1, <3>1 DEF Through, Counted
  <2> QED BY Zenon, <1>1, <1>2, <2>1, <2>2, <2>3, <2>4, <2>5 DEF BucketInv
<1>3. CASE v # u
  <2>1. BucketInv(v)
    BY Zenon DEF LimiterInv
  <2>2. bucket'[v] = bucket[v]
    BY Zenon, <1>3, ChargedBucket
  <2>3. \A s : Taken(v, s)' = Taken(v, s) /\ Through(v, s, clock)' = Through(v, s, clock)
    <3>1. OneMore(u)
      BY Zenon, <1>1, ChargedThrough
    <3> QED BY Zenon, <1>3, <3>1 DEF OneMore
  <2>4. Through(v, 0, clock)' = Through(v, 0, clock)
    BY Zenon, <2>3
  <2>5. \A n \in Through(v, 0, clock) : log'[n].at = log[n].at
    BY Zenon DEF Charged, Through, Counted
  <2>6. \A s : NotTooMany(v, bucket[v], s) => NotTooMany(v, bucket[v], s)'
    BY Zenon, <2>2, <2>3 DEF NotTooMany
  <2>7. NotTooFew(v, bucket[v]) => NotTooFew(v, bucket[v])'
    BY Zenon, <2>2, <2>3 DEF NotTooFew
  <2> QED BY Zenon, <1>1, <2>1, <2>2, <2>4, <2>5, <2>6, <2>7 DEF BucketInv
<1> QED BY Zenon, <1>2, <1>3

\* What the limiter decides keeps within the budget, and turns away only what
\* is over it.
LEMMA ChargedLimiter ==
    ASSUME TypeOK, LimiterInv, NEW u \in Users, Charged(u)
    PROVE  LimiterInv'
<1>1. /\ clock \in Nat /\ clock' = clock
      /\ Burst \in Nat \ {0} /\ RefillEvery \in Nat \ {0}
  BY Zenon, LimiterAssumption DEF TypeOK, Charged
<1>2. /\ Len(log') = Len(log) + 1 /\ log \in Seq(LogRecords)
      /\ \A n \in 1..Len(log) : log'[n] = log[n]
  BY Zenon DEF Charged
<1>3. 1..Len(log') = 1..Len(log) \cup {Len(log) + 1}
  BY <1>2
<1>4. \A n \in 1..Len(log') : log'[n].at <= clock'
  <2>1. ASSUME NEW n \in 1..Len(log) PROVE log'[n].at <= clock
    BY Zenon, <1>2 DEF LimiterInv
  <2>2. log'[Len(log) + 1].at <= clock
    <3>1. log'[Len(log) + 1].at = clock
      BY Zenon DEF Charged
    <3> QED BY <1>1, <3>1
  <2> QED BY Zenon, <1>1, <1>3, <2>1, <2>2
<1>5. PICK b : b = bucket'[u]
  BY Zenon
<1>6. /\ b.tokens \in 0..Burst /\ b.last \in 0..clock /\ clock < b.last + RefillEvery
      /\ \A s \in 0..clock : NotTooMany(u, bucket[u], s)'
      /\ NotTooFew(u, bucket[u])'
  BY Zenon, <1>5, ChargedCurrent
<1>7. \A s : \E taken \in Nat : taken = Taken(u, s)' /\ taken = Cardinality(Through(u, s, clock)')
  <2>1. ASSUME NEW s
        PROVE  \E taken \in Nat : taken = Taken(u, s)' /\ taken = Cardinality(Through(u, s, clock)')
    <3>1. Through(u, s, clock)' \subseteq 1..Len(log')
      BY Zenon DEF Through, Counted
    <3>2. Len(log') \in Int /\ 1 \in Int
      BY <1>2
    <3>3. IsFiniteSet(1..Len(log'))
      BY Zenon, <3>2, FS_Interval
    <3>4. IsFiniteSet(Through(u, s, clock)')
      BY Zenon, <3>1, <3>3, FS_Subset
    <3>5. Cardinality(Through(u, s, clock)') \in Nat
      BY Zenon, <3>4, FS_CardinalityType
    <3> QED BY Zenon, <3>5 DEF Taken
  <2> QED BY Zenon, <2>1
<1>8. ASSUME NEW v \in Users, NEW t \in 0..clock', NEW s \in 0..t PROVE Budget(v, s, t)'
  <2>1. t \in 0..clock /\ t \in Nat /\ s \in 0..clock
    BY <1>1, <1>8
  <2>2. CASE v # u \/ t < clock
    <3>1. SameThrough(v, s, t)
      <4>1. OneMore(u)
        BY Zenon, <1>1, ChargedThrough
      <4> QED BY Zenon, <2>1, <2>2, <4>1 DEF OneMore
    <3>2. Budget(v, s, t)
      BY Zenon, <1>8, <2>1 DEF LimiterInv
    <3> QED BY Zenon, <3>1, <3>2 DEF Budget, SameThrough
  <2>3. CASE v = u /\ t = clock
    <3>1. PICK taken \in Nat : taken = Taken(u, s)'
      BY Zenon, <1>7
    <3>2. taken = Cardinality(Through(u, s, t)')
      BY Zenon, <1>1, <2>3, <3>1 DEF Taken
    <3>3. b.last \in Nat /\ s \in Nat /\ b.last <= t
      BY <1>1, <1>6, <2>1, <2>3
    <3>4. PICK p \in Int : p = Periods(b.last, s)
      BY Zenon, <3>3, PeriodsFacts
    <3>5. PICK q \in Int : q = (t - s) \div RefillEvery
      <4>1. t - s \in Int
        BY <2>1, <3>3
      <4> QED BY Zenon, <1>1, <4>1, Quotient
    <3>6. p <= q + 1
      BY Zenon, <2>1, <3>3, <3>4, <3>5, PeriodsFacts
    <3>7. taken + b.tokens <= Burst + p
      BY Zenon, <1>5, <1>6, <2>1, <3>1, <3>4 DEF NotTooMany, Periods
    <3>8. taken <= Burst + q + 1
      BY <1>1, <1>6, <3>6, <3>7
    <3> QED BY Zenon, <2>3, <3>2, <3>5, <3>8 DEF Budget
  <2>4. t < clock \/ t = clock
    BY <1>1, <2>1
  <2> QED BY Zenon, <2>2, <2>3, <2>4
<1>9. ASSUME NEW v \in Users \cup {None}, NEW t \in 0..clock', Denied(v, t)'
      PROVE  OverBudget(v, t)'
  <2>1. t \in 0..clock /\ t \in Nat /\ (t < clock \/ t = clock)
    BY <1>1, <1>9
  <2>2. Denied(v, t) => OverBudget(v, t)
    BY Zenon, <1>9, <2>1 DEF LimiterInv
  <2>3. Denied(v, t) \/ (v = u /\ t = clock /\ ~Allowed(u))
    <3>1. PICK n \in 1..Len(log') :
             log'[n].status = 429 /\ log'[n].req.token.user = v /\ log'[n].at = t
      BY Zenon, <1>9 DEF Denied
    <3>2. CASE n \in 1..Len(log)
      BY <1>2, <3>1, <3>2 DEF Denied
    <3>3. CASE n = Len(log) + 1
      BY <3>1, <3>3 DEF Charged
    <3> QED BY Zenon, <1>3, <3>2, <3>3
  <2>4. CASE v # u \/ t < clock
    <3>1. OverBudget(v, t)
      <4>1. ~(t = clock) \/ v # u
        BY <1>1, <2>1, <2>4
      <4> QED BY Zenon, <2>2, <2>3, <4>1
    <3>2. \A s : SameThrough(v, s, t)
      <4>1. OneMore(u)
        BY Zenon, <1>1, ChargedThrough
      <4> QED BY Zenon, <2>1, <2>4, <4>1 DEF OneMore
    <3> QED BY Zenon, <3>1, <3>2 DEF OverBudget, SameThrough
  <2>5. CASE v = u /\ t = clock /\ Allowed(u)
    <3>1. PICK s \in 0..t : Cardinality(Through(u, s, t)) >= Burst + (t - s) \div RefillEvery
      BY Zenon, <2>2, <2>3, <2>5 DEF OverBudget
    <3>2. PICK q \in Int : q = (t - s) \div RefillEvery
      <4>1. t - s \in Int
        BY <2>1
      <4> QED BY Zenon, <1>1, <4>1, Quotient
    <3>3. PICK taken \in Nat : taken = Taken(u, s)
      BY Zenon, <1>2, ThroughFinite DEF Taken
    <3>4. taken + 1 = Taken(u, s)'
      <4>1. OneMore(u)
        BY Zenon, <1>1, ChargedThrough
      <4> QED BY Zenon, <1>1, <2>5, <3>3, <4>1 DEF OneMore
    <3>5. taken >= Burst + q
      BY Zenon, <2>5, <3>1, <3>2, <3>3 DEF Taken
    <3>6. taken + 1 >= Burst + q
      BY <1>1, <3>5
    <3>7. Cardinality(Through(u, s, t)') >= Burst + (t - s) \div RefillEvery
      BY Zenon, <1>1, <2>5, <3>2, <3>4, <3>6 DEF Taken
    <3> QED BY Zenon, <2>5, <3>7 DEF OverBudget
  <2>6. CASE v = u /\ t = clock /\ ~Allowed(u)
    <3>1. b.tokens = 0
      <4>1. b = [tokens |-> IF Allowed(u) THEN Found(u).tokens - 1 ELSE Found(u).tokens,
                 last |-> Found(u).last]
        BY Zenon, <1>5, ChargedBucket
      <4>2. b = [tokens |-> Found(u).tokens, last |-> Found(u).last]
        BY Zenon, <2>6, <4>1
      <4>3. b.tokens = Found(u).tokens
        BY <4>2
      <4>4. ~(b.tokens > 0)
        BY Zenon, <2>6, <4>3 DEF Allowed
      <4> QED BY <1>1, <1>6, <4>4
    <3>2. PICK s \in 0..b.last, k \in 0..b.last :
             b.last = s + k * RefillEvery /\ Taken(u, s)' + b.tokens >= Burst + k
      BY Zenon, <1>5, <1>6 DEF NotTooFew
    <3>3. PICK taken \in Nat : taken = Taken(u, s)'
      BY Zenon, <1>7
    <3>4. taken >= Burst + k
      BY <1>1, <1>6, <3>1, <3>2, <3>3
    <3>5. (t - s) \div RefillEvery = k
      <4>1. PICK m \in Int : m = k * RefillEvery
        BY <1>1, <1>6, <3>2
      <4>2. t - s \in Int /\ k \in Int /\ m <= t - s /\ t - s < m + RefillEvery
        BY <1>1, <1>6, <2>1, <2>6, <3>2, <4>1
      <4> QED BY Zenon, <1>1, <4>1, <4>2, QuotientIs
    <3>6. s \in 0..t
      BY <1>1, <1>6, <2>6, <3>2
    <3>7. Cardinality(Through(u, s, t)') >= Burst + (t - s) \div RefillEvery
      BY Zenon, <1>1, <2>6, <3>3, <3>4, <3>5 DEF Taken
    <3> QED BY Zenon, <2>6, <3>6, <3>7 DEF OverBudget
  <2> QED BY Zenon, <2>1, <2>4, <2>5, <2>6
<1>10. \A v \in Users : BucketInv(v)'
  BY Zenon, ChargedBuckets
<1> QED BY Zenon, <1>4, <1>8, <1>9, <1>10 DEF LimiterInv

\* Time that passes leaves the limiter within both its bounds.
LEMMA TickLimiter ==
    ASSUME TypeOK, LimiterInv, Tick, UNCHANGED <<bucket, log>>
    PROVE  LimiterInv'
<1>1. clock \in Nat /\ clock' = clock + 1 /\ log' = log /\ bucket' = bucket
  BY Zenon DEF TypeOK, Tick
<1>2. PICK now \in Nat : now = clock' /\ now = clock + 1
  BY <1>1
<1>3. Burst \in Nat \ {0} /\ RefillEvery \in Nat \ {0}
  BY Zenon, LimiterAssumption
<1>4. \A n \in 1..Len(log) : log[n].at \in Nat /\ log[n].at <= clock
  BY Zenon, LogFields DEF TypeOK, LimiterInv
<1>5. ASSUME NEW u, NEW s PROVE Through(u, s, now) = Through(u, s, clock)
  <2>1. \A n \in 1..Len(log) : log[n].at \in s..now <=> log[n].at \in s..clock
    BY <1>1, <1>2, <1>4
  <2>2. \A n \in 1..Len(log) : Counted(log[n], u, s, now) <=> Counted(log[n], u, s, clock)
    BY Zenon, <2>1 DEF Counted
  <2>3. \A n : n \in Through(u, s, now) <=> n \in Through(u, s, clock)
    BY Zenon, <2>2, ThroughIs
  <2> QED BY Zenon, <2>3
<1>6. ASSUME NEW u, NEW s, NEW t PROVE Through(u, s, t)' = Through(u, s, t)
  <2>1. \A n : n \in Through(u, s, t)' <=> n \in Through(u, s, t)
    BY Zenon, <1>1, ThroughIs
  <2> QED BY Zenon, <2>1
<1>7. \A u, s : Through(u, s, clock)' = Through(u, s, clock) /\ Taken(u, s)' = Taken(u, s)
  <2>1. ASSUME NEW u, NEW s PROVE Through(u, s, clock)' = Through(u, s, clock)
    <3>1. Through(u, s, clock)' = Through(u, s, now)
      BY Zenon, <1>2, <1>6
    <3> QED BY Zenon, <1>5, <3>1
  <2> QED BY Zenon, <2>1 DEF Taken
<1>8. ASSUME NEW u \in Users PROVE BucketInv(u)'
  <2>1. BucketInv(u)
    BY Zenon DEF LimiterInv
  <2>2. \A s : NotTooMany(u, bucket[u], s) => NotTooMany(u, bucket[u], s)'
    BY Zenon, <1>1, <1>7 DEF NotTooMany
  <2>3. NotTooFew(u, bucket[u]) => NotTooFew(u, bucket[u])'
    BY Zenon, <1>1, <1>7 DEF NotTooFew
  <2>4. bucket[u].last..clock \subseteq bucket[u].last..now
    <3>1. bucket[u] \in {NoBucket} \cup [tokens : 0..Burst, last : 0..clock]
      BY Zenon DEF TypeOK
    <3>2. PICK last \in Int : last = bucket[u].last
      BY <1>1, <3>1 DEF NoBucket
    <3>3. last..clock \subseteq last..now
      BY <1>1, <1>2
    <3> QED BY Zenon, <3>2, <3>3
  <2> QED BY Zenon, <1>1, <1>2, <1>7, <2>1, <2>2, <2>3, <2>4 DEF BucketInv
<1>9. ASSUME NEW u \in Users, NEW t \in 0..now, NEW s \in 0..t PROVE Budget(u, s, t)'
  <2>1. t \in Nat /\ s \in Nat /\ s <= t /\ t <= now
    BY <1>2
  <2>2. t - s \in Int
    BY <2>1
  <2>3. CASE t \in 0..clock
    <3>1. Budget(u, s, t)
      BY Zenon, <1>9, <2>3 DEF LimiterInv
    <3> QED BY Zenon, <1>6, <3>1 DEF Budget
  <2>4. CASE t = now
    <3>1. Cardinality(Through(u, s, t)') = Taken(u, s)
      BY Zenon, <1>5, <1>6, <2>4 DEF Taken
    <3>2. PICK taken \in Nat : taken = Taken(u, s)
      BY Zenon, ThroughFinite DEF Taken, TypeOK
    <3>3. PICK q \in Int : q = (t - s) \div RefillEvery
      BY Zenon, <1>3, <2>2, Quotient
    <3>4. taken <= Burst + q + 1
      <4>1. CASE s <= clock
        <5>1. s \in 0..clock /\ clock \in 0..clock /\ clock - s \in Int /\ clock - s <= t - s
          BY <1>1, <1>2, <2>1, <2>4, <4>1
        <5>2. PICK p \in Int : p = (clock - s) \div RefillEvery
          BY Zenon, <1>3, <5>1, Quotient
        <5>3. p <= q
          BY Zenon, <1>3, <2>2, <3>3, <5>1, <5>2, QuotientGrows
        <5>4. taken <= Burst + p + 1
          BY Zenon, <1>9, <3>2, <5>1, <5>2 DEF LimiterInv, Budget, Taken
        <5> QED BY <1>3, <5>3, <5>4
      <4>2. CASE ~(s <= clock)
        <5>1. Through(u, s, clock) = {}
          <6>1. s..clock = {}
            BY <1>1, <2>1, <4>2
          <6> QED BY Zenon, <6>1 DEF Through, Counted
        <5>2. taken = 0
          BY Zenon, <3>2, <5>1, FS_EmptySet DEF Taken
        <5>3. 0 <= q
          <6>1. 0 * RefillEvery < q * RefillEvery + RefillEvery
            <7>1. t - s < q * RefillEvery + RefillEvery
              BY Zenon, <1>3, <2>2, <3>3, Quotient
            <7>2. PICK m \in Int : m = q * RefillEvery
              BY <1>3
            <7>3. 0 < m + RefillEvery
              BY <1>3, <2>1, <7>1, <7>2
            <7>4. 0 * RefillEvery = 0
              BY <1>3
            <7> QED BY Zenon, <7>2, <7>3, <7>4
          <6>2. 0 \in Int
            OBVIOUS
          <6> QED BY Zenon, <1>3, <6>1, <6>2, Multiples
        <5> QED BY <1>3, <5>2, <5>3
      <4> QED BY Zenon, <4>1, <4>2
    <3> QED BY Zenon, <3>1, <3>2, <3>3, <3>4 DEF Budget
  <2>5. t \in 0..clock \/ t = now
    BY <1>1, <1>2, <2>1
  <2> QED BY Zenon, <2>3, <2>4, <2>5
<1>10. ASSUME NEW u \in Users \cup {None}, NEW t \in 0..now, Denied(u, t)'
       PROVE  OverBudget(u, t)'
  <2>1. Denied(u, t)
    BY <1>1, <1>10 DEF Denied
  <2>2. t \in 0..clock
    <3>1. t \in Nat /\ t <= clock
      BY <1>4, <2>1 DEF Denied
    <3> QED BY <1>1, <3>1
  <2>3. OverBudget(u, t)
    BY Zenon, <1>10, <2>1, <2>2 DEF LimiterInv
  <2> QED BY Zenon, <1>6, <2>3 DEF OverBudget
<1>11. \A n \in 1..Len(log') : log'[n].at <= clock'
  <2>1. \A a \in Nat : a <= clock => a <= now
    BY <1>1, <1>2
  <2> QED BY Zenon, <1>1, <1>2, <1>4, <2>1
<1> QED BY Zenon, <1>2, <1>8, <1>9, <1>10, <1>11 DEF LimiterInv

\* All that a query from cursor c may return.
All(c) == {e \in Entries : entry[e] # None /\ Below(e, c)}

\* The page holds the newest of them; what is left out is older than all of it,
\* and then the query found more than the page holds.
LEMMA PageFacts ==
    ASSUME Timed, NEW c, NEW rows, rows = Rows(c)
    PROVE  /\ PageOf(rows) \subseteq All(c)
           /\ \A e \in All(c) \ PageOf(rows) :
                 Cardinality(rows) > Limit /\ \A f \in PageOf(rows) : Newer(f, e)
           /\ Cardinality(rows) > Limit => PageOf(rows) # {}
<1>1. IsFiniteSet(Entries) /\ Limit \in Nat \ {0}
  BY Zenon, GatewayAssumption
<1>2. PICK A : A = All(c)
  BY Zenon
<1>3. A \subseteq Stored /\ A \subseteq Entries
  BY Zenon, <1>2 DEF All, Stored
<1>4. IsFiniteSet(A)
  BY Zenon, <1>1, <1>3, FS_Subset
<1>5. rows = {e \in A : Cardinality(Above(e, A)) < Limit + 1}
  BY Zenon, <1>2 DEF Rows, All, Above
<1>6. rows \subseteq A /\ IsFiniteSet(rows)
  <2>1. rows \subseteq A
    BY Zenon, <1>5
  <2> QED BY Zenon, <1>4, <2>1, FS_Subset
<1>7. Cardinality(rows) \in Nat
  BY Zenon, <1>6, FS_CardinalityType
<1>8. \A e \in A : Above(e, A) \subseteq A /\ IsFiniteSet(Above(e, A))
                   /\ Cardinality(Above(e, A)) \in Nat
  <2>1. \A e \in A : Above(e, A) \subseteq A
    BY Zenon DEF Above
  <2>2. \A e \in A : IsFiniteSet(Above(e, A))
    BY Zenon, <1>4, <2>1, FS_Subset
  <2> QED BY Zenon, <2>1, <2>2, FS_CardinalityType
<1>9. \A e, f \in A : Newer(f, e) => Cardinality(Above(f, A)) < Cardinality(Above(e, A))
  BY Zenon, <1>3, <1>4, CountsOrder
<1>10. ASSUME NEW e \in rows PROVE Above(e, rows) = Above(e, A)
  <2>1. ASSUME NEW f \in A, Newer(f, e) PROVE f \in rows
    <3>1. PICK i \in Nat : i = Cardinality(Above(e, A))
      BY Zenon, <1>6, <1>8, <1>10
    <3>2. PICK j \in Nat : j = Cardinality(Above(f, A))
      BY Zenon, <1>8, <2>1
    <3>3. i < Limit + 1 /\ j < i
      BY Zenon, <1>5, <1>6, <1>9, <1>10, <2>1, <3>1, <3>2
    <3>4. j < Limit + 1
      BY <1>1, <3>3
    <3> QED BY Zenon, <1>5, <3>2, <3>4
  <2> QED BY Zenon, <1>6, <2>1 DEF Above
<1>11. PICK P : P = PageOf(rows)
  BY Zenon
<1>12. P = {e \in rows : Cardinality(Above(e, rows)) < Limit}
  BY Zenon, <1>11 DEF PageOf, Above
<1>13. \A e \in rows : e \in P <=> Cardinality(Above(e, A)) < Limit
  BY Zenon, <1>10, <1>12
<1>14. P \subseteq rows
  BY Zenon, <1>12
<1>15. ASSUME NEW e \in A \ P, NEW f \in P PROVE Newer(f, e)
  <2>1. PICK i \in Nat : i = Cardinality(Above(e, A))
    BY Zenon, <1>8, <1>15
  <2>2. PICK j \in Nat : j = Cardinality(Above(f, A))
    BY Zenon, <1>6, <1>8, <1>14, <1>15
  <2>3. ~(i < Limit)
    <3>1. e \in rows => ~(i < Limit)
      BY Zenon, <1>13, <1>15, <2>1
    <3>2. e \notin rows => ~(i < Limit + 1)
      BY Zenon, <1>5, <1>15, <2>1
    <3> QED BY <1>1, <3>1, <3>2
  <2>4. j < Limit
    BY Zenon, <1>13, <1>14, <1>15, <2>2
  <2>5. ~(i < j)
    BY <1>1, <2>3, <2>4
  <2>6. ~Newer(e, f)
    BY Zenon, <1>6, <1>9, <1>14, <1>15, <2>1, <2>2, <2>5
  <2>7. e \in Stored /\ f \in Stored /\ e # f
    BY Zenon, <1>3, <1>6, <1>14, <1>15
  <2> QED BY Zenon, <2>6, <2>7, NewerOrders
<1>16. ASSUME NEW e \in A \ P PROVE Cardinality(rows) > Limit
  <2> SUFFICES ASSUME Cardinality(rows) <= Limit PROVE FALSE
    BY <1>1, <1>7
  <2>1. rows = A
    <3> SUFFICES ASSUME A \ rows # {} PROVE FALSE
      BY Zenon, <1>6
    <3>1. PICK f \in A \ rows : \A g \in A \ rows : ~Newer(g, f)
      <4>1. A \ rows \subseteq A
        BY Zenon
      <4> QED BY Zenon, <1>3, <1>4, <4>1, FewestAbove
    <3>2. Above(f, A) \subseteq rows
      BY Zenon, <3>1 DEF Above
    <3>3. Cardinality(Above(f, A)) <= Cardinality(rows)
      BY Zenon, <1>6, <3>2, FS_Subset
    <3>4. PICK i \in Nat : i = Cardinality(Above(f, A))
      BY Zenon, <1>8, <3>1
    <3>5. ~(i < Limit + 1)
      BY Zenon, <1>5, <3>1, <3>4
    <3> QED BY <1>1, <1>7, <3>3, <3>4, <3>5
  <2>2. Above(e, A) \subseteq rows /\ e \in rows /\ e \notin Above(e, A)
    BY Zenon, <1>3, <1>16, <2>1, NewerOrders DEF Above
  <2>3. /\ Cardinality(Above(e, A)) <= Cardinality(rows)
        /\ Cardinality(rows) # Cardinality(Above(e, A))
    BY Zenon, <1>6, <2>2, FS_Subset
  <2>4. PICK i \in Nat : i = Cardinality(Above(e, A))
    BY Zenon, <1>8, <1>16
  <2>5. i < Limit
    BY <1>1, <1>7, <2>3, <2>4
  <2> QED BY Zenon, <1>13, <1>16, <2>2, <2>4, <2>5
<1>17. ASSUME Cardinality(rows) > Limit PROVE P # {}
  <2>1. rows # {}
    <3>1. Cardinality(rows) # 0
      BY <1>1, <1>7, <1>17
    <3> QED BY Zenon, <3>1, FS_EmptySet
  <2>2. PICK e \in rows : \A f \in rows : ~Newer(f, e)
    BY Zenon, <1>3, <1>4, <1>6, <2>1, FewestAbove
  <2>3. Above(e, rows) = {}
    BY Zenon, <2>2 DEF Above
  <2>4. Cardinality(Above(e, rows)) = 0 /\ 0 < Limit
    <3>1. 0 < Limit
      BY <1>1
    <3> QED BY Zenon, <2>3, <3>1, FS_EmptySet
  <2> QED BY Zenon, <1>12, <2>2, <2>4
<1> QED BY Zenon, <1>2, <1>6, <1>11, <1>14, <1>15, <1>16, <1>17

\* The places between entries that a cursor names.
Places == [at : Nat, id : Entries]

\* Below a cursor that names a stored entry are the older ones.
LEMMA BelowIsOlder ==
    ASSUME Timed, NEW last \in Stored, NEW d, d = [at |-> entry[last], id |-> last]
    PROVE  /\ d \in Places /\ d # None
           /\ \A e \in Stored : Below(e, d) <=> Newer(last, e)
<1>1. last \in Entries /\ last \in Nat /\ entry[last] \in Nat
  BY Zenon DEF Timed, Stored
<1>2. d \in Places
  BY <1>1 DEF Places
<1>3. d # None
  BY Zenon, <1>2, NoneAssumption DEF Places
<1>4. d.at = entry[last] /\ d.id = last
  OBVIOUS
<1>5. ASSUME NEW e \in Stored PROVE Below(e, d) <=> Newer(last, e)
  <2>1. e \in Nat /\ entry[e] \in Nat
    BY Zenon DEF Timed
  <2> QED BY <1>1, <1>3, <1>4, <2>1 DEF Below, Newer
<1> QED BY Zenon, <1>2, <1>3, <1>5

\* The next cursor parts the entries below c into the page and the rest.
LEMMA NextFacts ==
    ASSUME Timed, NEW c, NEW rows, rows = Rows(c), NEW d, d = NextCursor(rows)
    PROVE  /\ PageOf(rows) \subseteq All(c)
           /\ d = None => PageOf(rows) = All(c)
           /\ d # None => /\ d \in Places
                          /\ \A e \in PageOf(rows) : ~Below(e, d)
                          /\ \A e \in All(c) \ PageOf(rows) : Below(e, d)
                          /\ \E last \in All(c) : d = [at |-> entry[last], id |-> last]
<1>1. PICK P : P = PageOf(rows)
  BY Zenon
<1>2. P \subseteq All(c) /\ All(c) \subseteq Stored
  BY Zenon, <1>1, PageFacts DEF All, Stored
<1>3. CASE ~(Cardinality(rows) > Limit)
  <2>1. d = None
    BY Zenon, <1>3 DEF NextCursor
  <2>2. P = All(c)
    BY Zenon, <1>1, <1>2, <1>3, PageFacts
  <2> QED BY Zenon, <1>1, <1>2, <2>1, <2>2
<1>4. CASE Cardinality(rows) > Limit
  <2>1. P # {} /\ P \subseteq Stored
    BY Zenon, <1>1, <1>2, <1>4, PageFacts
  <2>2. \E e \in P : \A f \in P \ {e} : Newer(f, e)
    BY Zenon, <2>1, Oldest
  <2>3. PICK last : last = CHOOSE e \in P : \A f \in P \ {e} : Newer(f, e)
    BY Zenon
  <2>4. last \in P /\ \A f \in P \ {last} : Newer(f, last)
    BY Zenon, <2>2, <2>3
  <2>5. d = [at |-> entry[last], id |-> last]
    BY Zenon, <1>1, <1>4, <2>3 DEF NextCursor
  <2>6. last \in Stored
    BY Zenon, <2>1, <2>4
  <2>7. /\ d \in Places /\ d # None
        /\ \A e \in Stored : Below(e, d) <=> Newer(last, e)
    BY Zenon, <2>5, <2>6, BelowIsOlder
  <2>8. \A e \in P : ~Newer(last, e)
    BY Zenon, <2>1, <2>4, NewerOrders
  <2>9. \A e \in All(c) \ P : Newer(last, e)
    BY Zenon, <1>1, <2>4, PageFacts
  <2> QED BY Zenon, <1>1, <1>2, <2>1, <2>4, <2>5, <2>7, <2>8, <2>9
<1> QED BY Zenon, <1>3, <1>4

-----------------------------------------------------------------------------
(* A walk over the ledger.                                                 *)

\* The times of the entries are times.
LEMMA StoredTimes ==
    ASSUME TypeOK
    PROVE  Timed
<1>1. ASSUME NEW e \in Stored PROVE e \in Nat /\ entry[e] \in Nat
  <2>1. e \in Entries /\ entry[e] # None
    BY Zenon DEF Stored
  <2>2. entry[e] \in 0..clock
    BY Zenon, <2>1 DEF TypeOK
  <2>3. e \in Nat
    BY Zenon, <2>1, GatewayAssumption
  <2>4. clock \in Nat
    BY Zenon DEF TypeOK
  <2> QED BY <2>2, <2>3, <2>4
<1> QED BY Zenon, <1>1 DEF Timed

\* A cursor of the client is none, or names a place.
LEMMA CursorPlace ==
    ASSUME NEW raw \in Cursors
    PROVE  /\ QueryCursor(raw) \in {None} \cup Places
           /\ QueryCursor(raw) = None <=> raw = <<>>
<1>1. CASE raw = <<>>
  BY Zenon, <1>1 DEF QueryCursor
<1>2. CASE raw # <<>>
  <2>1. raw \in Nat \X Entries
    BY Zenon, <1>2 DEF Cursors
  <2>2. [at |-> raw[1], id |-> raw[2]] \in Places
    BY <2>1 DEF Places
  <2>3. None \notin Places
    BY Zenon, NoneAssumption DEF Places
  <2> QED BY Zenon, <1>2, <2>2, <2>3 DEF QueryCursor
<1> QED BY Zenon, <1>1, <1>2

\* No encoding on the way changes what a cursor says.
LEMMA CursorCodec ==
    ASSUME NEW c \in {None} \cup Places, NEW r
    PROVE  /\ Asked(r, c) = c /\ Given(r, c) = c
           /\ LedgerResponse(c) \in Cursors /\ QueryCursor(LedgerResponse(c)) = c
<1>1. CASE c = None
  <2>1. <<>> \in Cursors
    BY Zenon DEF Cursors
  <2> QED BY Zenon, <1>1, <2>1 DEF Asked, Given, LedgerResponse, QueryCursor, EncodeCursor,
             DecodeCursor, EncodeLedgerCursor, DecodeLedgerCursor
<1>2. CASE c \in Places
  <2>1. c # None
    BY Zenon, <1>2, NoneAssumption DEF Places
  <2>2. PICK raw : raw = <<c.at, c.id>>
    BY Zenon
  <2>3. raw # <<>> /\ raw[1] = c.at /\ raw[2] = c.id
    BY <2>2
  <2>4. raw \in Cursors
    BY <1>2, <2>2 DEF Cursors, Places
  <2>5. [at |-> raw[1], id |-> raw[2]] = c
    BY <1>2, <2>3 DEF Places
  <2> QED BY Zenon, <2>1, <2>2, <2>3, <2>4, <2>5
          DEF Asked, Given, LedgerResponse, QueryCursor, EncodeCursor,
              DecodeCursor, EncodeLedgerCursor, DecodeLedgerCursor
<1> QED BY Zenon, <1>1, <1>2

\* The page that is read, and the next cursor, are as they should be.
LEMMA ReadBrings ==
    ASSUME TypeOK, WalkInv, walk.state # "done", NEW c, c = QueryCursor(walk.cursor),
           NEW rows, rows = Rows(c), NEW d, d = NextCursor(rows)
    PROVE  /\ d \in {None} \cup Places /\ PageOf(rows) \in SUBSET Entries
           /\ Brings(PageOf(rows), c, d)
<1>1. Timed
  BY Zenon, StoredTimes
<1>2. PICK P : P = PageOf(rows)
  BY Zenon
<1>3. /\ P \subseteq All(c)
      /\ d = None => P = All(c)
      /\ d # None => /\ d \in Places
                     /\ \A e \in P : ~Below(e, d)
                     /\ \A e \in All(c) \ P : Below(e, d)
                     /\ \E last \in All(c) : d = [at |-> entry[last], id |-> last]
  BY Zenon, <1>1, <1>2, NextFacts
<1>4. \A e \in walk.start : e \in Entries /\ entry[e] # None
  BY Zenon DEF TypeOK, WalkInv
<1>5. \A e \in P : entry[e] # None /\ Below(e, c) /\ (d # None => ~Below(e, d))
  BY Zenon, <1>3 DEF All
<1>6. \A e \in walk.start \ P : Below(e, c) => d # None /\ Below(e, d)
  BY Zenon, <1>3, <1>4 DEF All
<1>7. ASSUME NEW e \in Entries, walk.seen[e] = 1, d # None PROVE ~Below(e, d)
  <2>1. ~Below(e, c)
    BY Zenon, <1>7 DEF WalkInv, Divides
  <2>2. PICK last \in All(c) : d = [at |-> entry[last], id |-> last]
    BY Zenon, <1>3, <1>7
  <2>3. last \in Stored /\ e \in Stored /\ Below(last, c)
    BY Zenon, <1>7, <2>2 DEF All, Stored, WalkInv
  <2>4. c \in Places /\ c # None
    <3>1. c # None
      BY Zenon, <2>1 DEF Below
    <3>2. walk.cursor \in Cursors
      BY DEF TypeOK
    <3> QED BY Zenon, <3>1, <3>2, CursorPlace
  <2>5. /\ last \in Nat /\ e \in Nat /\ entry[last] \in Nat /\ entry[e] \in Nat
        /\ c.at \in Nat /\ c.id \in Nat
    <3>1. c.at \in Nat /\ c.id \in Entries
      BY <2>4 DEF Places
    <3> QED BY Zenon, <1>1, <2>3, <3>1, GatewayAssumption DEF Timed
  <2>6. ~Newer(last, e)
    BY <2>1, <2>3, <2>4, <2>5 DEF Below, Newer
  <2> QED BY Zenon, <1>1, <2>2, <2>3, <2>6, BelowIsOlder
<1>8. P \in SUBSET Entries
  BY Zenon, <1>3 DEF All
<1> QED BY Zenon, <1>2, <1>3, <1>5, <1>6, <1>7, <1>8 DEF Brings

\* Entries are added and never changed.
EntriesKept == \A e \in Entries : entry[e] # None => entry'[e] = entry[e]

\* The walk stands still: no page is asked for or brought, at most one is given up.
Still ==
    /\ EntriesKept /\ walk' = walk
    /\ \A n \in Pending' :
          /\ n \in Pending
          /\ \/ /\ log'[n].step = log[n].step /\ log'[n].err = log[n].err
                /\ log'[n].page = log[n].page /\ log'[n].cursor = log[n].cursor
             \/ log'[n].step = "done" /\ log'[n].err \in {"not_found", "internal"}

\* What a page brings does not depend on entries that come later.
LEMMA BringsKept ==
    ASSUME TypeOK, WalkInv, EntriesKept, walk' = walk, NEW page \in SUBSET Entries,
           NEW c, NEW d, Brings(page, c, d)
    PROVE  Brings(page, c, d)'
<1>1. \A e \in walk.start : e \in Entries /\ entry[e] # None
  BY Zenon DEF TypeOK, WalkInv
<1>2. \A e \in page : e \in Entries /\ entry[e] # None
  BY Zenon DEF Brings
<1>3. \A e \in Entries : walk.seen[e] = 1 => entry[e] # None
  BY Zenon DEF WalkInv
<1>4. \A e \in Entries : entry[e] # None =>
         /\ entry'[e] = entry[e] /\ (Below(e, c)' <=> Below(e, c)) /\ (Below(e, d)' <=> Below(e, d))
  BY Zenon DEF EntriesKept, Below
<1> QED BY Zenon, <1>1, <1>2, <1>3, <1>4 DEF Brings

\* Nor does what the cursor divides.
LEMMA DividesKept ==
    ASSUME TypeOK, WalkInv, EntriesKept, walk' = walk, NEW c, Divides(c)
    PROVE  Divides(c)'
<1>1. \A e \in Entries : walk.seen[e] = 1 \/ e \in walk.start => entry[e] # None
  BY Zenon DEF WalkInv
<1>2. \A e \in Entries : entry[e] # None => (Below(e, c)' <=> Below(e, c))
  BY Zenon DEF EntriesKept, Below
<1> QED BY Zenon, <1>1, <1>2 DEF Divides

\* A walk that stands still stays right.
LEMMA StillWalk ==
    ASSUME TypeOK, WalkInv, Still
    PROVE  WalkInv'
<1>1. walk' = walk /\ EntriesKept
  BY Zenon DEF Still
<1>2. Pending' \subseteq Pending
  BY Zenon DEF Still
<1>3. \A e \in Entries : walk'.seen[e] \in {0, 1}
  BY Zenon, <1>1 DEF WalkInv
<1>4. \A e \in Entries : walk'.seen[e] = 1 \/ e \in walk'.start => entry'[e] # None
  BY Zenon, <1>1 DEF WalkInv, EntriesKept
<1>5. walk'.state = "new" => walk'.cursor = <<>> /\ Pending' = {}
  BY Zenon, <1>1, <1>2 DEF WalkInv
<1>6. walk'.state = "done" => Pending' = {} /\ \A e \in walk'.start : walk'.seen[e] = 1
  BY Zenon, <1>1, <1>2 DEF WalkInv
<1>7. walk'.state # "done" => Divides(QueryCursor(walk.cursor))'
  <2>1. PICK c : c = QueryCursor(walk.cursor)
    BY Zenon
  <2>2. c = QueryCursor(walk.cursor)'
    BY Zenon, <1>1, <2>1 DEF QueryCursor
  <2>3. walk'.state # "done" => Divides(c)'
    BY Zenon, <1>1, <2>1, DividesKept DEF WalkInv
  <2> QED BY Zenon, <2>2, <2>3
<1>8. \A m, n \in Pending' : m = n
  BY Zenon, <1>2 DEF WalkInv
<1>9. ASSUME NEW n \in Pending' PROVE PendingInv(n)'
  <2>1. n \in Pending /\ PendingInv(n)
    BY Zenon, <1>2 DEF WalkInv
  <2>2. CASE log'[n].step = "done" /\ log'[n].err \in {"not_found", "internal"}
    BY Zenon, <2>2 DEF PendingInv
  <2>3. CASE /\ log'[n].step = log[n].step /\ log'[n].err = log[n].err
             /\ log'[n].page = log[n].page /\ log'[n].cursor = log[n].cursor
    <3>1. PICK page, c, d : /\ page = log[n].page /\ c = QueryCursor(walk.cursor)
                            /\ d = QueryCursor(log[n].cursor)
      BY Zenon
    <3>2. page = log'[n].page /\ c = QueryCursor(walk.cursor)' /\ d = QueryCursor(log[n].cursor)'
      BY Zenon, <1>1, <2>3, <3>1 DEF QueryCursor
    <3>3. page \in SUBSET Entries
      <4>1. n \in 1..Len(log)
        BY Zenon, <2>1 DEF Pending, Open
      <4> QED BY Zenon, <3>1, <4>1, LogFields DEF TypeOK
    <3>4. Brings(page, c, d) => Brings(page, c, d)'
      BY Zenon, <1>1, <3>3, BringsKept
    <3> QED BY Zenon, <1>1, <2>1, <2>3, <3>1, <3>2, <3>4 DEF PendingInv
  <2> QED BY Zenon, <2>2, <2>3 DEF Still
<1> QED BY Zenon, <1>3, <1>4, <1>5, <1>6, <1>7, <1>8, <1>9 DEF WalkInv

\* Request r has arrived, for payment p.
Arrived(r, p) ==
    /\ log' \in Seq(LogRecords) /\ Len(log') = Len(log) + 1
    /\ \A n \in 1..Len(log) : log'[n] = log[n]
    /\ LET new == log'[Len(log) + 1]
       IN  /\ new.req = r /\ new.at = clock /\ new.payment = p /\ new.key = KeyOf(r, p)
           /\ new.cursor = walk.cursor /\ new.page = {} /\ new.err = "none"
           /\ new.status = Early(r)
           /\ new.step = IF Early(r) = 0 THEN FirstStep(r) ELSE "done"

\* No page was on its way; now it may be the one asked for.
LEMMA AskPending ==
    ASSUME log \in Seq(LogRecords), NEW r, NEW p, Arrived(r, p),
           \A n \in Open : log[n].req.kind # "page"
    PROVE  /\ Pending = {}
           /\ \A n \in Pending' : /\ n = Len(log) + 1 /\ log'[n].req = r /\ log'[n].err = "none"
                                  /\ log'[n].cursor = walk.cursor /\ log'[n].step = FirstStep(r)
<1>1. Pending = {}
  BY Zenon DEF Pending
<1>2. 1..Len(log') = 1..Len(log) \cup {Len(log) + 1}
  BY DEF Arrived
<1>3. ASSUME NEW n \in Pending' PROVE n = Len(log) + 1
  <2>1. n \in 1..Len(log') /\ log'[n].status = 0 /\ log'[n].req.kind = "page"
    BY Zenon DEF Pending, Open
  <2>2. n \in 1..Len(log) => n \in Pending
    BY Zenon, <2>1 DEF Pending, Open, Arrived
  <2> QED BY Zenon, <1>1, <1>2, <2>1, <2>2
<1>4. ASSUME NEW n \in Pending' PROVE log'[n].step = FirstStep(r)
  <2>1. log'[n].status = 0
    BY Zenon DEF Pending, Open
  <2>2. n = Len(log) + 1
    BY Zenon, <1>3
  <2> QED BY Zenon, <2>1, <2>2 DEF Arrived
<1> QED BY Zenon, <1>1, <1>3, <1>4 DEF Arrived

\* The walk asks for a page.
LEMMA AskWalk ==
    ASSUME TypeOK, WalkInv, NEW r, NEW p, Arrived(r, p), MaySend(r), r.kind = "page",
           BeginWalk(r), entry' = entry
    PROVE  WalkInv'
<1>1. walk.state # "done" /\ \A n \in Open : log[n].req.kind # "page"
  BY Zenon DEF MaySend
<1>2. /\ Pending = {}
      /\ \A n \in Pending' : /\ n = Len(log) + 1 /\ log'[n].req = r /\ log'[n].err = "none"
                             /\ log'[n].cursor = walk.cursor /\ log'[n].step = FirstStep(r)
  BY Zenon, <1>1, AskPending DEF TypeOK
<1>3. FirstStep(r) = "page"
  BY DEF FirstStep
<1>4. /\ walk'.cursor = walk.cursor /\ walk'.seen = walk.seen /\ walk'.state = "reading"
      /\ \/ walk.state # "new" /\ walk'.start = walk.start
         \/ walk.state = "new" /\ walk'.start = Stored
  <2>1. walk \in [cursor : Cursors, seen : [Entries -> Nat], start : SUBSET Entries,
                  state : {"new", "reading", "done"}]
    BY Zenon DEF TypeOK
  <2>2. CASE walk.state = "new"
    <3>1. walk' = [walk EXCEPT !.state = "reading", !.start = Stored]
      BY Zenon, <2>2 DEF BeginWalk, Stored
    <3> QED BY <2>1, <2>2, <3>1
  <2>3. CASE walk.state # "new"
    <3>1. walk' = walk
      BY Zenon, <2>3 DEF BeginWalk
    <3>2. walk.state = "reading"
      BY <1>1, <2>1, <2>3
    <3> QED BY Zenon, <2>3, <3>1, <3>2
  <2> QED BY Zenon, <2>2, <2>3
<1>5. PICK c : c = QueryCursor(walk.cursor) /\ Divides(c)
  BY Zenon, <1>1 DEF WalkInv
<1>6. c = QueryCursor(walk.cursor)'
  BY Zenon, <1>4, <1>5 DEF QueryCursor
<1>7. \A e \in Entries : Below(e, c)' <=> Below(e, c)
  BY Zenon DEF Below
<1>8. Divides(c)'
  <2>1. CASE walk'.start = walk.start
    BY Zenon, <1>4, <1>5, <1>7, <2>1 DEF Divides
  <2>2. CASE walk.state = "new"
    <3>1. c = None
      BY Zenon, <1>5, <2>2 DEF WalkInv, QueryCursor
    <3>2. \A e \in Entries : Below(e, c)
      BY Zenon, <3>1 DEF Below
    <3> QED BY Zenon, <1>4, <1>5, <1>7, <3>2 DEF Divides
  <2> QED BY Zenon, <1>4, <2>1, <2>2
<1>9. \A e \in Entries : walk'.seen[e] \in {0, 1}
  BY Zenon, <1>4 DEF WalkInv
<1>10. \A e \in Entries : walk'.seen[e] = 1 \/ e \in walk'.start => entry'[e] # None
  BY Zenon, <1>4 DEF WalkInv, Stored
<1>11. walk'.state # "new" /\ walk'.state # "done"
  BY <1>4
<1>12. \A n \in Pending' : PendingInv(n)'
  BY Zenon, <1>2, <1>3, <1>4 DEF PendingInv
<1>13. \A m, n \in Pending' : m = n
  BY Zenon, <1>2
<1> QED BY Zenon, <1>6, <1>8, <1>9, <1>10, <1>11, <1>12, <1>13 DEF WalkInv

\* Request n, with the status it has now, keeps its place among those on their way.
PendingAfter(n, status) ==
    /\ status = log[n].status => Pending' = Pending
    /\ status # 0 => Pending' = Pending \ {n}
    /\ log[n].req.kind # "page" => Pending' = Pending

\* A request that goes on does.
LEMMA BecomesPending ==
    ASSUME NEW n \in 1..Len(log), NEW step, NEW err, NEW status, NEW cursor, NEW page,
           Becomes(n, step, err, status, cursor, page)
    PROVE  PendingAfter(n, status)
<1>1. /\ Len(log') = Len(log) /\ log'[n].req = log[n].req /\ log'[n].status = status
      /\ \A m \in 1..Len(log) : m # n => log'[m] = log[m]
  BY Zenon DEF Becomes
<1>2. \A m \in 1..Len(log) : log'[m].req = log[m].req
  BY Zenon, <1>1
<1>3. ASSUME status = log[n].status PROVE Pending' = Pending
  <2>1. \A m \in 1..Len(log) : log'[m].status = log[m].status
    BY Zenon, <1>1, <1>3
  <2> QED BY Zenon, <1>1, <1>2, <2>1 DEF Pending, Open
<1>4. ASSUME status # 0 PROVE Pending' = Pending \ {n}
  BY Zenon, <1>1, <1>2, <1>4 DEF Pending, Open
<1>5. ASSUME log[n].req.kind # "page" PROVE Pending' = Pending
  BY Zenon, <1>1, <1>2, <1>5 DEF Pending, Open
<1> QED BY Zenon, <1>3, <1>4, <1>5 DEF PendingAfter

\* The page asked for is read.
LEMMA ReadWalk ==
    ASSUME TypeOK, WalkInv, UNCHANGED <<entry, walk>>,
           NEW n \in 1..Len(log), log[n].step = "page",
           NEW c, c = QueryCursor(log[n].cursor), NEW rows, rows = Rows(c),
           NEW d, d = NextCursor(rows), NEW cursor, d = QueryCursor(cursor),
           Becomes(n, "done", log[n].err, log[n].status, cursor, PageOf(rows))
    PROVE  WalkInv'
<1>1. Pending' = Pending
  <2>1. PendingAfter(n, log[n].status)
    BY Zenon, BecomesPending
  <2> QED BY Zenon, <2>1 DEF PendingAfter
<1>2. \A m \in 1..Len(log) : m # n => log'[m] = log[m]
  BY Zenon DEF Becomes
<1>3. Pending \subseteq 1..Len(log)
  BY Zenon DEF Pending, Open
<1>4. CASE n \notin Pending
  <2>1. \A m \in Pending' : m \in Pending /\ log'[m] = log[m]
    BY Zenon, <1>1, <1>2, <1>3, <1>4
  <2>2. Still
    BY Zenon, <2>1 DEF Still, EntriesKept
  <2> QED BY Zenon, <2>2, StillWalk
<1>5. CASE n \in Pending
  <2>1. PendingInv(n) /\ Pending # {}
    BY Zenon, <1>5 DEF WalkInv
  <2>2. log[n].err = "none" /\ log[n].cursor = walk.cursor
    <3>1. log[n].step # "done"
      OBVIOUS
    <3> QED BY Zenon, <2>1, <3>1 DEF PendingInv
  <2>3. walk.state # "done"
    BY Zenon, <2>1 DEF WalkInv
  <2>4. c = QueryCursor(walk.cursor)
    BY Zenon, <2>2
  <2>5. Brings(PageOf(rows), c, d)
    BY Zenon, <2>3, <2>4, ReadBrings
  <2>6. PICK page : page = PageOf(rows)
    BY Zenon
  <2>7. Brings(page, c, d)'
    <3>1. Brings(page, c, d)
      BY Zenon, <2>5, <2>6
    <3>2. \A e \in Entries : (Below(e, c)' <=> Below(e, c)) /\ (Below(e, d)' <=> Below(e, d))
      BY Zenon DEF Below
    <3>3. page \in SUBSET Entries
      BY Zenon, <2>3, <2>4, <2>6, ReadBrings
    <3>4. EntriesKept
      BY Zenon DEF EntriesKept
    <3> QED BY Zenon, <3>1, <3>3, <3>4, BringsKept
  <2>8. PendingInv(n)'
    <3>1. /\ log'[n].step = "done" /\ log'[n].err = "none" /\ log'[n].page = page
          /\ log'[n].cursor = cursor
      BY Zenon, <2>2, <2>6 DEF Becomes
    <3>2. c = QueryCursor(walk.cursor)' /\ d = QueryCursor(log[n].cursor)'
      BY Zenon, <2>4, <3>1 DEF QueryCursor
    <3> QED BY Zenon, <2>7, <3>1, <3>2 DEF PendingInv
  <2>9. \A m \in Pending' : m = n
    BY Zenon, <1>1, <1>5 DEF WalkInv
  <2>10. Divides(QueryCursor(walk.cursor))'
    <3>1. Divides(c)
      BY Zenon, <2>3, <2>4 DEF WalkInv
    <3>2. \A e \in Entries : Below(e, c)' <=> Below(e, c)
      BY Zenon DEF Below
    <3>3. Divides(c)'
      BY Zenon, <3>1, <3>2 DEF Divides
    <3>4. c = QueryCursor(walk.cursor)'
      BY Zenon, <2>4 DEF QueryCursor
    <3> QED BY Zenon, <3>3, <3>4
  <2>11. walk'.state # "new" /\ walk'.state # "done" /\ walk' = walk /\ entry' = entry
    BY Zenon, <2>1, <2>3 DEF WalkInv
  <2> QED BY Zenon, <2>8, <2>9, <2>10, <2>11 DEF WalkInv
<1> QED BY Zenon, <1>4, <1>5

\* The client has got the page that request n brought.
Moved(n) ==
    /\ walk'.cursor = log[n].cursor /\ walk'.start = walk.start
    /\ walk'.state = IF log[n].cursor = <<>> THEN "done" ELSE walk.state
    /\ \A e \in Entries : walk'.seen[e] = IF e \in log[n].page THEN walk.seen[e] + 1
                                                               ELSE walk.seen[e]

\* A page that is answered moves the walk to its next cursor, or ends it.
LEMMA AnswerWalk ==
    ASSUME TypeOK, WalkInv, NEW n \in Pending, log[n].step = "done", log[n].err = "none",
           Moved(n), Pending' = Pending \ {n}, entry' = entry
    PROVE  WalkInv'
<1>1. Pending' = {}
  BY Zenon DEF WalkInv
<1>2. walk.state # "new" /\ walk.state # "done"
  BY Zenon DEF WalkInv
<1>3. n \in 1..Len(log)
  BY Zenon DEF Pending, Open
<1>4. PICK c, d, page : /\ c = QueryCursor(walk.cursor) /\ d = QueryCursor(log[n].cursor)
                        /\ page = log[n].page
  BY Zenon
<1>5. Divides(c)
  BY Zenon, <1>2, <1>4 DEF WalkInv
<1>6. Brings(page, c, d)
  <2>1. PendingInv(n)
    BY Zenon DEF WalkInv
  <2>2. log[n].step # "page" /\ log[n].err \notin {"not_found", "internal"}
    OBVIOUS
  <2> QED BY Zenon, <1>4, <2>1, <2>2 DEF PendingInv
<1>7. log[n].cursor \in Cursors /\ page \in SUBSET Entries
  BY Zenon, <1>3, <1>4, LogFields DEF TypeOK
<1>8. d = None <=> log[n].cursor = <<>>
  BY Zenon, <1>4, <1>7, CursorPlace
<1>9. \A e \in Entries : walk.seen[e] \in {0, 1}
  BY Zenon DEF WalkInv
<1>10. \A e \in Entries : e \in page => walk.seen[e] = 0 /\ walk'.seen[e] = 1
  <2>1. ASSUME NEW e \in Entries, e \in page PROVE walk.seen[e] = 0 /\ walk'.seen[e] = 1
    <3>1. walk.seen[e] = 0
      BY Zenon, <1>5, <1>6, <1>9, <2>1 DEF Brings, Divides
    <3>2. walk'.seen[e] = walk.seen[e] + 1
      BY Zenon, <1>4, <2>1 DEF Moved
    <3> QED BY <3>1, <3>2
  <2> QED BY Zenon, <2>1
<1>11. \A e \in Entries : e \notin page => walk'.seen[e] = walk.seen[e]
  BY Zenon, <1>4 DEF Moved
<1>12. \A e \in Entries : walk'.seen[e] \in {0, 1}
  BY Zenon, <1>9, <1>10, <1>11
<1>13. \A e \in Entries : walk'.seen[e] = 1 \/ e \in walk'.start => entry'[e] # None
  BY Zenon, <1>6, <1>11 DEF WalkInv, Brings, Moved
<1>14. walk'.state # "new"
  BY <1>2 DEF Moved
<1>15. ASSUME walk'.state = "done" PROVE \A e \in walk'.start : walk'.seen[e] = 1
  <2>1. d = None
    BY Zenon, <1>2, <1>8, <1>15 DEF Moved
  <2>2. ASSUME NEW e \in walk.start PROVE walk'.seen[e] = 1
    <3>1. e \in Entries
      BY DEF TypeOK
    <3>2. e \in page \/ walk.seen[e] # 0
      BY Zenon, <1>5, <1>6, <2>1, <2>2, <3>1 DEF Brings, Divides
    <3>3. walk.seen[e] # 0 => walk.seen[e] = 1
      BY Zenon, <1>9, <3>1
    <3> QED BY Zenon, <1>10, <1>11, <3>1, <3>2, <3>3
  <2> QED BY Zenon, <2>2 DEF Moved
<1>16. ASSUME walk'.state # "done" PROVE Divides(QueryCursor(walk.cursor))'
  <2>1. d # None
    BY Zenon, <1>8, <1>16 DEF Moved
  <2>2. d = QueryCursor(walk.cursor)'
    BY Zenon, <1>4 DEF QueryCursor, Moved
  <2>3. \A e \in Entries : Below(e, d)' <=> Below(e, d)
    BY Zenon DEF Below
  <2>4. ASSUME NEW e \in Entries, walk'.seen[e] = 1 PROVE ~Below(e, d)
    BY Zenon, <1>6, <1>11, <2>1, <2>4 DEF Brings
  <2>5. ASSUME NEW e \in Entries, e \in walk'.start, walk'.seen[e] = 0 PROVE Below(e, d)
    <3>1. e \notin page
      <4>1. e \in page => walk'.seen[e] # 0
        BY <1>10
      <4> QED BY Zenon, <2>5, <4>1
    <3>2. walk.seen[e] = 0 /\ e \in walk.start
      BY Zenon, <1>11, <2>5, <3>1 DEF Moved
    <3> QED BY Zenon, <1>5, <1>6, <3>1, <3>2 DEF Brings, Divides
  <2>6. Divides(d)'
    BY Zenon, <2>3, <2>4, <2>5 DEF Divides
  <2> QED BY Zenon, <2>2, <2>6
<1> QED BY Zenon, <1>1, <1>12, <1>13, <1>14, <1>15, <1>16 DEF WalkInv

-----------------------------------------------------------------------------
(* The payments.                                                           *)

\* Requests and rows stay; rows change only their state.
Kept ==
    /\ 1..Len(log) \subseteq 1..Len(log')
    /\ \A n \in 1..Len(log) : /\ log'[n].req = log[n].req /\ log'[n].payment = log[n].payment
                              /\ log'[n].key = log[n].key
    /\ \A p \in Payments : sagas[p] # None =>
          /\ sagas'[p] # None /\ sagas'[p].user = sagas[p].user /\ sagas'[p].key = sagas[p].key
          /\ sagas'[p].body = sagas[p].body /\ sagas'[p].by = sagas[p].by

\* No row is new.
NoneNew == \A p \in Payments : sagas'[p] # None => sagas[p] # None

\* What requests found in the table they find again.
LEMMA KeptMatches ==
    ASSUME Kept, NEW n \in 1..Len(log)
    PROVE  /\ \A p \in Payments : SameKey(n, p) => SameKey(n, p)'
           /\ \A p \in Payments : SameStartPayload(n, p) => SameStartPayload(n, p)'
           /\ log[n].payment \in Payments /\ Duplicate(n) => Duplicate(n)'
<1>1. \A p \in Payments : SameKey(n, p) => SameKey(n, p)'
  BY Zenon DEF Kept, SameKey
<1>2. \A p \in Payments : SameStartPayload(n, p) => SameStartPayload(n, p)'
  BY Zenon, <1>1 DEF Kept, SameStartPayload, SameKey
<1>3. log[n].payment \in Payments /\ Duplicate(n) => Duplicate(n)'
  BY Zenon, <1>1 DEF Kept, Duplicate
<1> QED BY Zenon, <1>1, <1>2, <1>3

\* A start stays one, and no other request becomes one.
LEMMA KeptStarts ==
    ASSUME Kept
    PROVE  Starts \subseteq Starts' /\ \A n \in 1..Len(log) : n \in Starts' => n \in Starts
BY Zenon DEF Kept, Starts

\* A row stays that of a start.
LEMMA KeptRow ==
    ASSUME StartsInv, Kept, NEW p \in Payments, sagas[p] # None
    PROVE  \E n \in Starts' : SameStartPayload(n, p)' /\ sagas'[p].by = n
<1>1. PICK n \in Starts : SameStartPayload(n, p) /\ sagas[p].by = n
  BY Zenon DEF StartsInv, RowInv
<1>2. n \in 1..Len(log)
  BY Zenon DEF Starts
<1>3. SameStartPayload(n, p)' /\ n \in Starts' /\ sagas'[p].by = n
  BY Zenon, <1>1, <1>2, KeptMatches, KeptStarts DEF Kept
<1> QED BY Zenon, <1>3

\* Without a new row each is alone with its user and key.
LEMMA KeptRows ==
    ASSUME StartsInv, Kept, NoneNew
    PROVE  \A p \in Payments : RowInv(p)'
<1>1. ASSUME NEW p \in Payments, sagas'[p] # None
      PROVE  \E n \in Starts' : SameStartPayload(n, p)' /\ sagas'[p].by = n
  BY Zenon, <1>1, KeptRow DEF NoneNew
<1>2. ASSUME NEW p \in Payments, sagas'[p] # None, NEW q \in Payments, sagas'[q] # None,
             sagas'[q].user = sagas'[p].user, sagas'[q].key = sagas'[p].key
      PROVE  q = p
  <2>1. sagas[p] # None /\ sagas[q] # None
    BY Zenon, <1>2 DEF NoneNew
  <2>2. sagas[q].user = sagas[p].user /\ sagas[q].key = sagas[p].key
    BY Zenon, <1>2, <2>1 DEF Kept
  <2> QED BY Zenon, <2>1, <2>2 DEF StartsInv, RowInv
<1> QED BY Zenon, <1>1, <1>2 DEF RowInv

\* An earlier start that asked for something else.
Conflict(n) ==
    \E m \in Starts : /\ log[m].req # log[n].req
                      /\ \/ log[m].payment = log[n].payment
                         \/ /\ log[m].req.token.user = log[n].req.token.user
                            /\ log[m].key = log[n].key

\* What is asked of a step of the start n.
StartGoes(n) ==
    /\ log'[n].step # "done" => log[n].step # "done" /\ log'[n].err = "none"
    /\ log'[n].step = "find" => Duplicate(n)'
    /\ Matched(n)' => SameStartPayload(n, log[n].payment)'
    /\ log'[n].status = 202 => log'[n].step = "done" /\ log'[n].err = "none"
    /\ log'[n].err = "exists" => \/ log[n].err = "exists"
                                 \/ log[n].req.payment = None
                                 \/ Conflict(n)

\* Nothing is asked of a start that stays where it is, or whose client is told
\* of its success or of an error.
LEMMA IdleGoes ==
    ASSUME StartsInv, Kept, NEW n \in Starts,
           log'[n].step = log[n].step, log'[n].err = log[n].err,
           \/ log'[n].status = log[n].status
           \/ log'[n].status \notin {0, 202}
           \/ log[n].status = 0 /\ log[n].step = "done" /\ log[n].err = "none"
    PROVE  StartGoes(n)
<1>1. StartInv(n) /\ n \in 1..Len(log)
  BY Zenon DEF StartsInv, Starts
<1>2. log'[n].payment = log[n].payment
  BY Zenon, <1>1 DEF Kept
<1>3. Duplicate(n) => Duplicate(n)'
  BY Zenon, <1>1, KeptMatches DEF StartInv
<1>4. SameStartPayload(n, log[n].payment) => SameStartPayload(n, log[n].payment)'
  <2>1. PICK p \in Payments : p = log[n].payment
    BY Zenon, <1>1 DEF StartInv
  <2> QED BY Zenon, <1>1, <1>2, <2>1, KeptMatches
<1>5. Matched(n)' => Matched(n)
  BY Zenon DEF Matched
<1>6. log'[n].status = 202 => log'[n].step = "done" /\ log'[n].err = "none"
  BY Zenon, <1>1 DEF StartInv
<1> QED BY Zenon, <1>1, <1>3, <1>4, <1>5, <1>6 DEF StartInv, StartGoes

\* If every start goes on as it may, the starts and their rows are as they should.
LEMMA StartsGo ==
    ASSUME StartsInv, Kept, \A p \in Payments : RowInv(p)',
           \A n \in Starts : StartGoes(n),
           \A n \in Starts' : n \notin Starts => StartInv(n)' /\ log'[n].err # "exists"
    PROVE  StartsInv'
<1>1. Starts \subseteq Starts' /\ Starts \subseteq 1..Len(log)
  BY Zenon, KeptStarts DEF Starts
<1>2. \A n \in Starts : /\ log'[n].req = log[n].req /\ log'[n].payment = log[n].payment
                        /\ log'[n].key = log[n].key
  BY Zenon, <1>1 DEF Kept
<1>3. ASSUME NEW n \in Starts PROVE StartInv(n)'
  <2>1. StartInv(n) /\ StartGoes(n)
    BY Zenon DEF StartsInv
  <2>2. log'[n].key = KeyOf(log'[n].req, log'[n].payment)
    BY Zenon, <1>2, <2>1 DEF StartInv, KeyOf
  <2> QED BY Zenon, <1>2, <2>1, <2>2 DEF StartInv, StartGoes
<1>4. ASSUME NEW n \in Starts, log'[n].err = "exists", log'[n].req.payment # None
      PROVE  Conflict(n)'
  <2>1. Conflict(n)
    <3>1. StartGoes(n) /\ log[n].req.payment # None
      BY Zenon, <1>2, <1>4
    <3>2. log[n].err = "exists" \/ Conflict(n)
      BY Zenon, <1>4, <3>1 DEF StartGoes
    <3>3. log[n].err = "exists" => Conflict(n)
      BY Zenon, <3>1 DEF StartsInv, RetryNeverConflicts, Conflict
    <3> QED BY Zenon, <3>2, <3>3
  <2> QED BY Zenon, <1>1, <1>2, <2>1 DEF Conflict
<1>5. RetryNeverConflicts'
  BY Zenon, <1>1, <1>4 DEF RetryNeverConflicts, Conflict
<1> QED BY Zenon, <1>1, <1>3, <1>5 DEF StartsInv

\* One of them, if it is one.
LEMMA OneStartGoes ==
    ASSUME StartsInv, Kept, \A p \in Payments : RowInv(p)', NEW n \in 1..Len(log),
           NEW step, NEW err, NEW status, NEW cursor, NEW page,
           Becomes(n, step, err, status, cursor, page),
           n \in Starts => StartGoes(n)
    PROVE  StartsInv'
<1>1. Len(log') = Len(log) /\ \A m \in 1..Len(log) : m # n => log'[m] = log[m]
  BY Zenon DEF Becomes
<1>2. \A m \in Starts : m # n => StartGoes(m)
  BY Zenon, <1>1, IdleGoes DEF Starts
<1>3. \A m \in Starts' : m \in Starts
  BY Zenon, <1>1, KeptStarts DEF Starts
<1> QED BY Zenon, <1>2, <1>3, StartsGo

\* A step of a request keeps the others, and what the client sent.
LEMMA BecomesKept ==
    ASSUME NEW n \in 1..Len(log), NEW step, NEW err, NEW status, NEW cursor, NEW page,
           Becomes(n, step, err, status, cursor, page), sagas' = sagas
    PROVE  Kept /\ NoneNew
<1>1. 1..Len(log) \subseteq 1..Len(log')
  BY Zenon DEF Becomes
<1>2. \A m \in 1..Len(log) : /\ log'[m].req = log[m].req /\ log'[m].payment = log[m].payment
                             /\ log'[m].key = log[m].key
  BY Zenon DEF Becomes
<1> QED BY Zenon, <1>1, <1>2 DEF Kept, NoneNew

\* A row in the way of a start that names its payment is that of another.
LEMMA FoundConflict ==
    ASSUME TypeOK, StartsInv, NEW n \in Starts, Duplicate(n), log[n].req.payment # None,
           ~SameStartPayload(n, Existing(n))
    PROVE  Conflict(n)
<1>1. /\ log[n].payment \in Payments /\ log[n].payment = log[n].req.payment
      /\ log[n].key = KeyOf(log[n].req, log[n].payment)
  BY Zenon DEF StartsInv, StartInv
<1>2. PICK p : p = Existing(n)
  BY Zenon
<1>3. p \in Payments /\ sagas[p] # None /\ (p = log[n].payment \/ SameKey(n, p))
  <2>1. CASE sagas[log[n].payment] # None
    BY Zenon, <1>1, <1>2, <2>1 DEF Existing
  <2>2. CASE sagas[log[n].payment] = None
    <3>1. \E q \in Payments : SameKey(n, q)
      BY Zenon, <2>2 DEF Duplicate
    <3>2. p = CHOOSE q \in Payments : SameKey(n, q)
      BY Zenon, <1>2, <2>2 DEF Existing
    <3>3. p \in Payments /\ SameKey(n, p)
      BY Zenon, <3>1, <3>2
    <3> QED BY Zenon, <3>3 DEF SameKey
  <2> QED BY Zenon, <2>1, <2>2
<1>4. PICK m \in Starts : SameStartPayload(m, p) /\ sagas[p].by = m
  BY Zenon, <1>3 DEF StartsInv, RowInv
<1>5. StartInv(m)
  BY Zenon DEF StartsInv
<1>6. ASSUME log[m].req = log[n].req PROVE FALSE
  <2>1. log[m].payment = log[n].payment
    BY Zenon, <1>1, <1>5, <1>6 DEF StartInv
  <2>2. log[m].key = log[n].key
    BY Zenon, <1>1, <1>5, <1>6, <2>1 DEF StartInv
  <2>3. SameStartPayload(n, p)
    BY Zenon, <1>4, <1>6, <2>1, <2>2 DEF SameStartPayload, SameKey
  <2> QED BY Zenon, <1>2, <2>3
<1>7. CASE p = log[n].payment
  <2>1. log[m].payment = log[n].payment
    BY Zenon, <1>4, <1>7 DEF SameStartPayload
  <2> QED BY Zenon, <1>6, <2>1 DEF Conflict
<1>8. CASE SameKey(n, p)
  <2>1. log[m].req.token.user = log[n].req.token.user /\ log[m].key = log[n].key
    BY Zenon, <1>4, <1>8 DEF SameStartPayload, SameKey
  <2> QED BY Zenon, <1>6, <2>1 DEF Conflict
<1> QED BY Zenon, <1>3, <1>7, <1>8

\* A new row is that of its start, and alone with its user and key.
LEMMA InsertRows ==
    ASSUME TypeOK, StartsInv, Kept, NEW n \in Starts, ~Duplicate(n),
           NEW row \in SagaRows, sagas' = [sagas EXCEPT ![log[n].payment] = row],
           row.user = log[n].req.token.user, row.key = log[n].key,
           row.body = log[n].req.body, row.by = n
    PROVE  /\ \A p \in Payments : RowInv(p)'
           /\ SameStartPayload(n, log[n].payment)'
<1>1. PICK p \in Payments : p = log[n].payment
  BY Zenon DEF StartsInv, StartInv
<1>2. n \in 1..Len(log) /\ n \in Starts'
  BY Zenon, KeptStarts DEF Starts
<1>3. /\ log'[n].payment = p /\ log'[n].req = log[n].req /\ log'[n].key = log[n].key
  BY Zenon, <1>1, <1>2 DEF Kept
<1>4. DOMAIN sagas = Payments
  BY Zenon DEF TypeOK
<1>5. sagas'[p] = row /\ \A q \in Payments \ {p} : sagas'[q] = sagas[q]
  BY Zenon, <1>1, <1>4
<1>6. row # None
  BY Zenon, NoneAssumption
<1>7. SameStartPayload(n, p)'
  BY Zenon, <1>3, <1>5, <1>6 DEF SameStartPayload, SameKey
<1>8. ASSUME NEW q \in Payments, sagas'[q] # None
      PROVE  \E m \in Starts' : SameStartPayload(m, q)' /\ sagas'[q].by = m
  <2>1. CASE q = p
    BY Zenon, <1>2, <1>5, <1>7, <2>1
  <2>2. CASE q # p
    <3>1. sagas[q] # None
      BY Zenon, <1>5, <1>8, <2>2
    <3> QED BY Zenon, <3>1, KeptRow
  <2> QED BY Zenon, <2>1, <2>2
<1>9. \A q \in Payments \ {p} : sagas'[q] # None =>
         ~(sagas'[q].user = row.user /\ sagas'[q].key = row.key)
  BY Zenon, <1>5 DEF Duplicate, SameKey
<1>10. ASSUME NEW q \in Payments, sagas'[q] # None, NEW x \in Payments, sagas'[x] # None,
              sagas'[x].user = sagas'[q].user, sagas'[x].key = sagas'[q].key
       PROVE  x = q
  <2>1. CASE x # p /\ q # p
    <3>1. sagas'[x] = sagas[x] /\ sagas'[q] = sagas[q] /\ RowInv(q)
      BY Zenon, <1>5, <2>1 DEF StartsInv
    <3> QED BY Zenon, <1>10, <3>1 DEF RowInv
  <2>2. CASE x = p /\ q # p
    <3>1. sagas'[x] = row /\ sagas'[q].user = row.user /\ sagas'[q].key = row.key
      BY Zenon, <1>5, <1>10, <2>2
    <3> QED BY Zenon, <1>9, <1>10, <2>2, <3>1
  <2>3. CASE q = p /\ x # p
    <3>1. sagas'[q] = row /\ sagas'[x].user = row.user /\ sagas'[x].key = row.key
      BY Zenon, <1>5, <1>10, <2>3
    <3> QED BY Zenon, <1>9, <1>10, <2>3, <3>1
  <2> QED BY Zenon, <2>1, <2>2, <2>3
<1>11. \A q \in Payments : RowInv(q)'
  BY Zenon, <1>8, <1>10 DEF RowInv
<1>12. SameStartPayload(n, log[n].payment)'
  BY Zenon, <1>3, <1>7
<1> QED BY Zenon, <1>11, <1>12

-----------------------------------------------------------------------------
(* The steps of a request.                                                 *)

\* The tables, and the walk.
TablesOK ==
    /\ sagas \in [Payments -> {None} \cup SagaRows]
    /\ entry \in [Entries -> {None} \cup 0..clock]
    /\ walk \in [cursor : Cursors, seen : [Entries -> Nat], start : SUBSET Entries,
                 state : {"new", "reading", "done"}]
    /\ lost \in Nat

\* The step tells the kind.
LEMMA StepKind ==
    ASSUME StepsInv, NEW n \in 1..Len(log)
    PROVE  /\ log[n].step \in {"insert", "find", "advance"} => n \in Starts
           /\ log[n].step = "page" => log[n].req.kind = "page"
           /\ log[n].step = "transfer" => log[n].req.kind = "transfer"
           /\ log[n].step = "serve" => log[n].req.kind \notin {"start", "page", "transfer"}
           /\ "done" \in StepsOf(log[n].req)
           /\ n \in Starts => {"insert", "find", "advance"} \subseteq StepsOf(log[n].req)
<1>1. log[n].step \in StepsOf(log[n].req)
  BY Zenon DEF StepsInv
<1>2. n \in Starts <=> log[n].req.kind = "start"
  BY Zenon DEF Starts
<1>3. CASE log[n].req.kind = "start"
  <2>1. StepsOf(log[n].req) = {"insert", "find", "advance", "done"}
    BY <1>3 DEF StepsOf
  <2> QED BY <1>1, <1>2, <1>3, <2>1
<1>4. CASE log[n].req.kind = "page"
  <2>1. StepsOf(log[n].req) = {"page", "done"}
    BY <1>4 DEF StepsOf
  <2> QED BY <1>1, <1>2, <1>4, <2>1
<1>5. CASE log[n].req.kind = "transfer"
  <2>1. StepsOf(log[n].req) = {"transfer", "done"}
    BY <1>5 DEF StepsOf
  <2> QED BY <1>1, <1>2, <1>5, <2>1
<1>6. CASE log[n].req.kind \notin {"start", "page", "transfer"}
  <2>1. StepsOf(log[n].req) = {"serve", "done"}
    BY <1>6 DEF StepsOf
  <2> QED BY <1>1, <1>2, <1>6, <2>1
<1> QED BY Zenon, <1>3, <1>4, <1>5, <1>6

\* What all steps of a request have in common.
LEMMA RequestStep ==
    ASSUME GatewayInv, NEW n \in 1..Len(log),
           NEW step, NEW err, NEW status, NEW cursor, NEW page,
           Becomes(n, step, err, status, cursor, page), UNCHANGED <<clock, bucket>>,
           step \in StepsOf(log[n].req),
           status = log[n].status \/ (log[n].status = 0 /\ status \notin {401, 429}),
           TablesOK', StartsInv', WalkInv'
    PROVE  GatewayInv'
<1>1. /\ log' \in Seq(LogRecords) /\ Len(log') = Len(log) /\ log \in Seq(LogRecords)
      /\ \A m \in 1..Len(log) : m # n => log'[m] = log[m]
      /\ log'[n].req = log[n].req /\ log'[n].at = log[n].at
      /\ log'[n].step = step /\ log'[n].status = status
  BY Zenon DEF Becomes, GatewayInv, TypeOK
<1>2. Quiet
  <2>1. Len(log) <= Len(log') /\ \A m \in 1..Len(log') : m \in 1..Len(log)
    BY <1>1
  <2>2. \A m \in 1..Len(log) :
          /\ log'[m].req = log[m].req /\ log'[m].at = log[m].at
          /\ log'[m].status = log[m].status \/ (log[m].status = 0 /\ log'[m].status \notin {401, 429})
    BY <1>1
  <2> QED BY Zenon, <1>1, <2>1, <2>2 DEF Quiet
<1>3. LimiterInv'
  BY Zenon, <1>2, QuietLimiter DEF GatewayInv, TypeOK
<1>4. StepsInv'
  <2>1. ASSUME NEW m \in 1..Len(log) PROVE log'[m].step \in StepsOf(log'[m].req)
    <3>1. CASE m = n
      BY Zenon, <1>1, <3>1
    <3>2. CASE m # n
      <4>1. log[m].step \in StepsOf(log[m].req)
        BY Zenon DEF GatewayInv, StepsInv
      <4>2. log'[m] = log[m]
        BY Zenon, <1>1, <3>2
      <4> QED BY Zenon, <4>1, <4>2
    <3> QED BY Zenon, <3>1, <3>2
  <2> QED BY Zenon, <1>1, <2>1 DEF StepsInv, StepsOf
<1>5. TypeOK'
  BY Zenon, <1>1 DEF TypeOK, TablesOK, GatewayInv
<1> QED BY Zenon, <1>3, <1>4, <1>5 DEF GatewayInv

\* A walk does not depend on steps of other requests.
LEMMA RequestWalk ==
    ASSUME TypeOK, WalkInv, EntriesKept, walk' = walk, NEW n \in 1..Len(log),
           NEW step, NEW err, NEW status, NEW cursor, NEW page,
           Becomes(n, step, err, status, cursor, page),
           \/ log[n].req.kind # "page"
           \/ step = "done" /\ err \in {"not_found", "internal"} /\ status = log[n].status
           \/ status # 0
    PROVE  WalkInv'
<1>1. /\ \A m \in 1..Len(log) : m # n => log'[m] = log[m]
      /\ log'[n].step = step /\ log'[n].err = err
  BY Zenon DEF Becomes
<1>2. Pending' \subseteq Pending /\ (status # 0 => n \notin Pending')
  <2>1. PendingAfter(n, status)
    BY Zenon, BecomesPending
  <2> QED BY Zenon, <2>1 DEF PendingAfter
<1>3. Pending \subseteq 1..Len(log)
  BY Zenon DEF Pending, Open
<1>4. n \in Pending' => step = "done" /\ err \in {"not_found", "internal"}
  <2>1. log[n].req.kind # "page" => n \notin Pending
    BY Zenon DEF Pending
  <2> QED BY Zenon, <1>2, <2>1
<1>5. Still
  BY Zenon, <1>1, <1>2, <1>3, <1>4 DEF Still
<1> QED BY Zenon, <1>5, StillWalk

\* Create keeps the invariant: its row is new, or it goes on to look for the other.
LEMMA InsertHolds ==
    ASSUME GatewayInv, NEW n \in 1..Len(log), Insert(n)
    PROVE  GatewayInv'
<1>1. TypeOK /\ StepsInv /\ StartsInv /\ WalkInv
  BY Zenon DEF GatewayInv
<1>2. log[n].step = "insert" /\ UNCHANGED <<clock, bucket, entry, walk, lost>>
  BY Zenon DEF Insert, At
<1>3. n \in Starts /\ {"insert", "find", "advance"} \subseteq StepsOf(log[n].req)
  <2>1. log[n].step \in {"insert", "find", "advance"}
    BY Zenon, <1>2
  <2> QED BY Zenon, <1>1, <2>1, StepKind
<1>4. StartInv(n) /\ log[n].step # "done" /\ log[n].err = "none" /\ log[n].status # 202
  <2>1. StartInv(n)
    BY Zenon, <1>1, <1>3 DEF StartsInv
  <2>2. log[n].step # "done"
    BY <1>2
  <2> QED BY Zenon, <2>1, <2>2 DEF StartInv
<1>5. EntriesKept
  BY Zenon, <1>2 DEF EntriesKept
<1>6. log[n].req.kind # "page"
  <2>1. log[n].req.kind = "start"
    BY Zenon, <1>3 DEF Starts
  <2> QED BY <2>1
<1>7. CASE Duplicate(n)
  <2>1. Goto(n, "find") /\ sagas' = sagas
    BY Zenon, <1>7 DEF Insert
  <2>2. Becomes(n, "find", log[n].err, log[n].status, log[n].cursor, log[n].page)
    BY Zenon, <1>1, <2>1, LogWrites DEF TypeOK
  <2>3. Kept /\ NoneNew
    BY Zenon, <2>1, <2>2, BecomesKept
  <2>4. Duplicate(n)'
    BY Zenon, <1>4, <1>7, <2>3, KeptMatches DEF StartInv
  <2>5. /\ log'[n].step = "find" /\ log'[n].err = log[n].err /\ log'[n].status = log[n].status
    BY Zenon, <2>2 DEF Becomes
  <2>6. ~Matched(n)'
    BY <2>5 DEF Matched
  <2>7. log'[n].err # "exists"
    BY <1>4, <2>5
  <2>8. StartGoes(n)
    BY Zenon, <1>4, <2>4, <2>5, <2>6, <2>7 DEF StartGoes
  <2>9. StartsInv'
    BY Zenon, <1>1, <2>2, <2>3, <2>8, KeptRows, OneStartGoes
  <2>10. WalkInv'
    BY Zenon, <1>1, <1>2, <1>5, <1>6, <2>2, RequestWalk
  <2>11. TablesOK'
    BY Zenon, <1>1, <1>2, <2>1 DEF TablesOK, TypeOK
  <2>12. "find" \in StepsOf(log[n].req)
    BY Zenon, <1>3
  <2> QED BY Zenon, <1>2, <2>2, <2>9, <2>10, <2>11, <2>12, RequestStep
<1>8. CASE ~Duplicate(n)
  <2>1. PICK row : row = [user |-> log[n].req.token.user, key |-> log[n].key,
                          body |-> log[n].req.body, state |-> "STARTED", by |-> n]
    BY Zenon
  <2>2. Goto(n, "advance") /\ sagas' = [sagas EXCEPT ![log[n].payment] = row]
    BY Zenon, <1>8, <2>1 DEF Insert
  <2>3. Becomes(n, "advance", log[n].err, log[n].status, log[n].cursor, log[n].page)
    BY Zenon, <1>1, <2>2, LogWrites DEF TypeOK
  <2>4. /\ row.user = log[n].req.token.user /\ row.key = log[n].key
        /\ row.body = log[n].req.body /\ row.by = n
    BY <2>1
  <2>5. row \in SagaRows
    <3>1. log[n].req \in Requests /\ log[n].key \in Keys
      BY Zenon, <1>1, LogFields DEF TypeOK
    <3>2. log[n].req.token.user \in Users
      BY Zenon, <1>4, <3>1, RoutesAssumption DEF StartInv
    <3>3. n \in Nat
      OBVIOUS
    <3>4. log[n].req.body \in {r.body : r \in Requests}
      BY Zenon, <3>1
    <3> QED BY <2>1, <3>1, <3>2, <3>3, <3>4 DEF SagaRows
  <2>6. PICK p \in Payments : p = log[n].payment
    BY Zenon, <1>4 DEF StartInv
  <2>7. sagas[p] = None
    BY Zenon, <1>8, <2>6 DEF Duplicate
  <2>8. Kept
    <3>1. \A q \in Payments : sagas[q] # None => sagas'[q] = sagas[q]
      <4>1. DOMAIN sagas = Payments
        BY Zenon, <1>1 DEF TypeOK
      <4> QED BY Zenon, <2>2, <2>6, <2>7, <4>1
    <3>2. 1..Len(log) \subseteq 1..Len(log')
      BY Zenon, <2>3 DEF Becomes
    <3>3. \A m \in 1..Len(log) : /\ log'[m].req = log[m].req /\ log'[m].payment = log[m].payment
                                 /\ log'[m].key = log[m].key
      BY Zenon, <2>3 DEF Becomes
    <3> QED BY Zenon, <3>1, <3>2, <3>3 DEF Kept
  <2>9. (\A q \in Payments : RowInv(q)') /\ SameStartPayload(n, log[n].payment)'
    BY Zenon, <1>1, <1>3, <1>8, <2>2, <2>4, <2>5, <2>8, InsertRows
  <2>10. /\ log'[n].step = "advance" /\ log'[n].err = log[n].err
         /\ log'[n].status = log[n].status
    BY Zenon, <2>3 DEF Becomes
  <2>11. log'[n].step # "find" /\ log'[n].err # "exists"
    BY <1>4, <2>10
  <2>12. StartGoes(n)
    BY Zenon, <1>4, <2>9, <2>10, <2>11 DEF StartGoes
  <2>13. StartsInv'
    BY Zenon, <1>1, <2>3, <2>8, <2>9, <2>12, OneStartGoes
  <2>14. WalkInv'
    BY Zenon, <1>1, <1>2, <1>5, <1>6, <2>3, RequestWalk
  <2>15. TablesOK'
    <3>1. sagas' \in [Payments -> {None} \cup SagaRows]
      BY Zenon, <1>1, <2>2, <2>5, <2>6 DEF TypeOK
    <3> QED BY Zenon, <1>1, <1>2, <3>1 DEF TablesOK, TypeOK
  <2>16. "advance" \in StepsOf(log[n].req)
    BY Zenon, <1>3
  <2> QED BY Zenon, <1>2, <2>3, <2>13, <2>14, <2>15, <2>16, RequestStep
<1> QED BY Zenon, <1>7, <1>8

\* Steps that leave the payments as they are.
LEMMA SteadyStep ==
    ASSUME GatewayInv, NEW n \in 1..Len(log),
           NEW step, NEW err, NEW status, NEW cursor, NEW page,
           Becomes(n, step, err, status, cursor, page), UNCHANGED <<clock, bucket, sagas>>,
           step \in StepsOf(log[n].req),
           status = log[n].status \/ (log[n].status = 0 /\ status \notin {401, 429}),
           n \in Starts => StartGoes(n),
           TablesOK', WalkInv'
    PROVE  GatewayInv'
<1>1. StartsInv
  BY Zenon DEF GatewayInv
<1>2. Kept /\ NoneNew
  BY Zenon, BecomesKept
<1>3. \A p \in Payments : RowInv(p)'
  BY Zenon, <1>1, <1>2, KeptRows
<1>4. StartsInv'
  BY Zenon, <1>1, <1>2, <1>3, OneStartGoes
<1> QED BY Zenon, <1>4, RequestStep

\* findDuplicate keeps it: what it finds is the row that was in the way.
LEMMA FindHolds ==
    ASSUME GatewayInv, NEW n \in 1..Len(log), FindDuplicate(n)
    PROVE  GatewayInv'
<1>1. TypeOK /\ StepsInv /\ StartsInv /\ WalkInv
  BY Zenon DEF GatewayInv
<1>2. log[n].step = "find" /\ UNCHANGED <<clock, bucket, sagas, entry, walk, lost>>
  BY Zenon DEF FindDuplicate, At
<1>3. n \in Starts /\ {"insert", "find", "advance"} \subseteq StepsOf(log[n].req)
      /\ "done" \in StepsOf(log[n].req)
  <2>1. log[n].step \in {"insert", "find", "advance"}
    BY Zenon, <1>2
  <2> QED BY Zenon, <1>1, <2>1, StepKind
<1>4. StartInv(n) /\ Duplicate(n) /\ log[n].err = "none" /\ log[n].status # 202
      /\ log[n].step # "done"
  <2>1. StartInv(n)
    BY Zenon, <1>1, <1>3 DEF StartsInv
  <2>2. log[n].step # "done"
    BY <1>2
  <2> QED BY Zenon, <1>2, <2>1, <2>2 DEF StartInv
<1>5. log[n].req.kind # "page" /\ EntriesKept
  <2>1. log[n].req.kind = "start"
    BY Zenon, <1>3 DEF Starts
  <2>2. EntriesKept
    BY Zenon, <1>2 DEF EntriesKept
  <2> QED BY <2>1, <2>2
<1>6. TablesOK'
  BY Zenon, <1>1, <1>2 DEF TablesOK, TypeOK
<1>7. \A step, err :
         /\ Becomes(n, step, err, log[n].status, log[n].cursor, log[n].page)
         /\ step \in StepsOf(log[n].req) /\ StartGoes(n)
         => GatewayInv'
  <2>1. ASSUME NEW step, NEW err,
               Becomes(n, step, err, log[n].status, log[n].cursor, log[n].page),
               step \in StepsOf(log[n].req), StartGoes(n)
        PROVE  GatewayInv'
    <3>1. WalkInv'
      BY Zenon, <1>1, <1>2, <1>5, <2>1, RequestWalk
    <3> QED BY Zenon, <1>2, <1>6, <2>1, <3>1, SteadyStep
  <2> QED BY Zenon, <2>1
<1>8. Return(n, "exists") => Becomes(n, "done", "exists", log[n].status, log[n].cursor, log[n].page)
  <2>1. "exists" \in Errors
    BY DEF Errors
  <2> QED BY Zenon, <1>1, <2>1, LogWrites DEF TypeOK
<1>9. Return(n, "none") => Becomes(n, "done", "none", log[n].status, log[n].cursor, log[n].page)
  <2>1. "none" \in Errors
    BY DEF Errors
  <2> QED BY Zenon, <1>1, <2>1, LogWrites DEF TypeOK
<1>10. Goto(n, "advance")
       => Becomes(n, "advance", log[n].err, log[n].status, log[n].cursor, log[n].page)
  BY Zenon, <1>1, LogWrites DEF TypeOK
<1>11. CASE ~SameStartPayload(n, Existing(n))
  <2>1. Becomes(n, "done", "exists", log[n].status, log[n].cursor, log[n].page)
    BY Zenon, <1>8, <1>11 DEF FindDuplicate
  <2>2. log'[n].step = "done" /\ log'[n].err = "exists" /\ log'[n].status = log[n].status
    BY Zenon, <2>1 DEF Becomes
  <2>3. log'[n].step # "find" /\ ~Matched(n)'
    BY <2>2 DEF Matched
  <2>4. log[n].req.payment = None \/ Conflict(n)
    BY Zenon, <1>1, <1>3, <1>4, <1>11, FoundConflict
  <2>5. StartGoes(n)
    BY Zenon, <1>4, <2>2, <2>3, <2>4 DEF StartGoes
  <2> QED BY Zenon, <1>3, <1>7, <2>1, <2>5
<1>12. CASE SameStartPayload(n, Existing(n))
  <2>1. SameStartPayload(n, log[n].payment)
    BY Zenon, <1>12 DEF SameStartPayload
  <2>2. \/ Becomes(n, "advance", log[n].err, log[n].status, log[n].cursor, log[n].page)
        \/ Becomes(n, "done", "none", log[n].status, log[n].cursor, log[n].page)
    BY Zenon, <1>9, <1>10, <1>12 DEF FindDuplicate
  <2>3. /\ log'[n].step \in {"advance", "done"} /\ log'[n].err = "none"
        /\ log'[n].status = log[n].status
    BY Zenon, <1>4, <2>2 DEF Becomes
  <2>4. log'[n].step # "find" /\ log'[n].err # "exists"
    BY <2>3
  <2>5. Kept
    BY Zenon, <1>2, <2>2, BecomesKept
  <2>6. SameStartPayload(n, log[n].payment)'
    <3>1. PICK p \in Payments : p = log[n].payment
      BY Zenon, <1>4 DEF StartInv
    <3>2. p = log'[n].payment
      BY Zenon, <2>5, <3>1 DEF Kept
    <3> QED BY Zenon, <2>1, <2>5, <3>1, <3>2, KeptMatches
  <2>7. StartGoes(n)
    BY Zenon, <1>4, <2>3, <2>4, <2>6 DEF StartGoes
  <2> QED BY Zenon, <1>3, <1>7, <2>2, <2>7
<1> QED BY Zenon, <1>11, <1>12

\* advance keeps it, since the row stays what was asked for.
LEMMA AdvanceHolds ==
    ASSUME GatewayInv, NEW n \in 1..Len(log), Advance(n)
    PROVE  GatewayInv'
<1>1. TypeOK /\ StepsInv /\ StartsInv /\ WalkInv
  BY Zenon DEF GatewayInv
<1>2. log[n].step = "advance" /\ UNCHANGED <<clock, bucket, entry, walk, lost>>
  BY Zenon DEF Advance, At
<1>3. n \in Starts /\ "done" \in StepsOf(log[n].req)
  <2>1. log[n].step \in {"insert", "find", "advance"}
    BY Zenon, <1>2
  <2> QED BY Zenon, <1>1, <2>1, StepKind
<1>4. /\ StartInv(n) /\ log[n].status # 202 /\ SameStartPayload(n, log[n].payment)
  <2>1. StartInv(n)
    BY Zenon, <1>1, <1>3 DEF StartsInv
  <2>2. log[n].step # "done"
    BY <1>2
  <2> QED BY Zenon, <1>2, <2>1, <2>2 DEF StartInv, Matched
<1>5. PICK p \in Payments : p = log[n].payment
  BY Zenon, <1>4 DEF StartInv
<1>6. PICK state \in {"MOVED", "FAILED", "CHECKED"}, err \in {"none", "unverified", "funds"} :
         sagas' = [sagas EXCEPT ![p].state = state] /\ Return(n, err)
  <2>1. PICK out \in {[err |-> "none",       state |-> "MOVED"],
                      [err |-> "unverified", state |-> "FAILED"],
                      [err |-> "funds",      state |-> "CHECKED"]} :
           sagas' = [sagas EXCEPT ![p].state = out.state] /\ Return(n, out.err)
    BY Zenon, <1>5 DEF Advance
  <2>2. out.state \in {"MOVED", "FAILED", "CHECKED"} /\ out.err \in {"none", "unverified", "funds"}
    OBVIOUS
  <2> QED BY Zenon, <2>1, <2>2
<1>7. Becomes(n, "done", err, log[n].status, log[n].cursor, log[n].page)
  <2>1. err \in Errors
    BY DEF Errors
  <2> QED BY Zenon, <1>1, <1>6, <2>1, LogWrites DEF TypeOK
<1>8. sagas[p] \in SagaRows /\ sagas[p] # None
  <2>1. sagas[p] # None
    BY Zenon, <1>4, <1>5 DEF SameStartPayload, SameKey
  <2> QED BY Zenon, <1>1, <2>1 DEF TypeOK
<1>9. PICK row : row = [sagas[p] EXCEPT !.state = state]
  BY Zenon
<1>10. /\ row \in SagaRows /\ row.user = sagas[p].user /\ row.key = sagas[p].key
       /\ row.body = sagas[p].body /\ row.by = sagas[p].by
  BY <1>8, <1>9 DEF SagaRows
<1>11. /\ sagas' = [sagas EXCEPT ![p] = row]
       /\ sagas'[p] = row /\ \A q \in Payments \ {p} : sagas'[q] = sagas[q]
  <2>1. DOMAIN sagas = Payments
    BY Zenon, <1>1 DEF TypeOK
  <2>2. sagas' = [sagas EXCEPT ![p] = row]
    BY Zenon, <1>6, <1>9
  <2> QED BY Zenon, <2>1, <2>2
<1>12. row # None
  BY Zenon, <1>10, NoneAssumption
<1>13. Kept /\ NoneNew
  <2>1. 1..Len(log) \subseteq 1..Len(log')
    BY Zenon, <1>7 DEF Becomes
  <2>2. \A m \in 1..Len(log) : /\ log'[m].req = log[m].req /\ log'[m].payment = log[m].payment
                               /\ log'[m].key = log[m].key
    BY Zenon, <1>7 DEF Becomes
  <2>3. \A q \in Payments : sagas[q] # None =>
          /\ sagas'[q] # None /\ sagas'[q].user = sagas[q].user /\ sagas'[q].key = sagas[q].key
          /\ sagas'[q].body = sagas[q].body /\ sagas'[q].by = sagas[q].by
    BY Zenon, <1>10, <1>11, <1>12
  <2>4. NoneNew
    BY Zenon, <1>8, <1>11 DEF NoneNew
  <2> QED BY Zenon, <2>1, <2>2, <2>3, <2>4 DEF Kept
<1>14. /\ log'[n].step = "done" /\ log'[n].err = err /\ log'[n].status = log[n].status
       /\ log'[n].payment = p
  BY Zenon, <1>5, <1>7 DEF Becomes
<1>15. log'[n].step # "find" /\ log'[n].err # "exists"
  BY <1>6, <1>14
<1>16. SameStartPayload(n, log[n].payment)'
  BY Zenon, <1>4, <1>5, <1>13, <1>14, KeptMatches
<1>17. StartGoes(n)
  BY Zenon, <1>4, <1>14, <1>15, <1>16 DEF StartGoes
<1>18. StartsInv'
  BY Zenon, <1>1, <1>7, <1>13, <1>17, KeptRows, OneStartGoes
<1>19. WalkInv'
  <2>1. log[n].req.kind # "page"
    <3>1. log[n].req.kind = "start"
      BY Zenon, <1>3 DEF Starts
    <3> QED BY <3>1
  <2>2. EntriesKept
    BY Zenon, <1>2 DEF EntriesKept
  <2> QED BY Zenon, <1>1, <1>2, <1>7, <2>1, <2>2, RequestWalk
<1>20. TablesOK'
  <2>1. sagas' \in [Payments -> {None} \cup SagaRows]
    BY Zenon, <1>1, <1>10, <1>11 DEF TypeOK
  <2> QED BY Zenon, <1>1, <1>2, <2>1 DEF TablesOK, TypeOK
<1> QED BY Zenon, <1>2, <1>3, <1>7, <1>18, <1>19, <1>20, RequestStep

\* Services that only read.
LEMMA ServeHolds ==
    ASSUME GatewayInv, NEW n \in 1..Len(log), Serve(n)
    PROVE  GatewayInv'
<1>1. TypeOK /\ StepsInv /\ StartsInv /\ WalkInv
  BY Zenon DEF GatewayInv
<1>2. log[n].step = "serve" /\ UNCHANGED <<clock, bucket, sagas, entry, walk, lost>>
  BY Zenon DEF Serve, At
<1>3. log[n].req.kind \notin {"start", "page", "transfer"} /\ "done" \in StepsOf(log[n].req)
  BY Zenon, <1>1, <1>2, StepKind
<1>4. n \notin Starts /\ log[n].req.kind # "page"
  BY Zenon, <1>3 DEF Starts
<1>5. PICK err \in Results(n) : Return(n, err)
  BY Zenon DEF Serve
<1>6. err \in Errors
  <2>1. log[n].req \in Requests
    BY Zenon, <1>1, LogFields DEF TypeOK
  <2>2. log[n].req.kind \in {"get", "decide", "reviews", "wallet", "balance", "verify", "status"}
    <3>1. PICK kind : kind = log[n].req.kind
      BY Zenon
    <3>2. \/ kind \in {"start", "get", "decide", "reviews", "wallet", "balance", "page",
                       "verify", "status"}
          \/ kind \in {"wallet", "balance", "page", "transfer"}
      BY Zenon, <2>1, <3>1, RoutesAssumption
    <3>3. kind \notin {"start", "page", "transfer"}
      BY Zenon, <1>3, <3>1
    <3>4. kind \in {"get", "decide", "reviews", "wallet", "balance", "verify", "status"}
      BY <3>2, <3>3
    <3> QED BY Zenon, <3>1, <3>4
  <2>3. Results(n) \subseteq Errors
    BY <2>2 DEF Results, GetPayment, DecideReview, ReadReviews, CreateWallet, GetWallet,
                SubmitVerification, GetStatus, Errors
  <2> QED BY Zenon, <1>5, <2>3
<1>7. Becomes(n, "done", err, log[n].status, log[n].cursor, log[n].page)
  BY Zenon, <1>1, <1>5, <1>6, LogWrites DEF TypeOK
<1>8. WalkInv'
  <2>1. EntriesKept
    BY Zenon, <1>2 DEF EntriesKept
  <2> QED BY Zenon, <1>1, <1>2, <1>4, <1>7, <2>1, RequestWalk
<1>9. TablesOK'
  BY Zenon, <1>1, <1>2 DEF TablesOK, TypeOK
<1> QED BY Zenon, <1>2, <1>3, <1>4, <1>7, <1>8, <1>9, SteadyStep

\* GetEntries keeps it: a page continues where the walk has come to.
LEMMA ReadPageHolds ==
    ASSUME GatewayInv, NEW n \in 1..Len(log), ReadPage(n)
    PROVE  GatewayInv'
<1>1. TypeOK /\ StepsInv /\ StartsInv /\ WalkInv
  BY Zenon DEF GatewayInv
<1>2. log[n].step = "page" /\ UNCHANGED <<clock, bucket, sagas, entry, walk, lost>>
  BY Zenon DEF ReadPage, At
<1>3. log[n].req.kind = "page" /\ "done" \in StepsOf(log[n].req)
  BY Zenon, <1>1, <1>2, StepKind
<1>4. n \notin Starts
  <2>1. log[n].req.kind # "start"
    BY <1>3
  <2> QED BY Zenon, <2>1 DEF Starts
<1>5. TablesOK'
  BY Zenon, <1>1, <1>2 DEF TablesOK, TypeOK
<1>6. CASE log[n].req.token.user # Owner
  <2>1. Return(n, "not_found")
    BY Zenon, <1>6 DEF ReadPage
  <2>2. "not_found" \in Errors
    BY DEF Errors
  <2>3. Becomes(n, "done", "not_found", log[n].status, log[n].cursor, log[n].page)
    BY Zenon, <1>1, <2>1, <2>2, LogWrites DEF TypeOK
  <2>4. WalkInv'
    <3>1. EntriesKept
      BY Zenon, <1>2 DEF EntriesKept
    <3> QED BY Zenon, <1>1, <1>2, <2>3, <3>1, RequestWalk
  <2> QED BY Zenon, <1>2, <1>3, <1>4, <1>5, <2>3, <2>4, SteadyStep
<1>7. CASE log[n].req.token.user = Owner
  <2>1. PICK r : r = log[n].req
    BY Zenon
  <2>2. PICK c : c = QueryCursor(log[n].cursor)
    BY Zenon
  <2>3. c \in {None} \cup Places
    <3>1. log[n].cursor \in Cursors
      BY Zenon, <1>1, LogFields DEF TypeOK
    <3> QED BY Zenon, <2>2, <3>1, CursorPlace
  <2>4. Asked(r, c) = c
    BY Zenon, <2>3, CursorCodec
  <2>5. PICK rows : rows = Rows(c)
    BY Zenon
  <2>6. PICK d : d = NextCursor(rows)
    BY Zenon
  <2>7. Timed
    BY Zenon, <1>1, StoredTimes
  <2>8. d \in {None} \cup Places /\ PageOf(rows) \in SUBSET Entries
    <3>1. PageOf(rows) \subseteq All(c) /\ (d # None => d \in Places)
      BY Zenon, <2>5, <2>6, <2>7, NextFacts
    <3> QED BY Zenon, <3>1 DEF All
  <2>9. Given(r, d) = d /\ LedgerResponse(d) \in Cursors /\ QueryCursor(LedgerResponse(d)) = d
    BY Zenon, <2>8, CursorCodec
  <2>10. log' = [log EXCEPT ![n].step = "done", ![n].page = PageOf(rows),
                            ![n].cursor = LedgerResponse(d)]
    <3>1. \E c1 \in {Asked(log[n].req, QueryCursor(log[n].cursor))} : \E rows1 \in {Rows(c1)} :
             \E next \in {Given(log[n].req, NextCursor(rows1))} :
                log' = [log EXCEPT ![n].step = "done", ![n].page = PageOf(rows1),
                                   ![n].cursor = LedgerResponse(next)]
      BY Zenon, <1>7 DEF ReadPage
    <3>2. PICK c1, rows1, next :
             /\ c1 = Asked(r, c) /\ rows1 = Rows(c1) /\ next = Given(r, NextCursor(rows1))
             /\ log' = [log EXCEPT ![n].step = "done", ![n].page = PageOf(rows1),
                                   ![n].cursor = LedgerResponse(next)]
      BY Zenon, <2>1, <2>2, <3>1
    <3>3. c1 = c
      BY Zenon, <2>4, <3>2
    <3>4. rows1 = rows
      BY Zenon, <2>5, <3>2, <3>3
    <3>5. next = d
      BY Zenon, <2>6, <2>9, <3>2, <3>4
    <3> QED BY Zenon, <3>2, <3>4, <3>5
  <2>11. PICK cursor \in Cursors : cursor = LedgerResponse(d)
    BY Zenon, <2>9
  <2>12. Becomes(n, "done", log[n].err, log[n].status, cursor, PageOf(rows))
    BY Zenon, <1>1, <2>8, <2>10, <2>11, LogWrites DEF TypeOK
  <2>13. d = QueryCursor(cursor)
    BY Zenon, <2>9, <2>11
  <2>14. WalkInv'
    BY Zenon, <1>1, <1>2, <2>2, <2>5, <2>6, <2>12, <2>13, ReadWalk
  <2> QED BY Zenon, <1>2, <1>3, <1>4, <1>5, <2>12, <2>14, SteadyStep
<1> QED BY Zenon, <1>6, <1>7

\* An entry that is added leaves the others as they are.
LEMMA EntryAdded ==
    ASSUME TypeOK, NEW e \in Entries, entry[e] = None, NEW at \in 0..clock,
           entry' = [entry EXCEPT ![e] = at]
    PROVE  EntriesKept /\ entry' \in [Entries -> {None} \cup 0..clock]
<1>1. entry \in [Entries -> {None} \cup 0..clock]
  BY Zenon DEF TypeOK
<1>2. entry' \in [Entries -> {None} \cup 0..clock]
  BY Zenon, <1>1
<1>3. \A f \in Entries \ {e} : entry'[f] = entry[f]
  BY Zenon, <1>1
<1> QED BY Zenon, <1>2, <1>3 DEF EntriesKept

\* CreateTransfer keeps it, whether it is done or fails.
LEMMA TransferHolds ==
    ASSUME GatewayInv, NEW n \in 1..Len(log), Transfer(n)
    PROVE  GatewayInv'
<1>1. TypeOK /\ StepsInv /\ StartsInv /\ WalkInv
  BY Zenon DEF GatewayInv
<1>2. log[n].step = "transfer" /\ UNCHANGED <<clock, bucket, sagas, entry, walk, lost>>
  BY Zenon DEF Transfer, At
<1>3. log[n].req.kind = "transfer" /\ "done" \in StepsOf(log[n].req)
  BY Zenon, <1>1, <1>2, StepKind
<1>4. n \notin Starts /\ log[n].req.kind # "page"
  <2>1. log[n].req.kind # "start" /\ log[n].req.kind # "page"
    BY <1>3
  <2> QED BY Zenon, <2>1 DEF Starts
<1>5. PICK err \in {"none", "not_found", "funds"} : Return(n, err)
  BY Zenon DEF Transfer
<1>6. Becomes(n, "done", err, log[n].status, log[n].cursor, log[n].page)
  <2>1. err \in Errors
    BY DEF Errors
  <2> QED BY Zenon, <1>1, <1>5, <2>1, LogWrites DEF TypeOK
<1>7. WalkInv'
  <2>1. EntriesKept
    BY Zenon, <1>2 DEF EntriesKept
  <2> QED BY Zenon, <1>1, <1>2, <1>4, <1>6, <2>1, RequestWalk
<1>8. TablesOK'
  BY Zenon, <1>1, <1>2 DEF TablesOK, TypeOK
<1> QED BY Zenon, <1>2, <1>3, <1>4, <1>6, <1>7, <1>8, SteadyStep

\* CommitEntry keeps it, while pages are on their way.
LEMMA CommitHolds ==
    ASSUME GatewayInv, NEW e \in Entries, CommitEntry(e)
    PROVE  GatewayInv'
<1>1. TypeOK /\ StepsInv /\ StartsInv /\ WalkInv /\ LimiterInv
  BY Zenon DEF GatewayInv
<1>2. UNCHANGED <<clock, bucket, log, sagas, walk, lost>>
  BY Zenon DEF CommitEntry
<1>3. EntriesKept /\ entry' \in [Entries -> {None} \cup 0..clock]
  BY Zenon, <1>1, EntryAdded DEF CommitEntry
<1>4. TypeOK'
  BY Zenon, <1>1, <1>2, <1>3 DEF TypeOK
<1>5. Pending' = Pending
  BY Zenon, <1>2 DEF Pending, Open
<1>6. WalkInv'
  <2>1. Still
    BY Zenon, <1>2, <1>3, <1>5 DEF Still
  <2> QED BY Zenon, <1>1, <2>1, StillWalk
<1>7. StepsInv'
  BY Zenon, <1>1, <1>2 DEF StepsInv
<1>8. StartsInv'
  <2>1. Kept /\ NoneNew
    BY Zenon, <1>2 DEF Kept, NoneNew
  <2>2. \A n \in Starts : StartGoes(n)
    BY Zenon, <1>1, <1>2, <2>1, IdleGoes
  <2>3. \A n \in Starts' : n \in Starts
    BY Zenon, <1>2 DEF Starts
  <2> QED BY Zenon, <1>1, <2>1, <2>2, <2>3, KeptRows, StartsGo
<1>9. LimiterInv'
  <2>1. log \in Seq(LogRecords) /\ Len(log) <= Len(log')
    <3>1. log \in Seq(LogRecords)
      BY Zenon, <1>1 DEF TypeOK
    <3> QED BY <1>2, <3>1
  <2>2. Quiet
    BY Zenon, <1>2, <2>1 DEF Quiet
  <2>3. clock \in Nat
    BY Zenon, <1>1 DEF TypeOK
  <2> QED BY Zenon, <1>1, <2>2, <2>3, QuietLimiter
<1> QED BY Zenon, <1>4, <1>6, <1>7, <1>8, <1>9 DEF GatewayInv

\* Time that passes keeps the invariant.
LEMMA PassHolds ==
    ASSUME GatewayInv, Pass
    PROVE  GatewayInv'
<1>1. TypeOK /\ StepsInv /\ StartsInv /\ WalkInv /\ LimiterInv
  BY Zenon DEF GatewayInv
<1>2. Tick /\ UNCHANGED <<bucket, log, sagas, entry, walk, lost>>
  BY Zenon DEF Pass
<1>3. LimiterInv'
  BY Zenon, <1>1, <1>2, TickLimiter
<1>4. TypeOK'
  <2>1. PICK now \in Nat : now = clock' /\ 0..clock \subseteq 0..now
    <3>1. clock \in Nat /\ clock' = clock + 1
      BY Zenon, <1>1, <1>2 DEF TypeOK, Tick
    <3>2. clock + 1 \in Nat /\ 0..clock \subseteq 0..(clock + 1)
      BY <3>1
    <3> QED BY Zenon, <3>1, <3>2
  <2>2. bucket' \in [Users -> {NoBucket} \cup [tokens : 0..Burst, last : 0..now]]
    <3>1. [tokens : 0..Burst, last : 0..clock] \subseteq [tokens : 0..Burst, last : 0..now]
      BY <2>1
    <3>2. bucket \in [Users -> {NoBucket} \cup [tokens : 0..Burst, last : 0..clock]]
      BY Zenon, <1>1 DEF TypeOK
    <3> QED BY <1>2, <3>1, <3>2
  <2>3. entry' \in [Entries -> {None} \cup 0..now]
    <3>1. entry \in [Entries -> {None} \cup 0..clock]
      BY Zenon, <1>1 DEF TypeOK
    <3> QED BY <1>2, <2>1, <3>1
  <2> QED BY Zenon, <1>1, <1>2, <2>1, <2>2, <2>3 DEF TypeOK
<1>5. Pending' = Pending
  BY Zenon, <1>2 DEF Pending, Open
<1>6. WalkInv'
  <2>1. Still
    BY Zenon, <1>2, <1>5 DEF Still, EntriesKept
  <2> QED BY Zenon, <1>1, <2>1, StillWalk
<1>7. StepsInv'
  BY Zenon, <1>1, <1>2 DEF StepsInv
<1>8. StartsInv'
  <2>1. Kept /\ NoneNew
    BY Zenon, <1>2 DEF Kept, NoneNew
  <2>2. \A n \in Starts : StartGoes(n)
    BY Zenon, <1>1, <1>2, <2>1, IdleGoes
  <2>3. \A n \in Starts' : n \in Starts
    BY Zenon, <1>2 DEF Starts
  <2> QED BY Zenon, <1>1, <2>1, <2>2, <2>3, KeptRows, StartsGo
<1> QED BY Zenon, <1>3, <1>4, <1>6, <1>7, <1>8 DEF GatewayInv

\* The status a service's answer becomes.
AnswerOf(r, err) == IF r.front = "api" THEN FromDomain(r, err) ELSE FromGRPC(r, Code(r, err))

\* 202 is for starts that succeeded, and 200 for pages that were read.
Fits(code, err) == /\ code \in {200, 201, 202, 400, 404, 422, 500}
                   /\ code = 202 => err = "none"
                   /\ code = 200 => err = "none"

\* Every answer of either front is of that kind.
LEMMA AnswerFacts ==
    ASSUME NEW r \in Requests, NEW err \in Errors
    PROVE  Fits(AnswerOf(r, err), err)
<1>1. Success(r) \in {200, 201, 202}
  BY DEF Success
<1>2. CASE r.front = "api"
  <2>1. AnswerOf(r, err) = FromDomain(r, err)
    BY Zenon, <1>2 DEF AnswerOf
  <2>2. /\ FromDomain(r, err) \in {Success(r), 404, 422, 500}
        /\ err # "none" => FromDomain(r, err) \in {404, 422, 500}
    BY DEF FromDomain
  <2> QED BY <1>1, <2>1, <2>2 DEF Fits
<1>3. CASE r.front # "api"
  <2>1. AnswerOf(r, err) = FromGRPC(r, Code(r, err))
    BY Zenon, <1>3 DEF AnswerOf
  <2>2. r.kind \in {"start", "get", "decide", "reviews", "wallet", "balance", "page", "verify",
                    "status"}
    BY Zenon, <1>3, RoutesAssumption
  <2>3. err # "none" => Code(r, err) # "OK"
    BY <2>2 DEF Code, StatusFromSaga, StatusFromDomain, StatusFromVerification
  <2>4. \A code : /\ FromGRPC(r, code) \in {Success(r), 400, 404, 422, 500}
                  /\ code # "OK" => FromGRPC(r, code) \in {400, 404, 422, 500}
    BY DEF FromGRPC
  <2> QED BY <1>1, <2>1, <2>3, <2>4 DEF Fits
<1> QED BY Zenon, <1>2, <1>3

\* What the walk is after a page.
LEMMA MovesOn ==
    ASSUME TypeOK, NEW n \in 1..Len(log),
           walk' = [walk EXCEPT
                      !.cursor = log[n].cursor,
                      !.seen = [e \in Entries |->
                                  IF e \in log[n].page THEN @[e] + 1 ELSE @[e]],
                      !.state = IF log[n].cursor = <<>> THEN "done" ELSE @]
    PROVE  /\ Moved(n)
           /\ walk' \in [cursor : Cursors, seen : [Entries -> Nat], start : SUBSET Entries,
                         state : {"new", "reading", "done"}]
<1>1. walk \in [cursor : Cursors, seen : [Entries -> Nat], start : SUBSET Entries,
                state : {"new", "reading", "done"}]
  BY Zenon DEF TypeOK
<1>2. log[n].cursor \in Cursors
  BY Zenon, LogFields DEF TypeOK
<1>3. PICK cursor \in Cursors : cursor = log[n].cursor
  BY Zenon, <1>2
<1>4. PICK page : page = log[n].page
  BY Zenon
<1>5. PICK seen : seen = [e \in Entries |-> IF e \in page THEN walk.seen[e] + 1 ELSE walk.seen[e]]
  BY Zenon
<1>6. seen \in [Entries -> Nat]
  BY <1>1, <1>5
<1>7. PICK state \in {"new", "reading", "done"} :
         state = IF cursor = <<>> THEN "done" ELSE walk.state
  BY <1>1
<1>8. walk' = [walk EXCEPT !.cursor = cursor, !.seen = seen, !.state = state]
  BY Zenon, <1>3, <1>4, <1>5, <1>7
<1>9. /\ walk'.cursor = cursor /\ walk'.seen = seen /\ walk'.state = state
      /\ walk'.start = walk.start
      /\ walk' \in [cursor : Cursors, seen : [Entries -> Nat], start : SUBSET Entries,
                    state : {"new", "reading", "done"}]
  BY Zenon, <1>1, <1>6, <1>8
<1>10. \A e \in Entries : seen[e] = IF e \in page THEN walk.seen[e] + 1 ELSE walk.seen[e]
  BY Zenon, <1>5
<1> QED BY Zenon, <1>3, <1>4, <1>7, <1>9, <1>10 DEF Moved

\* The answer reaches the caller.
LEMMA AnswerHolds ==
    ASSUME GatewayInv, NEW n \in 1..Len(log), Answer(n)
    PROVE  GatewayInv'
<1>1. TypeOK /\ StepsInv /\ StartsInv /\ WalkInv
  BY Zenon DEF GatewayInv
<1>2. /\ log[n].status = 0 /\ log[n].step = "done"
      /\ UNCHANGED <<clock, bucket, sagas, entry, lost>>
  BY Zenon DEF Answer, At
<1>3. PICK r, err : r = log[n].req /\ err = log[n].err
  BY Zenon
<1>4. r \in Requests /\ err \in Errors
  BY Zenon, <1>1, <1>3, LogFields DEF TypeOK
<1>5. PICK code : code = AnswerOf(r, err)
  BY Zenon
<1>6. /\ code \in {200, 201, 202, 400, 404, 422, 500}
      /\ code = 202 => err = "none"
      /\ code = 200 => err = "none"
  <2>1. Fits(code, err)
    BY Zenon, <1>4, <1>5, AnswerFacts
  <2> QED BY <2>1 DEF Fits
<1>7. code \in Nat /\ code # 0 /\ code \notin {401, 429}
  BY <1>6
<1>8. log' = [log EXCEPT ![n].status = code, ![n].page = {}, ![n].cursor = <<>>]
  BY Zenon, <1>3, <1>5 DEF Answer, AnswerOf
<1>9. Becomes(n, log[n].step, log[n].err, code, <<>>, {})
  BY Zenon, <1>1, <1>7, <1>8, LogWrites DEF TypeOK
<1>10. n \in Starts => StartGoes(n)
  <2>1. Kept
    BY Zenon, <1>2, <1>9, BecomesKept
  <2>2. /\ log'[n].step = log[n].step /\ log'[n].err = log[n].err /\ log'[n].status = code
    BY Zenon, <1>9 DEF Becomes
  <2>3. \/ log'[n].status \notin {0, 202}
        \/ log[n].status = 0 /\ log[n].step = "done" /\ log[n].err = "none"
    BY Zenon, <1>2, <1>3, <1>6, <1>7, <2>2
  <2> QED BY Zenon, <1>1, <2>1, <2>2, <2>3, IdleGoes
<1>11. CASE r.kind = "page" /\ code = 200
  <2>1. walk' = [walk EXCEPT
                   !.cursor = log[n].cursor,
                   !.seen = [e \in Entries |->
                               IF e \in log[n].page THEN @[e] + 1 ELSE @[e]],
                   !.state = IF log[n].cursor = <<>> THEN "done" ELSE @]
    BY Zenon, <1>3, <1>5, <1>11 DEF Answer, AnswerOf
  <2>2. /\ Moved(n)
        /\ walk' \in [cursor : Cursors, seen : [Entries -> Nat], start : SUBSET Entries,
                      state : {"new", "reading", "done"}]
    BY Zenon, <1>1, <2>1, MovesOn
  <2>3. n \in Pending
    BY Zenon, <1>2, <1>3, <1>11 DEF Pending, Open
  <2>4. Pending' = Pending \ {n}
    <3>1. PendingAfter(n, code)
      BY Zenon, <1>9, BecomesPending
    <3> QED BY Zenon, <1>7, <3>1 DEF PendingAfter
  <2>5. log[n].err = "none"
    BY Zenon, <1>3, <1>6, <1>11
  <2>6. WalkInv'
    BY Zenon, <1>1, <1>2, <2>2, <2>3, <2>4, <2>5, AnswerWalk
  <2>7. TablesOK'
    BY Zenon, <1>1, <1>2, <2>2 DEF TablesOK, TypeOK
  <2>8. log[n].step \in StepsOf(log[n].req)
    BY Zenon, <1>1 DEF StepsInv
  <2> QED BY Zenon, <1>2, <1>7, <1>9, <1>10, <2>6, <2>7, <2>8, SteadyStep
<1>12. CASE ~(r.kind = "page" /\ code = 200)
  <2>1. walk' = walk
    BY Zenon, <1>3, <1>5, <1>12 DEF Answer, AnswerOf
  <2>2. EntriesKept
    BY Zenon, <1>2 DEF EntriesKept
  <2>3. WalkInv'
    BY Zenon, <1>1, <1>7, <1>9, <2>1, <2>2, RequestWalk
  <2>4. TablesOK'
    BY Zenon, <1>1, <1>2, <2>1 DEF TablesOK, TypeOK
  <2>5. log[n].step \in StepsOf(log[n].req)
    BY Zenon, <1>1 DEF StepsInv
  <2> QED BY Zenon, <1>2, <1>7, <1>9, <1>10, <2>3, <2>4, <2>5, SteadyStep
<1> QED BY Zenon, <1>11, <1>12

\* The connection breaks.
LEMMA LoseHolds ==
    ASSUME GatewayInv, NEW n \in 1..Len(log), LoseConnection(n)
    PROVE  GatewayInv'
<1>1. TypeOK /\ StepsInv /\ StartsInv /\ WalkInv
  BY Zenon DEF GatewayInv
<1>2. /\ log[n].status = 0 /\ UNCHANGED <<clock, bucket, sagas, entry, walk>>
      /\ lost' = lost + 1
  BY Zenon DEF LoseConnection
<1>3. PICK code \in Nat : /\ code # 0 /\ code \notin {401, 429} /\ code \notin {0, 202}
                          /\ log' = [log EXCEPT ![n].status = code]
  <2>1. PICK code : code = 500
    BY Zenon
  <2>2. code \in Nat /\ code # 0 /\ code \notin {401, 429} /\ code \notin {0, 202}
    BY <2>1
  <2>3. log' = [log EXCEPT ![n].status = code]
    BY <2>1 DEF LoseConnection
  <2> QED BY Zenon, <2>2, <2>3
<1>4. Becomes(n, log[n].step, log[n].err, code, log[n].cursor, log[n].page)
  BY Zenon, <1>1, <1>3, LogWrites DEF TypeOK
<1>5. n \in Starts => StartGoes(n)
  <2>1. Kept
    BY Zenon, <1>2, <1>4, BecomesKept
  <2>2. log'[n].step = log[n].step /\ log'[n].err = log[n].err /\ log'[n].status = code
    BY Zenon, <1>4 DEF Becomes
  <2>3. log'[n].status \notin {0, 202}
    BY <1>3, <2>2
  <2> QED BY Zenon, <1>1, <2>1, <2>2, <2>3, IdleGoes
<1>6. WalkInv'
  <2>1. EntriesKept
    BY Zenon, <1>2 DEF EntriesKept
  <2> QED BY Zenon, <1>1, <1>2, <1>3, <1>4, <2>1, RequestWalk
<1>7. TablesOK'
  <2>1. lost' \in Nat
    <3>1. lost \in Nat
      BY Zenon, <1>1 DEF TypeOK
    <3> QED BY <1>2, <3>1
  <2> QED BY Zenon, <1>1, <1>2, <2>1 DEF TablesOK, TypeOK
<1>8. log[n].step \in StepsOf(log[n].req)
  BY Zenon, <1>1 DEF StepsInv
<1> QED BY Zenon, <1>2, <1>3, <1>4, <1>5, <1>6, <1>7, <1>8, SteadyStep

\* A statement that fails keeps it: the request ends as internal error.
LEMMA FailHolds ==
    ASSUME GatewayInv, NEW n \in 1..Len(log), Fail(n)
    PROVE  GatewayInv'
<1>1. TypeOK /\ StepsInv /\ StartsInv /\ WalkInv
  BY Zenon DEF GatewayInv
<1>2. /\ log[n].step # "done" /\ UNCHANGED <<clock, bucket, sagas, entry, walk>>
      /\ Return(n, "internal") /\ lost' = lost + 1
  BY Zenon DEF Fail, At
<1>3. "internal" \in Errors
  BY DEF Errors
<1>4. Becomes(n, "done", "internal", log[n].status, log[n].cursor, log[n].page)
  BY Zenon, <1>1, <1>2, <1>3, LogWrites DEF TypeOK
<1>5. ASSUME n \in Starts PROVE StartGoes(n)
  <2>1. log[n].status # 202
    BY Zenon, <1>1, <1>2, <1>5 DEF StartsInv, StartInv
  <2>2. log'[n].step = "done" /\ log'[n].err = "internal" /\ log'[n].status = log[n].status
    BY Zenon, <1>4 DEF Becomes
  <2>3. log'[n].step # "find" /\ ~Matched(n)' /\ log'[n].err # "exists"
    BY <2>2 DEF Matched
  <2> QED BY Zenon, <2>1, <2>2, <2>3 DEF StartGoes
<1>6. WalkInv'
  <2>1. EntriesKept
    BY Zenon, <1>2 DEF EntriesKept
  <2> QED BY Zenon, <1>1, <1>2, <1>4, <2>1, RequestWalk
<1>7. TablesOK'
  <2>1. lost' \in Nat
    <3>1. lost \in Nat
      BY Zenon, <1>1 DEF TypeOK
    <3> QED BY <1>2, <3>1
  <2> QED BY Zenon, <1>1, <1>2, <2>1 DEF TablesOK, TypeOK
<1>8. "done" \in StepsOf(log[n].req)
  BY Zenon, <1>1, StepKind
<1> QED BY Zenon, <1>2, <1>4, <1>5, <1>6, <1>7, <1>8, SteadyStep

-----------------------------------------------------------------------------
(* A request arrives.                                                      *)

\* What the gateway answers to r before it calls a service.
EarlyIs(r) ==
    /\ ~Authenticated(r.token) => Early(r) = 401
    /\ Authenticated(r.token) /\ r.front = "gateway" /\ ~Allowed(r.token.user)
       => Early(r) = 429
    /\ Authenticated(r.token) /\ (r.front # "gateway" \/ Allowed(r.token.user))
       => Early(r) \in {0, 400, 403, 422}
    /\ Early(r) \in Nat /\ Early(r) # 202
    /\ Early(r) = 0 => r.token.user # None

\* It has no other answers.
LEMMA EarlyFacts ==
    ASSUME NEW r \in Requests
    PROVE  EarlyIs(r)
<1>1. Refused(r) \in {0, 400, 403, 422}
  <2>1. CASE r.front = "api"
    <3>1. r.kind \in {"wallet", "balance", "page", "transfer"}
      BY <2>1, RoutesAssumption
    <3>2. ApiRefused(r) \in {0, 400, 422}
      BY <3>1 DEF ApiRefused, ApiWalletRefused, ApiLedgerRefused, TransferRefused
    <3> QED BY <2>1, <3>2 DEF Refused
  <2>2. CASE r.front # "api"
    <3>1. r.kind \in {"start", "get", "decide", "reviews", "wallet", "balance", "page",
                      "verify", "status"}
      BY Zenon, <2>2, RoutesAssumption
    <3> QED BY <2>2, <3>1 DEF Refused, StartRefused, GetRefused, DecideRefused, ReviewsRefused,
               WalletRefused, LedgerRefused, VerificationRefused
  <2> QED BY Zenon, <2>1, <2>2
<1>2. ~Authenticated(r.token) => Early(r) = 401
  BY Zenon DEF Early
<1>3. Authenticated(r.token) /\ r.front = "gateway" /\ ~Allowed(r.token.user) => Early(r) = 429
  BY Zenon DEF Early
<1>4. Authenticated(r.token) /\ (r.front # "gateway" \/ Allowed(r.token.user))
      => Early(r) \in {0, 400, 403, 422}
  <2>1. Authenticated(r.token) /\ (r.front # "gateway" \/ Allowed(r.token.user))
        => Early(r) = Refused(r)
    BY Zenon DEF Early
  <2> QED BY <1>1, <2>1
<1>5. CASE Authenticated(r.token) /\ (r.front # "gateway" \/ Allowed(r.token.user))
  <2>1. r.token.user # None
    BY Zenon, <1>5 DEF Authenticated
  <2> QED BY <1>4, <1>5, <2>1 DEF EarlyIs
<1>6. CASE Authenticated(r.token) /\ r.front = "gateway" /\ ~Allowed(r.token.user)
  BY <1>3, <1>6 DEF EarlyIs
<1>7. CASE ~Authenticated(r.token)
  BY <1>2, <1>7 DEF EarlyIs
<1> QED BY Zenon, <1>5, <1>6, <1>7

\* The log with one more record.
LEMMA LogAppended ==
    ASSUME log \in Seq(LogRecords), NEW rec \in LogRecords, log' = Append(log, rec)
    PROVE  /\ log' \in Seq(LogRecords) /\ Len(log') = Len(log) + 1
           /\ \A n \in 1..Len(log) : log'[n] = log[n]
           /\ log'[Len(log) + 1] = rec
OBVIOUS

\* The record of the request.
LEMMA SendArrives ==
    ASSUME TypeOK, NEW r \in Requests, Send(r)
    PROVE  \E p \in PaymentOf(r) : Arrived(r, p)
<1>1. PICK p \in PaymentOf(r) :
         log' = Append(log, Received(r, p, IF Early(r) = 0 THEN FirstStep(r) ELSE "done"))
  BY Zenon DEF Send
<1>2. p \in Payments \cup {None}
  <2>1. Fresh \subseteq Payments
    BY Zenon DEF Fresh
  <2>2. r.payment \in Payments \cup {None}
    BY Zenon, RoutesAssumption
  <2> QED BY Zenon, <1>1, <2>1, <2>2 DEF PaymentOf
<1>3. KeyOf(r, p) \in Keys
  BY Zenon, <1>2 DEF KeyOf, Keys
<1>4. PICK key \in Keys : key = KeyOf(r, p)
  BY Zenon, <1>3
<1>5. PICK status \in Nat : status = Early(r)
  <2>1. EarlyIs(r)
    BY Zenon, EarlyFacts
  <2>2. Early(r) \in Nat
    BY <2>1 DEF EarlyIs
  <2> QED BY Zenon, <2>2
<1>6. PICK step \in {"insert", "serve", "page", "transfer", "done"} :
         step = IF Early(r) = 0 THEN FirstStep(r) ELSE "done"
  BY DEF FirstStep
<1>7. PICK cursor \in Cursors : cursor = walk.cursor
  BY DEF TypeOK
<1>8. clock \in Nat /\ log \in Seq(LogRecords)
  BY Zenon DEF TypeOK
<1>9. PICK rec : rec = [req |-> r, at |-> clock, payment |-> p, key |-> key, cursor |-> cursor,
                        page |-> {}, err |-> "none", status |-> status, step |-> step]
  BY Zenon
<1>10. log' = Append(log, rec)
  BY Zenon, <1>1, <1>4, <1>5, <1>6, <1>7, <1>9 DEF Received
<1>11. "none" \in Errors /\ {} \in SUBSET Entries
  BY DEF Errors
<1>12. rec \in LogRecords
  BY <1>2, <1>8, <1>9, <1>11 DEF LogRecords
<1>13. /\ log' \in Seq(LogRecords) /\ Len(log') = Len(log) + 1
       /\ \A n \in 1..Len(log) : log'[n] = log[n]
       /\ log'[Len(log) + 1] = rec
  BY Zenon, <1>8, <1>10, <1>12, LogAppended
<1>14. /\ rec.req = r /\ rec.at = clock /\ rec.payment = p /\ rec.key = key
       /\ rec.cursor = cursor /\ rec.page = {} /\ rec.err = "none"
       /\ rec.status = status /\ rec.step = step
  BY <1>9
<1>15. Arrived(r, p)
  BY Zenon, <1>4, <1>5, <1>6, <1>7, <1>13, <1>14 DEF Arrived
<1> QED BY Zenon, <1>15

\* A start that arrives has its payment and key, and is neither accepted nor matched.
LEMMA SendStarts ==
    ASSUME TypeOK, StartsInv, NEW r \in Requests, NEW p \in PaymentOf(r), Arrived(r, p),
           sagas' = sagas
    PROVE  StartsInv'
<1>1. 1..Len(log') = 1..Len(log) \cup {Len(log) + 1} /\ 1..Len(log) \subseteq 1..Len(log')
  BY DEF Arrived, TypeOK
<1>2. \A n \in 1..Len(log) : log'[n] = log[n]
  BY Zenon DEF Arrived
<1>3. Kept /\ NoneNew
  BY Zenon, <1>1, <1>2 DEF Kept, NoneNew
<1>4. \A n \in Starts : StartGoes(n)
  BY Zenon, <1>1, <1>2, <1>3, IdleGoes DEF Starts
<1>5. ASSUME NEW n \in Starts', n \notin Starts PROVE StartInv(n)' /\ log'[n].err # "exists"
  <2>1. n = Len(log) + 1
    BY Zenon, <1>1, <1>2, <1>5 DEF Starts
  <2>2. /\ log'[n].req = r /\ log'[n].payment = p /\ log'[n].key = KeyOf(r, p)
        /\ log'[n].err = "none" /\ log'[n].status = Early(r)
        /\ log'[n].step = IF Early(r) = 0 THEN FirstStep(r) ELSE "done"
    BY Zenon, <2>1 DEF Arrived
  <2>3. r.kind = "start"
    BY Zenon, <2>2 DEF Starts
  <2>4. p \in Payments /\ (r.payment # None => p = r.payment)
    <3>1. r.payment \in Payments \cup {None}
      BY Zenon, RoutesAssumption
    <3>2. Fresh \subseteq Payments
      BY Zenon DEF Fresh
    <3> QED BY Zenon, <2>3, <3>1, <3>2 DEF PaymentOf
  <2>5. FirstStep(r) = "insert"
    BY <2>3 DEF FirstStep
  <2>6. Early(r) # 202 /\ (Early(r) = 0 => r.token.user # None)
    <3>1. EarlyIs(r)
      BY Zenon, EarlyFacts
    <3> QED BY Zenon, <3>1 DEF EarlyIs
  <2>7. log'[n].step # "find" /\ log'[n].step # "advance"
        /\ (log'[n].step # "done" <=> Early(r) = 0)
    BY <2>2, <2>5
  <2>8. ~Matched(n)'
    BY <2>2, <2>6, <2>7 DEF Matched
  <2>9. log'[n].key = KeyOf(log'[n].req, log'[n].payment)
    BY Zenon, <2>2
  <2>10. StartInv(n)'
    BY Zenon, <2>2, <2>4, <2>6, <2>7, <2>8, <2>9 DEF StartInv
  <2>11. log'[n].err # "exists"
    BY <2>2
  <2> QED BY Zenon, <2>10, <2>11
<1> QED BY Zenon, <1>3, <1>4, <1>5, KeptRows, StartsGo

\* A request at the limiter.
LEMMA SendLimiter ==
    ASSUME TypeOK, LimiterInv, NEW r \in Requests, NEW p, Arrived(r, p), Charge(r),
           clock' = clock
    PROVE  /\ LimiterInv'
           /\ bucket' \in [Users -> {NoBucket} \cup [tokens : 0..Burst, last : 0..clock]]
<1>1. /\ log \in Seq(LogRecords)
      /\ bucket \in [Users -> {NoBucket} \cup [tokens : 0..Burst, last : 0..clock]]
  BY Zenon DEF TypeOK
<1>2. /\ log' \in Seq(LogRecords) /\ Len(log') = Len(log) + 1
      /\ \A n \in 1..Len(log) : log'[n] = log[n]
      /\ log'[Len(log) + 1].req = r /\ log'[Len(log) + 1].at = clock
      /\ log'[Len(log) + 1].status = Early(r)
  BY Zenon DEF Arrived
<1> EarlyIs(r)
  BY Zenon, EarlyFacts
<1>3. CASE r.front = "gateway" /\ Authenticated(r.token)
  <2>1. PICK u \in Users : u = r.token.user
    BY Zenon, <1>3, RoutesAssumption DEF Authenticated
  <2>2. Allow(u)
    BY Zenon, <1>3, <2>1 DEF Charge
  <2>3. Allowed(u) => Early(r) \notin {401, 429}
    <3>1. Allowed(u) => Early(r) \in {0, 400, 403, 422}
      BY <1>3, <2>1 DEF EarlyIs
    <3> QED BY <3>1
  <2>4. ~Allowed(u) => Early(r) = 429
    BY <1>3, <2>1 DEF EarlyIs
  <2>5. Charged(u)
    <3>1. log'[Len(log) + 1].req.front = "gateway" /\ log'[Len(log) + 1].req.token.user = u
      BY Zenon, <1>2, <1>3, <2>1
    <3>2. /\ Allowed(u) => log'[Len(log) + 1].status \notin {401, 429}
          /\ ~Allowed(u) => log'[Len(log) + 1].status = 429
      BY <1>2, <2>3, <2>4
    <3> QED BY <1>1, <1>2, <2>2, <3>1, <3>2 DEF Charged
  <2>6. LimiterInv'
    BY Zenon, <2>5, ChargedLimiter
  <2>7. PICK b : bucket' = [bucket EXCEPT ![u] = b] /\ bucket'[u] = b
                 /\ \E t, l : b = [tokens |-> t, last |-> l]
    <3>1. PICK left : /\ left = [tokens |-> IF Allowed(u) THEN Found(u).tokens - 1
                                            ELSE Found(u).tokens,
                                 last   |-> Found(u).last]
                      /\ bucket' = [bucket EXCEPT ![u] = left]
                      /\ bucket'[u] = left
                      /\ \A v \in Users \ {u} : bucket'[v] = bucket[v]
      BY Zenon, <2>5, ChargedBucket
    <3>2. \E t, l : left = [tokens |-> t, last |-> l]
      BY Zenon, <3>1
    <3> QED BY Zenon, <3>1, <3>2
  <2>8. b.tokens \in 0..Burst /\ b.last \in 0..clock
    BY Zenon, <2>5, <2>7, ChargedCurrent
  <2>9. b \in [tokens : 0..Burst, last : 0..clock]
    BY <2>7, <2>8
  <2>10. bucket' \in [Users -> {NoBucket} \cup [tokens : 0..Burst, last : 0..clock]]
    BY Zenon, <1>1, <2>7, <2>9
  <2> QED BY Zenon, <2>6, <2>10
<1>4. CASE ~(r.front = "gateway" /\ Authenticated(r.token))
  <2>1. bucket' = bucket
    BY Zenon, <1>4 DEF Charge
  <2>2. Early(r) # 429 /\ (r.front # "gateway" \/ Early(r) = 401)
    <3>1. \/ Early(r) = 401
          \/ r.front # "gateway" /\ Early(r) \in {0, 400, 403, 422}
      BY <1>4 DEF EarlyIs
    <3> QED BY <3>1
  <2>3. Len(log) <= Len(log') /\ \A n \in 1..Len(log') : n \notin 1..Len(log) => n = Len(log) + 1
    BY <1>1, <1>2
  <2>4. Quiet
    <3>1. \A n \in 1..Len(log) :
             /\ log'[n].req = log[n].req /\ log'[n].at = log[n].at
             /\ \/ log'[n].status = log[n].status
                \/ log[n].status = 0 /\ log'[n].status \notin {401, 429}
      BY <1>2
    <3>2. ASSUME NEW n \in 1..Len(log'), n \notin 1..Len(log)
          PROVE  /\ log'[n].at = clock /\ log'[n].status # 429
                 /\ log'[n].req.front # "gateway" \/ log'[n].status = 401
      BY <1>2, <2>2, <2>3, <3>2
    <3>3. \A n \in 1..Len(log') : n \notin 1..Len(log) =>
             /\ log'[n].at = clock /\ log'[n].status # 429
             /\ log'[n].req.front # "gateway" \/ log'[n].status = 401
      BY Zenon, <3>2
    <3> QED BY <1>1, <1>2, <2>1, <2>3, <3>1, <3>3 DEF Quiet
  <2>5. LimiterInv'
    BY Zenon, <2>4, QuietLimiter DEF TypeOK
  <2> QED BY Zenon, <1>1, <2>1, <2>5
<1> QED BY Zenon, <1>3, <1>4

\* Send keeps the invariant: the request is charged, recorded and, if refused, done.
LEMMA SendHolds ==
    ASSUME GatewayInv, NEW r \in Requests, Send(r)
    PROVE  GatewayInv'
<1>1. TypeOK /\ StepsInv /\ StartsInv /\ WalkInv /\ LimiterInv
  BY Zenon DEF GatewayInv
<1>2. MaySend(r) /\ Charge(r) /\ BeginWalk(r) /\ UNCHANGED <<clock, sagas, entry, lost>>
  BY Zenon DEF Send
<1>3. PICK p \in PaymentOf(r) : Arrived(r, p)
  BY Zenon, <1>1, SendArrives
<1>4. StartsInv'
  BY Zenon, <1>1, <1>2, <1>3, SendStarts
<1>5. /\ LimiterInv'
      /\ bucket' \in [Users -> {NoBucket} \cup [tokens : 0..Burst, last : 0..clock]]
  BY Zenon, <1>1, <1>2, <1>3, SendLimiter
<1>6. /\ log \in Seq(LogRecords) /\ log' \in Seq(LogRecords) /\ Len(log') = Len(log) + 1
      /\ \A n \in 1..Len(log) : log'[n] = log[n]
      /\ log'[Len(log) + 1].req = r
      /\ log'[Len(log) + 1].step = IF Early(r) = 0 THEN FirstStep(r) ELSE "done"
  BY Zenon, <1>1, <1>3 DEF Arrived, TypeOK
<1>7. 1..Len(log') = 1..Len(log) \cup {Len(log) + 1}
  BY <1>6
<1>8. StepsInv'
  <2>1. FirstStep(r) \in StepsOf(r) /\ "done" \in StepsOf(r)
    BY DEF FirstStep, StepsOf
  <2> QED BY Zenon, <1>1, <1>6, <1>7, <2>1 DEF StepsInv
<1>9. walk' \in [cursor : Cursors, seen : [Entries -> Nat], start : SUBSET Entries,
                 state : {"new", "reading", "done"}]
  <2>1. walk \in [cursor : Cursors, seen : [Entries -> Nat], start : SUBSET Entries,
                  state : {"new", "reading", "done"}]
    BY Zenon, <1>1 DEF TypeOK
  <2>2. \/ walk' = walk
        \/ walk' = [walk EXCEPT !.state = "reading", !.start = {e \in Entries : entry[e] # None}]
    BY Zenon, <1>2 DEF BeginWalk
  <2>3. PICK there \in SUBSET Entries : there = {e \in Entries : entry[e] # None}
    BY Zenon
  <2>4. walk' = walk \/ walk' = [walk EXCEPT !.state = "reading", !.start = there]
    BY Zenon, <2>2, <2>3
  <2> QED BY Zenon, <2>1, <2>4
<1>10. TypeOK'
  BY Zenon, <1>1, <1>2, <1>5, <1>6, <1>9 DEF TypeOK
<1>11. WalkInv'
  <2>1. CASE r.kind = "page"
    BY Zenon, <1>1, <1>2, <1>3, <2>1, AskWalk
  <2>2. CASE r.kind # "page"
    <3>1. walk' = walk
      BY Zenon, <1>2, <2>2 DEF BeginWalk
    <3>2. \A n \in Pending' : n \in Pending /\ log'[n] = log[n]
      BY Zenon, <1>6, <1>7, <2>2 DEF Pending, Open
    <3>3. Still
      BY Zenon, <1>2, <3>1, <3>2 DEF Still, EntriesKept
    <3> QED BY Zenon, <1>1, <3>3, StillWalk
  <2> QED BY Zenon, <2>1, <2>2
<1> QED BY Zenon, <1>4, <1>5, <1>8, <1>10, <1>11 DEF GatewayInv

-----------------------------------------------------------------------------
(* The theorems.                                                           *)

\* The gateway begins with nothing.
LEMMA InitHolds ==
    ASSUME Init
    PROVE  GatewayInv
<1>1. /\ clock = 0 /\ bucket = [u \in Users |-> NoBucket] /\ log = <<>>
      /\ sagas = [p \in Payments |-> None] /\ entry = [e \in Entries |-> None] /\ lost = 0
      /\ walk = [cursor |-> <<>>, seen |-> [e \in Entries |-> 0], start |-> {}, state |-> "new"]
  BY Zenon DEF Init, LimiterInit
<1>2. 1..Len(log) = {} /\ log \in Seq(LogRecords) /\ 0 \in Nat
  BY <1>1
<1>3. /\ walk.cursor = <<>> /\ walk.start = {} /\ walk.state = "new"
      /\ walk.seen = [e \in Entries |-> 0]
  BY <1>1
<1>4. TypeOK
  <2>1. bucket \in [Users -> {NoBucket} \cup [tokens : 0..Burst, last : 0..clock]]
    BY Zenon, <1>1
  <2>2. sagas \in [Payments -> {None} \cup SagaRows]
    BY Zenon, <1>1
  <2>3. entry \in [Entries -> {None} \cup 0..clock]
    BY Zenon, <1>1
  <2>4. <<>> \in Cursors /\ walk.seen \in [Entries -> Nat]
    BY Zenon, <1>2, <1>3 DEF Cursors
  <2>5. walk \in [cursor : Cursors, seen : [Entries -> Nat], start : SUBSET Entries,
                  state : {"new", "reading", "done"}]
    BY <1>1, <1>3, <2>4
  <2> QED BY Zenon, <1>1, <1>2, <2>1, <2>2, <2>3, <2>5 DEF TypeOK
<1>5. StepsInv
  BY Zenon, <1>2 DEF StepsInv
<1>6. StartsInv
  <2>1. Starts = {}
    BY Zenon, <1>2 DEF Starts
  <2>2. \A p \in Payments : sagas[p] = None
    BY Zenon, <1>1
  <2> QED BY Zenon, <2>1, <2>2 DEF StartsInv, RowInv, RetryNeverConflicts
<1>7. LimiterInv
  <2>1. \A u, s, t : Through(u, s, t) = {}
    BY Zenon, <1>2 DEF Through, Counted
  <2>2. \A u \in Users : BucketInv(u)
    BY Zenon, <1>1, <2>1 DEF BucketInv
  <2>3. \A u \in Users : \A t \in 0..clock : \A s \in 0..t : Budget(u, s, t)
    <3>1. ASSUME NEW u \in Users, NEW t \in 0..clock, NEW s \in 0..t PROVE Budget(u, s, t)
      <4>1. t = 0 /\ s = 0
        BY <1>1
      <4>2. Burst \in Nat \ {0} /\ RefillEvery \in Nat \ {0} /\ 0 \in Int
        BY LimiterAssumption
      <4>3. PICK zero \in Int : zero = 0
        BY Zenon, <4>2
      <4>4. 0 \div RefillEvery = 0
        <5>1. zero * RefillEvery <= zero /\ zero < zero * RefillEvery + RefillEvery
          BY <4>2, <4>3
        <5>2. zero \div RefillEvery = zero
          BY Zenon, <4>2, <5>1, QuotientIs
        <5> QED BY Zenon, <4>3, <5>2
      <4>5. t - s = 0
        BY <4>1
      <4>6. Cardinality(Through(u, s, t)) = 0
        BY Zenon, <2>1, FS_EmptySet
      <4>7. 0 <= Burst + 0 + 1
        BY <4>2
      <4> QED BY Zenon, <4>4, <4>5, <4>6, <4>7 DEF Budget
    <3> QED BY Zenon, <3>1
  <2>4. \A u, t : ~Denied(u, t)
    BY Zenon, <1>2 DEF Denied
  <2> QED BY Zenon, <1>2, <2>2, <2>3, <2>4 DEF LimiterInv
<1>8. WalkInv
  <2>1. Pending = {}
    BY Zenon, <1>2 DEF Pending, Open
  <2>2. \A e \in Entries : walk.seen[e] = 0 /\ walk.seen[e] # 1
    <3>1. 0 # 1
      OBVIOUS
    <3> QED BY Zenon, <1>3, <3>1
  <2>3. \A e \in Entries : e \notin walk.start
    BY Zenon, <1>3
  <2>4. walk.state # "done"
    BY <1>3
  <2> QED BY Zenon, <1>3, <2>1, <2>2, <2>3, <2>4 DEF WalkInv, Divides
<1> QED BY Zenon, <1>4, <1>5, <1>6, <1>7, <1>8 DEF GatewayInv

\* No step leaves the invariant.
LEMMA NextHolds ==
    ASSUME GatewayInv, [Next]_gatewayVars
    PROVE  GatewayInv'
<1>1. CASE \E r \in Requests : Send(r)
  BY Zenon, <1>1, SendHolds
<1>2. ASSUME NEW n \in 1..Len(log), Handle(n) \/ LoseConnection(n) \/ Fail(n)
      PROVE  GatewayInv'
  BY Zenon, <1>2, InsertHolds, FindHolds, AdvanceHolds, ServeHolds, ReadPageHolds,
     TransferHolds, AnswerHolds, LoseHolds, FailHolds DEF Handle
<1>3. CASE \E e \in Entries : CommitEntry(e)
  BY Zenon, <1>3, CommitHolds
<1>4. CASE Pass
  BY Zenon, <1>4, PassHolds
<1>5. CASE UNCHANGED gatewayVars
  <2>1. /\ clock' = clock /\ bucket' = bucket /\ log' = log /\ sagas' = sagas
        /\ entry' = entry /\ walk' = walk /\ lost' = lost
    BY Zenon, <1>5 DEF gatewayVars
  <2>2. TypeOK /\ StepsInv /\ StartsInv /\ WalkInv /\ LimiterInv
    BY Zenon DEF GatewayInv
  <2>3. TypeOK'
    BY Zenon, <2>1, <2>2 DEF TypeOK
  <2>4. StepsInv'
    BY Zenon, <2>1, <2>2 DEF StepsInv
  <2>5. StartsInv'
    <3>1. Kept /\ NoneNew
      BY Zenon, <2>1 DEF Kept, NoneNew
    <3>2. \A n \in Starts : StartGoes(n)
      BY Zenon, <2>1, <2>2, <3>1, IdleGoes
    <3>3. \A n \in Starts' : n \in Starts
      BY Zenon, <2>1 DEF Starts
    <3> QED BY Zenon, <2>2, <3>1, <3>2, <3>3, KeptRows, StartsGo
  <2>6. WalkInv'
    <3>1. Pending' = Pending
      BY Zenon, <2>1 DEF Pending, Open
    <3>2. Still
      BY Zenon, <2>1, <3>1 DEF Still, EntriesKept
    <3> QED BY Zenon, <2>2, <3>2, StillWalk
  <2>7. LimiterInv'
    <3>1. log \in Seq(LogRecords) /\ Len(log) <= Len(log')
      <4>1. log \in Seq(LogRecords)
        BY Zenon, <2>2 DEF TypeOK
      <4> QED BY <2>1, <4>1
    <3>2. Quiet
      BY Zenon, <2>1, <3>1 DEF Quiet
    <3>3. clock \in Nat
      BY Zenon, <2>2 DEF TypeOK
    <3> QED BY Zenon, <2>2, <3>2, <3>3, QuietLimiter
  <2> QED BY Zenon, <2>3, <2>4, <2>5, <2>6, <2>7 DEF GatewayInv
<1> QED BY Zenon, <1>1, <1>2, <1>3, <1>4, <1>5 DEF Next

\* The gateway, its limiter, the starts and the walk always keep their
\* inductive invariant, whatever is requested, lost or retried.
THEOREM GatewayInvariant == Spec => []GatewayInv
<1>1. Init => GatewayInv
  BY Zenon, InitHolds
<1>2. GatewayInv /\ [Next]_gatewayVars => GatewayInv'
  BY Zenon, NextHolds
<1> QED BY <1>1, <1>2, PTL DEF Spec

\* A payment answered with 202 is recorded as it was asked for, and no other
\* payment has its user and key.
THEOREM AcceptedAreRecorded == Spec => []AcceptedIsRecorded
<1>1. GatewayInv => AcceptedIsRecorded
  <2> SUFFICES ASSUME GatewayInv, NEW n \in Starts
               PROVE  log[n].status = 202 =>
                         /\ SameStartPayload(n, log[n].payment)
                         /\ \A p \in Payments \ {log[n].payment} : ~SameKey(n, p)
    BY Zenon DEF AcceptedIsRecorded
  <2>1. StartInv(n) /\ log[n].payment \in Payments
    BY Zenon DEF GatewayInv, StartsInv, StartInv
  <2>2. log[n].status = 202 => Matched(n)
    BY <2>1 DEF StartInv, Matched
  <2>3. Matched(n) => SameStartPayload(n, log[n].payment)
    BY Zenon, <2>1 DEF StartInv
  <2>4. ASSUME NEW p \in Payments, p = log[n].payment, SameStartPayload(n, p),
               NEW q \in Payments \ {p}, SameKey(n, q)
        PROVE  FALSE
    <3>1. RowInv(p)
      BY Zenon DEF GatewayInv, StartsInv
    <3>2. sagas[p] # None /\ sagas[q].user = sagas[p].user /\ sagas[q].key = sagas[p].key
      BY Zenon, <2>4 DEF SameStartPayload, SameKey
    <3>3. q = p
      BY Zenon, <2>4, <3>1, <3>2 DEF RowInv, SameKey
    <3> QED BY Zenon, <3>3
  <2>5. Matched(n) => \A q \in Payments \ {log[n].payment} : ~SameKey(n, q)
    BY Zenon, <2>1, <2>3, <2>4
  <2> QED BY Zenon, <2>2, <2>3, <2>5
<1> QED BY <1>1, GatewayInvariant, PTL

\* A start that names its payment is refused only because of one that asked for
\* something else: never because of its own first try.
THEOREM RetriesNeverConflict == Spec => []RetryNeverConflicts
<1>1. GatewayInv => RetryNeverConflicts
  BY Zenon DEF GatewayInv, StartsInv
<1> QED BY <1>1, GatewayInvariant, PTL

\* In no interval is a user let through more often than the burst and the
\* refills allow, for every burst and period.
THEOREM UsersStayWithinBudget == Spec => []WithinBudget
<1>1. GatewayInv => WithinBudget
  <2> SUFFICES ASSUME GatewayInv, NEW u \in Users,
                      NEW m \in Through(u, 0, clock), NEW n \in Through(u, 0, clock),
                      NEW s, s = log[m].at, NEW t, t = log[n].at, s <= t
               PROVE  Cardinality(Through(u, s, t)) <= Burst + (t - s) \div RefillEvery + 1
    BY Zenon DEF WithinBudget
  <2>1. s \in 0..clock /\ t \in 0..clock
    BY Zenon DEF Through, Counted
  <2>2. s \in 0..t
    BY <2>1
  <2>3. Budget(u, s, t)
    BY Zenon, <2>1, <2>2 DEF GatewayInv, LimiterInv
  <2> QED BY Zenon, <2>3 DEF Budget
<1> QED BY <1>1, GatewayInvariant, PTL

\* A user is turned away only after the burst and every whole period since.
THEOREM RefusalsAreOverBudget == Spec => []RefusedOnlyOverBudget
<1>1. GatewayInv => RefusedOnlyOverBudget
  <2> SUFFICES ASSUME GatewayInv, NEW n \in 1..Len(log)
               PROVE  log[n].status = 429 =>
                         \E s \in 0..log[n].at :
                            Cardinality(Through(log[n].req.token.user, s, log[n].at))
                               >= Burst + (log[n].at - s) \div RefillEvery
    BY Zenon DEF RefusedOnlyOverBudget
  <2>1. PICK u, t : u = log[n].req.token.user /\ t = log[n].at
    BY Zenon
  <2>2. log[n].req \in Requests /\ t \in Nat /\ t <= clock /\ clock \in Nat
    BY Zenon, <2>1, LogFields DEF GatewayInv, TypeOK, LimiterInv
  <2>3. u \in Users \cup {None} /\ t \in 0..clock
    <3>1. u \in Users \cup {None}
      BY Zenon, <2>1, <2>2, RoutesAssumption
    <3>2. t \in 0..clock
      BY <2>2
    <3> QED BY Zenon, <3>1, <3>2
  <2>4. log[n].status = 429 => Denied(u, t)
    BY <2>1 DEF Denied
  <2>5. Denied(u, t) => OverBudget(u, t)
    BY Zenon, <2>3 DEF GatewayInv, LimiterInv
  <2> QED BY Zenon, <2>1, <2>4, <2>5 DEF OverBudget
<1> QED BY <1>1, GatewayInvariant, PTL

\* A walk sees no entry twice, and at its end has seen all that were there when
\* it began, for every page size.
THEOREM WalksAreExact == Spec => []WalkIsExact
<1>1. GatewayInv => WalkIsExact
  <2> SUFFICES ASSUME GatewayInv PROVE WalkIsExact
    OBVIOUS
  <2>1. \A e \in Entries : walk.seen[e] \in {0, 1}
    BY Zenon DEF GatewayInv, WalkInv
  <2>2. \A e \in Entries : walk.seen[e] <= 1
    BY <2>1
  <2>3. walk.state = "done" => \A e \in walk.start : walk.seen[e] = 1
    BY Zenon DEF GatewayInv, WalkInv
  <2> QED BY Zenon, <2>2, <2>3 DEF WalkIsExact
<1> QED BY <1>1, GatewayInvariant, PTL

=============================================================================
