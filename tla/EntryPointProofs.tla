-------------------------- MODULE EntryPointProofs --------------------------
(***************************************************************************)
(* What the entry point keeps: the rate limiter in front of it, for any    *)
(* callers, burst, refill and size of the table, and for ever (the clock's *)
(* bound is only TLC's); then what one submission is answered, for any     *)
(* documents, media types and limits.                                      *)
(***************************************************************************)
EXTENDS RateLimit, Intake, SequenceTheorems, FiniteSetTheorems, WellFoundedInduction, TLAPS

Buckets == [caller : Callers, tokens : 0..Full, filledAt : Nat]

TypeOK ==
  /\ now \in Nat
  /\ buckets \in Seq(Buckets)
  /\ Len(buckets) <= Table
  /\ admitted \in [Callers -> Seq(Nat)]
  /\ retryAt \in [Callers -> Nat]
  /\ seen \in [Callers -> Nat]

-----------------------------------------------------------------------------

LEMMA Limits ==
  /\ Burst \in Nat \ {0} /\ Token \in Nat \ {0} /\ Refill \in Nat \ {0}
  /\ Second \in Nat \ {0} /\ Table \in Nat \ {0}
  /\ Full \in Nat /\ Token <= Full
<1>1. /\ Burst \in Nat \ {0} /\ Token \in Nat \ {0} /\ Refill \in Nat \ {0}
      /\ Second \in Nat \ {0} /\ Table \in Nat \ {0}
  BY LimitAssumption
<1>2. \A b, t \in Nat \ {0} : b * t \in Nat /\ t <= b * t
  OBVIOUS
<1> QED
  BY <1>1, <1>2 DEF Full

\* A caller's place in the table, if it has one.
LEMMA Places ==
  ASSUME NEW c \in Counted
  PROVE  PlaceOf(c) \in 1..Len(buckets) /\ buckets[PlaceOf(c)].caller = c
  BY DEF Counted, PlaceOf

\* Where the bucket at place k of the table looked up was before.
Came(c, k) ==
  IF c \in Counted
  THEN IF k < PlaceOf(c) THEN k ELSE k + 1
  ELSE IF Len(buckets) < Table THEN k ELSE k + 1

Fresh(c) == [caller |-> c, tokens |-> Full, filledAt |-> now]
Its(c) == IF c \in Counted THEN BucketOf(c) ELSE Fresh(c)

\* The table looked up: this caller's bucket last, the others in the order they were
\* in, and if it was full and the caller was not in it, all but the first.
LEMMA TableLookedUp ==
  ASSUME TypeOK, NEW c \in Callers
  PROVE  /\ LookedUp(c) \in Seq(Buckets)
         /\ Len(LookedUp(c)) \in 1..Table
         /\ Len(LookedUp(c)) = IF c \in Counted THEN Len(buckets)
                               ELSE IF Len(buckets) < Table THEN Len(buckets) + 1 ELSE Table
         /\ LookedUp(c)[Len(LookedUp(c))] = Its(c)
         /\ \A k \in 1..Len(LookedUp(c)) - 1 : /\ Came(c, k) \in 1..Len(buckets)
                                               /\ LookedUp(c)[k] = buckets[Came(c, k)]
<1> DEFINE n == Len(buckets)
<1>1. n \in Nat /\ n <= Table /\ \A i \in 1..n : buckets[i] \in Buckets
  BY ElementOfSeq, LenProperties DEF TypeOK
<1>2. Table \in Nat \ {0} /\ Full \in Nat
  BY Limits
<1>3. CASE c \in Counted
  <2> DEFINE p == PlaceOf(c)
             before == SubSeq(buckets, 1, p - 1)
             after == SubSeq(buckets, p + 1, n)
  <2>1. p \in 1..n /\ buckets[p] \in Buckets
    BY <1>1, <1>3, Places
  <2> HIDE DEF p
  <2>2. /\ before \in Seq(Buckets) /\ Len(before) = p - 1
        /\ \A i \in 1..p - 1 : before[i] = buckets[i]
    <3>1. 1 \in Int /\ p - 1 \in Int /\ \A i \in 1..p - 1 : buckets[i] \in Buckets
      BY <1>1, <2>1
    <3>2. /\ before \in Seq(Buckets)
          /\ Len(before) = IF 1 <= p - 1 THEN (p - 1) - 1 + 1 ELSE 0
          /\ \A i \in 1..(p - 1) - 1 + 1 : before[i] = buckets[1 + i - 1]
      BY <3>1, SubSeqProperties
    <3> HIDE DEF before
    <3> QED
      BY <1>1, <2>1, <3>2
  <2>3. /\ after \in Seq(Buckets) /\ Len(after) = n - p
        /\ \A i \in 1..n - p : after[i] = buckets[p + i]
    <3>1. p + 1 \in Int /\ n \in Int /\ \A i \in p + 1..n : buckets[i] \in Buckets
      BY <1>1, <2>1
    <3>2. /\ after \in Seq(Buckets)
          /\ Len(after) = IF p + 1 <= n THEN n - (p + 1) + 1 ELSE 0
          /\ \A i \in 1..n - (p + 1) + 1 : after[i] = buckets[(p + 1) + i - 1]
      BY <3>1, SubSeqProperties
    <3> HIDE DEF after
    <3> QED
      BY <1>1, <2>1, <3>2
  <2> DEFINE others == before \o after
  <2>4. Others(c) = others
    BY DEF Others, RemoveAt, p
  <2> HIDE DEF before, after
  <2>5. /\ others \in Seq(Buckets) /\ Len(others) = n - 1
        /\ \A k \in 1..n - 1 : others[k] = buckets[IF k < p THEN k ELSE k + 1]
    <3>1. /\ others \in Seq(Buckets)
          /\ Len(others) = Len(before) + Len(after)
          /\ \A i \in 1..Len(before) + Len(after) :
               others[i] = IF i <= Len(before) THEN before[i] ELSE after[i - Len(before)]
      BY <2>2, <2>3, ConcatProperties
    <3> HIDE DEF others
    <3>2. ASSUME NEW k \in 1..n - 1
          PROVE  others[k] = buckets[IF k < p THEN k ELSE k + 1]
      <4>1. CASE k < p
        BY <1>1, <2>1, <2>2, <2>3, <3>1, <4>1
      <4>2. CASE k >= p
        <5>1. k - (p - 1) \in 1..n - p /\ p + (k - (p - 1)) = k + 1
          BY <1>1, <2>1, <4>2
        <5>2. after[k - (p - 1)] = buckets[k + 1]
          BY <2>3, <5>1
        <5>3. k \in 1..(p - 1) + (n - p) /\ ~(k <= p - 1)
          BY <1>1, <2>1, <4>2
        <5>4. others[k] = after[k - (p - 1)]
          BY <2>2, <2>3, <3>1, <5>3
        <5> QED
          BY <2>1, <4>2, <5>2, <5>4
      <4> QED
        BY <1>1, <2>1, <4>1, <4>2
    <3>3. Len(others) = n - 1
      BY <1>1, <2>1, <2>2, <2>3, <3>1
    <3> QED
      BY <3>1, <3>2, <3>3
  <2> HIDE DEF others
  <2> DEFINE b == buckets[p]
             table == Append(others, b)
  <2>6. LookedUp(c) = table /\ Its(c) = b
    BY <1>3, <2>4 DEF LookedUp, Its, BucketOf, p
  <2>7. b \in Buckets
    BY <2>1
  <2> HIDE DEF b
  <2>8. /\ table \in Seq(Buckets) /\ Len(table) = Len(others) + 1
        /\ \A k \in 1..Len(others) : table[k] = others[k]
        /\ table[Len(others) + 1] = b
    BY <2>5, <2>7, AppendProperties
  <2> HIDE DEF table
  <2>9. Len(table) = n /\ table[n] = b
    BY <1>1, <2>1, <2>5, <2>8
  <2>10. \A k \in 1..n - 1 : Came(c, k) = IF k < p THEN k ELSE k + 1
    BY <1>3 DEF Came, p
  <2>11. ASSUME NEW k \in 1..n - 1
         PROVE  Came(c, k) \in 1..n /\ table[k] = buckets[Came(c, k)]
    <3>1. Came(c, k) = IF k < p THEN k ELSE k + 1
      BY <2>10
    <3>2. table[k] = others[k]
      BY <2>5, <2>8
    <3>3. others[k] = buckets[Came(c, k)]
      BY <2>5, <3>1
    <3> QED
      BY <1>1, <2>1, <3>1, <3>2, <3>3
  <2> QED
    BY <1>1, <1>2, <1>3, <2>1, <2>6, <2>8, <2>9, <2>11
<1>4. CASE c \notin Counted
  <2> DEFINE f == Fresh(c)
             all == Append(buckets, f)
             from == GreaterOf(1, Len(all) - Table + 1)
             table == SubSeq(all, from, Len(all))
  <2>1. f \in Buckets
    BY <1>2 DEF Fresh, Buckets, TypeOK
  <2>2. LookedUp(c) = table /\ Its(c) = f
    BY <1>4 DEF LookedUp, Its, Fresh
  <2> HIDE DEF f
  <2>3. /\ all \in Seq(Buckets) /\ Len(all) = n + 1
        /\ \A i \in 1..n : all[i] = buckets[i]
        /\ all[n + 1] = f
    BY <2>1, AppendProperties DEF TypeOK
  <2> HIDE DEF all
  <2>4. from = IF n < Table THEN 1 ELSE 2
    BY <1>1, <1>2, <2>3 DEF GreaterOf
  <2> HIDE DEF from
  <2>5. from \in Int /\ Len(all) \in Int /\ \A i \in from..Len(all) : all[i] \in Buckets
    BY <1>1, <2>1, <2>3, <2>4
  <2>6. /\ table \in Seq(Buckets)
        /\ Len(table) = IF from <= Len(all) THEN Len(all) - from + 1 ELSE 0
        /\ \A i \in 1..Len(all) - from + 1 : table[i] = all[from + i - 1]
    BY <2>5, SubSeqProperties
  <2> HIDE DEF table
  <2>7. Len(table) = IF n < Table THEN n + 1 ELSE Table
    BY <1>1, <1>2, <2>3, <2>4, <2>6
  <2>8. table[Len(table)] = f
    BY <1>1, <1>2, <2>3, <2>4, <2>6, <2>7
  <2>9. ASSUME NEW k \in 1..Len(table) - 1
        PROVE  Came(c, k) \in 1..n /\ table[k] = buckets[Came(c, k)]
    <3>1. Came(c, k) = IF n < Table THEN k ELSE k + 1
      BY <1>4 DEF Came
    <3> QED
      BY <1>1, <1>2, <2>3, <2>4, <2>6, <2>7, <3>1
  <2> QED
    BY <1>1, <1>2, <1>4, <2>2, <2>6, <2>7, <2>8, <2>9
<1> QED
  BY <1>3, <1>4

\* What a stretch of time returns, and nothing else is multiplied.
LEMMA Returned ==
  /\ \A a \in Nat : a * Refill \in Nat
  /\ \A a, b \in Nat : (a + b) * Refill = a * Refill + b * Refill
  /\ \A a, b \in Nat : a <= b => a * Refill <= b * Refill
<1>1. \A a, r \in Nat : a * r \in Nat
  OBVIOUS
<1>2. \A a, b, r \in Nat : (a + b) * r = a * r + b * r
  OBVIOUS
<1>3. \A a, b, r \in Nat : a <= b => a * r <= b * r
  <2> TAKE a, b, r \in Nat
  <2> HAVE a <= b
  <2>1. b - a \in Nat /\ b = a + (b - a)
    OBVIOUS
  <2>2. b * r = a * r + (b - a) * r /\ (b - a) * r \in Nat /\ a * r \in Nat
    BY <1>1, <1>2, <2>1
  <2> QED
    BY <2>2
<1> QED
  BY <1>1, <1>2, <1>3, Limits

\* The tokens a caller asks with, and what it leaves.
Asked(c) == Refilled(Its(c))
Left(c) == IF Asked(c) >= Token THEN Asked(c) - Token ELSE Asked(c)

LEMMA AskedIsTokens ==
  ASSUME TypeOK, NEW c \in Callers
  PROVE  Its(c) \in Buckets /\ Its(c).caller = c /\ Asked(c) \in 0..Full /\ Left(c) \in 0..Full
<1>1. Its(c) \in Buckets /\ Its(c).caller = c
  <2>1. CASE c \in Counted
    <3>1. PlaceOf(c) \in 1..Len(buckets) /\ buckets[PlaceOf(c)].caller = c
      BY <2>1, Places
    <3>2. buckets[PlaceOf(c)] \in Buckets
      BY <3>1, ElementOfSeq DEF TypeOK
    <3> QED
      BY <2>1, <3>1, <3>2 DEF Its, BucketOf
  <2>2. CASE c \notin Counted
    BY <2>2, Limits DEF Its, Fresh, Buckets, TypeOK
  <2> QED
    BY <2>1, <2>2
<1> DEFINE b == Its(c)
           e == GreaterOf(now - b.filledAt, 0)
<1>2. b.tokens \in 0..Full /\ b.filledAt \in Nat
  BY <1>1 DEF Buckets
<1>3. e \in Nat
  BY <1>2 DEF GreaterOf, TypeOK
<1>4. e * Refill \in Nat
  BY <1>3, Returned
<1>5. Asked(c) = LesserOf(Full, b.tokens + e * Refill)
  BY DEF Asked, Refilled
<1> HIDE DEF b, e
<1>6. Asked(c) \in 0..Full
  BY <1>2, <1>4, <1>5, Limits DEF LesserOf
<1> QED
  BY <1>1, <1>6, Limits DEF Left, b

\* The table after a take: the caller asking last, with what it left, and the others
\* as they were.
LEMMA TableTaken ==
  ASSUME TypeOK, NEW c \in Callers, Take(c)
  PROVE  /\ buckets' \in Seq(Buckets)
         /\ Len(buckets') = Len(LookedUp(c))
         /\ buckets'[Len(buckets')] = [caller |-> c, tokens |-> Left(c), filledAt |-> now]
         /\ \A k \in 1..Len(buckets') - 1 : /\ Came(c, k) \in 1..Len(buckets)
                                            /\ buckets'[k] = buckets[Came(c, k)]
<1> DEFINE table == LookedUp(c)
           m == Len(table)
           front == SubSeq(table, 1, m - 1)
           b == [caller |-> c, tokens |-> Left(c), filledAt |-> now]
<1>1. /\ table \in Seq(Buckets) /\ m \in 1..Table /\ table[m] = Its(c)
      /\ \A k \in 1..m - 1 : Came(c, k) \in 1..Len(buckets) /\ table[k] = buckets[Came(c, k)]
  BY TableLookedUp
<1>2. buckets' = Append(front, b)
  BY <1>1 DEF Take, Front, Last, Left, Asked
<1>3. b \in Buckets
  BY AskedIsTokens DEF Buckets, TypeOK
<1>4. \A i \in 1..m : table[i] \in Buckets
  BY <1>1, ElementOfSeq
<1> HIDE DEF table
<1>5. /\ front \in Seq(Buckets) /\ Len(front) = m - 1
      /\ \A k \in 1..m - 1 : front[k] = table[k]
  <2>1. m \in Nat \ {0} /\ 1 \in Int /\ m - 1 \in Int /\ \A i \in 1..m - 1 : table[i] \in Buckets
    BY <1>1, <1>4, Limits
  <2>2. /\ front \in Seq(Buckets)
        /\ Len(front) = IF 1 <= m - 1 THEN (m - 1) - 1 + 1 ELSE 0
        /\ \A i \in 1..(m - 1) - 1 + 1 : front[i] = table[1 + i - 1]
    BY <2>1, SubSeqProperties
  <2> HIDE DEF front, m
  <2> QED
    BY <2>1, <2>2
<1> HIDE DEF front, b
<1>6. /\ buckets' \in Seq(Buckets) /\ Len(buckets') = Len(front) + 1
      /\ \A k \in 1..Len(front) : buckets'[k] = front[k]
      /\ buckets'[Len(front) + 1] = b
  BY <1>2, <1>3, <1>5, AppendProperties
<1>7. m \in Nat \ {0}
  BY <1>1, Limits
<1> HIDE DEF m
<1>8. Len(buckets') = m /\ \A k \in 1..m - 1 : buckets'[k] = front[k]
  BY <1>5, <1>6, <1>7
<1> QED
  BY <1>1, <1>5, <1>6, <1>7, <1>8 DEF b, m, table
-----------------------------------------------------------------------------

\* Nobody has two buckets, and the table is in the order its callers were seen.
Ordered ==
  /\ \A c \in Callers : seen[c] <= now
  /\ \A i, j \in 1..Len(buckets) :
       i < j => /\ buckets[i].caller # buckets[j].caller
                /\ seen[buckets[i].caller] <= seen[buckets[j].caller]

\* What was admitted from a bucket since any of its times, with the tokens left, is no
\* more than a burst and what has come back since.
Paid(b, times) ==
  \A i \in 1..Len(times) :
    /\ times[i] <= b.filledAt
    /\ (Len(times) - i + 1) * Token + b.tokens <= Full + (b.filledAt - times[i]) * Refill

\* A caller told to come back finds a token then.
Told(b, at) ==
  at > 0 => at >= b.filledAt /\ b.tokens + (at - b.filledAt) * Refill >= Token

Kept(b) == b.filledAt <= now /\ Paid(b, admitted[b.caller]) /\ Told(b, retryAt[b.caller])

RateBounded(times) ==
  \A i, j \in 1..Len(times) :
    i <= j => (j - i + 1) * Token <= Full + (times[j] - times[i]) * Refill

IInv ==
  /\ TypeOK
  /\ Ordered
  /\ \A i \in 1..Len(buckets) : Kept(buckets[i])
  /\ \A c \in Callers : RateBounded(admitted[c])

\* The callers whose place was before keep it: none is the caller that asks, none
\* stands for two, and each is where it was among the others.
LEMMA PlacesKept ==
  ASSUME TypeOK, Ordered, NEW c \in Callers, Take(c)
  PROVE  /\ \A k \in 1..Len(buckets') - 1 : buckets'[k].caller # c
         /\ \A k, l \in 1..Len(buckets') - 1 : k < l => Came(c, k) < Came(c, l)
<1>1. /\ Len(buckets) \in Nat /\ Len(buckets') \in Nat
      /\ \A k \in 1..Len(buckets') - 1 : /\ Came(c, k) \in 1..Len(buckets)
                                         /\ buckets'[k] = buckets[Came(c, k)]
  BY TableTaken, LenProperties DEF TypeOK
<1>2. CASE c \in Counted
  <2>1. PlaceOf(c) \in 1..Len(buckets) /\ buckets[PlaceOf(c)].caller = c
    BY <1>2, Places
  <2>2. \A k \in 1..Len(buckets') - 1 : Came(c, k) = IF k < PlaceOf(c) THEN k ELSE k + 1
    BY <1>2 DEF Came
  <2>3. \A k \in 1..Len(buckets') - 1 : Came(c, k) # PlaceOf(c)
    BY <1>1, <2>1, <2>2
  <2>4. \A i \in 1..Len(buckets) : i # PlaceOf(c) => buckets[i].caller # c
    BY <1>1, <2>1 DEF Ordered
  <2> QED
    BY <1>1, <2>1, <2>2, <2>3, <2>4
<1>3. CASE c \notin Counted
  <2>1. \A i \in 1..Len(buckets) : buckets[i].caller # c
    BY <1>3 DEF Counted
  <2>2. \A k \in 1..Len(buckets') - 1 :
          Came(c, k) = IF Len(buckets) < Table THEN k ELSE k + 1
    BY <1>3 DEF Came
  <2> QED
    BY <1>1, <2>1, <2>2
<1> QED
  BY <1>2, <1>3

LEMMA TakeOrders ==
  ASSUME TypeOK, Ordered, NEW c \in Callers, Take(c)
  PROVE  Ordered'
<1>1. seen' = [seen EXCEPT ![c] = now] /\ now' = now
  BY DEF Take
<1>2. /\ Len(buckets) \in Nat /\ Len(buckets') \in Nat
      /\ buckets'[Len(buckets')].caller = c
      /\ \A k \in 1..Len(buckets') - 1 : /\ Came(c, k) \in 1..Len(buckets)
                                         /\ buckets'[k] = buckets[Came(c, k)]
  <2>1. buckets \in Seq(Buckets) /\ buckets' \in Seq(Buckets)
    BY TableTaken DEF TypeOK
  <2>2. buckets'[Len(buckets')] = [caller |-> c, tokens |-> Left(c), filledAt |-> now]
    BY TableTaken
  <2> QED
    BY <2>1, <2>2, TableTaken, LenProperties
<1>3. ASSUME NEW i \in 1..Len(buckets)
      PROVE  buckets[i].caller \in Callers
  <2>1. buckets[i] \in Buckets
    BY ElementOfSeq DEF TypeOK
  <2> QED
    BY <2>1 DEF Buckets
<1>4. /\ \A d \in Callers : d # c => seen'[d] = seen[d]
      /\ seen'[c] = now
      /\ \A d \in Callers : seen[d] <= now /\ seen[d] \in Nat
  BY <1>1 DEF TypeOK, Ordered
<1>5. ASSUME NEW i \in 1..Len(buckets'), NEW j \in 1..Len(buckets'), i < j
      PROVE  /\ buckets'[i].caller # buckets'[j].caller
             /\ seen'[buckets'[i].caller] <= seen'[buckets'[j].caller]
  <2>1. i \in 1..Len(buckets') - 1
    BY <1>2, <1>5
  <2>2. buckets'[i].caller # c /\ buckets'[i].caller \in Callers
    BY <1>2, <1>3, <2>1, PlacesKept
  <2>3. CASE j = Len(buckets')
    BY <1>2, <1>4, <2>2, <2>3
  <2>4. CASE j # Len(buckets')
    <3>1. j \in 1..Len(buckets') - 1
      BY <1>2, <2>4
    <3>2. buckets'[j].caller # c /\ buckets'[j].caller \in Callers
      BY <1>2, <1>3, <3>1, PlacesKept
    <3>3. /\ Came(c, i) < Came(c, j)
          /\ Came(c, i) \in 1..Len(buckets) /\ Came(c, j) \in 1..Len(buckets)
      BY <1>2, <1>5, <2>1, <3>1, PlacesKept
    <3>4. /\ buckets[Came(c, i)].caller # buckets[Came(c, j)].caller
          /\ seen[buckets[Came(c, i)].caller] <= seen[buckets[Came(c, j)].caller]
      BY <3>3 DEF Ordered
    <3> QED
      BY <1>2, <1>4, <2>1, <2>2, <3>1, <3>2, <3>4
  <2> QED
    BY <2>3, <2>4
<1>6. \A d \in Callers : seen'[d] <= now'
  BY <1>1, <1>4 DEF TypeOK
<1> QED
  BY <1>5, <1>6 DEF Ordered

\* What a take adds to the histories.
Own(c) == IF c \in Counted THEN admitted[c] ELSE <<>>

LEMMA HistoryTaken ==
  ASSUME TypeOK, NEW c \in Callers, Take(c)
  PROVE  /\ admitted'[c] = Own(c) \o (IF Asked(c) >= Token THEN <<now>> ELSE <<>>)
         /\ \A d \in Callers : d # c => admitted'[d] \in {admitted[d], <<>>}
         /\ \A k \in 1..Len(buckets') - 1 :
              buckets'[k].caller # c => admitted'[buckets'[k].caller] = admitted[buckets'[k].caller]
         /\ admitted' = [d \in Callers |-> admitted'[d]]
<1> DEFINE table == LookedUp(c)
           m == Len(table)
           more == Own(c) \o (IF Asked(c) >= Token THEN <<now>> ELSE <<>>)
           history == [admitted EXCEPT ![c] = more]
           there(d) == \E i \in 1..m : table[i].caller = d
<1>1. /\ table \in Seq(Buckets) /\ m \in 1..Table /\ table[m] = Its(c)
      /\ \A k \in 1..m - 1 : Came(c, k) \in 1..Len(buckets) /\ table[k] = buckets[Came(c, k)]
  BY TableLookedUp
<1>2. admitted' = [d \in Callers |-> IF there(d) THEN history[d] ELSE <<>>]
  BY <1>1 DEF Take, StillCounted, Last, Asked, Own
<1>3. there(c)
  <2>1. m \in 1..m
    BY <1>1, Limits
  <2> QED
    BY <1>1, <2>1, AskedIsTokens
<1>4. history[c] = more /\ \A d \in Callers : d # c => history[d] = admitted[d]
  BY DEF TypeOK
<1>5. /\ Len(buckets') = m
      /\ \A k \in 1..m - 1 : Came(c, k) \in 1..Len(buckets) /\ buckets'[k] = buckets[Came(c, k)]
  BY TableTaken
<1>6. ASSUME NEW k \in 1..m - 1
      PROVE  there(buckets'[k].caller) /\ buckets'[k].caller \in Callers
  <2>1. k \in 1..m /\ table[k] = buckets'[k]
    BY <1>1, <1>5, Limits
  <2>2. table[k] \in Buckets
    BY <1>1, <2>1, ElementOfSeq
  <2> QED
    BY <2>1, <2>2 DEF Buckets
<1> HIDE DEF there, history, more, table
<1> QED
  BY <1>2, <1>3, <1>4, <1>5, <1>6 DEF more

LEMMA Multiples ==
  /\ \A a \in Nat : a * Token \in Nat
  /\ \A a \in Nat : (a + 1) * Token = a * Token + Token
<1>1. \A a, t \in Nat : a * t \in Nat /\ (a + 1) * t = a * t + t
  OBVIOUS
<1> QED
  BY <1>1, Limits

\* A burst and what comes back, whichever the bucket a caller asks with.
LEMMA PaidWhenAsked ==
  ASSUME IInv, NEW c \in Callers
  PROVE  /\ Own(c) \in Seq(Nat)
         /\ \A i \in 1..Len(Own(c)) :
              /\ Own(c)[i] <= now
              /\ (Len(Own(c)) - i + 1) * Token + Asked(c) <= Full + (now - Own(c)[i]) * Refill
         /\ RateBounded(Own(c))
<1>1. CASE c \in Counted
  <2> DEFINE b == BucketOf(c)
             times == admitted[c]
             m == Len(times)
  <2>1. times \in Seq(Nat) /\ RateBounded(times) /\ Own(c) = times
    BY <1>1 DEF IInv, TypeOK, Own
  <2>2. Its(c) = b /\ b \in Buckets /\ b.caller = c
    BY <1>1, AskedIsTokens DEF IInv, Its
  <2>3. Paid(b, times) /\ b.filledAt <= now
    <3>1. PlaceOf(c) \in 1..Len(buckets)
      BY <1>1, Places
    <3>2. Kept(buckets[PlaceOf(c)])
      BY <3>1 DEF IInv
    <3> QED
      BY <2>2, <3>2 DEF Kept, BucketOf
  <2>4. now \in Nat /\ b.filledAt \in Nat /\ b.tokens \in 0..Full
    BY <2>2 DEF Buckets, IInv, TypeOK
  <2>5. Asked(c) <= b.tokens + (now - b.filledAt) * Refill /\ Asked(c) \in Nat
    <3>1. GreaterOf(now - b.filledAt, 0) = now - b.filledAt
      BY <2>3, <2>4 DEF GreaterOf
    <3>2. (now - b.filledAt) * Refill \in Nat
      <4>1. now - b.filledAt \in Nat
        BY <2>3, <2>4
      <4> QED
        BY <4>1, Returned
    <3>3. Asked(c) = LesserOf(Full, b.tokens + (now - b.filledAt) * Refill)
      BY <2>2, <3>1 DEF Asked, Refilled
    <3> HIDE DEF b
    <3> QED
      BY <2>4, <3>2, <3>3, Limits DEF LesserOf
  <2>6. m \in Nat /\ \A i \in 1..m : times[i] \in Nat
    BY <2>1, LenProperties, ElementOfSeq
  <2> HIDE DEF b, times, m
  <2>7. ASSUME NEW i \in 1..m
        PROVE  times[i] <= now /\ (m - i + 1) * Token + Asked(c) <= Full + (now - times[i]) * Refill
    <3>1. /\ times[i] <= b.filledAt
          /\ (m - i + 1) * Token + b.tokens <= Full + (b.filledAt - times[i]) * Refill
      BY <2>3 DEF Paid, m
    <3>2. m - i + 1 \in Nat /\ (m - i + 1) * Token \in Nat
      <4>1. m - i + 1 \in Nat
        BY <2>6
      <4> QED
        BY <4>1, Multiples
    <3>3. /\ b.filledAt - times[i] \in Nat /\ now - b.filledAt \in Nat
          /\ (b.filledAt - times[i]) + (now - b.filledAt) = now - times[i]
      BY <2>3, <2>4, <2>6, <3>1
    <3>4. (now - times[i]) * Refill
            = (b.filledAt - times[i]) * Refill + (now - b.filledAt) * Refill
      BY <3>3, Returned
    <3>5. (b.filledAt - times[i]) * Refill \in Nat /\ (now - b.filledAt) * Refill \in Nat
      BY <3>3, Returned
    <3>6. /\ (m - i + 1) * Token + Asked(c)
               <= (m - i + 1) * Token + b.tokens + (now - b.filledAt) * Refill
      BY <2>4, <2>5, <3>2, <3>5, Limits
    <3> QED
      BY <2>3, <2>4, <2>5, <2>6, <3>1, <3>2, <3>4, <3>5, <3>6, Limits
  <2> QED
    BY <2>1, <2>7 DEF m
<1>2. CASE c \notin Counted
  <2>1. Own(c) = <<>>
    BY <1>2 DEF Own
  <2> QED
    BY <2>1 DEF RateBounded
<1> QED
  BY <1>1, <1>2

\* Adding a time that a token was there for.
LEMMA OneMore ==
  ASSUME NEW times \in Seq(Nat), RateBounded(times), NEW at \in Nat, NEW asked \in Token..Full,
         \A i \in 1..Len(times) :
           /\ times[i] <= at
           /\ (Len(times) - i + 1) * Token + asked <= Full + (at - times[i]) * Refill,
         NEW b, b.filledAt = at, b.tokens = asked - Token
  PROVE  /\ times \o <<at>> \in Seq(Nat)
         /\ RateBounded(times \o <<at>>)
         /\ Paid(b, times \o <<at>>)
<1> DEFINE m == Len(times)
           more == times \o <<at>>
<1>1. m \in Nat /\ \A i \in 1..m : times[i] \in Nat
  BY LenProperties, ElementOfSeq
<1>2. /\ more \in Seq(Nat) /\ Len(more) = m + 1
      /\ \A i \in 1..m : more[i] = times[i]
      /\ more[m + 1] = at
  <2>1. more = Append(times, at)
    BY AppendIsConcat
  <2> HIDE DEF more
  <2> QED
    BY <2>1, AppendProperties
<1>3. Token \in Nat \ {0} /\ Full \in Nat
  BY Limits
<1>4. \A i \in 1..m : /\ times[i] <= at
                      /\ (m - i + 1) * Token + asked <= Full + (at - times[i]) * Refill
  OBVIOUS
<1>5. \A i, j \in 1..m : i <= j => (j - i + 1) * Token <= Full + (times[j] - times[i]) * Refill
  BY DEF RateBounded
<1>6. (at - at) * Refill = 0 /\ 1 * Token = Token
  BY Limits
<1> HIDE DEF m, more
<1>7. ASSUME NEW i \in 1..m
      PROVE  (m + 1 - i + 1) * Token + (asked - Token) <= Full + (at - times[i]) * Refill
  <2>1. m - i + 1 \in Nat /\ (m - i + 1) + 1 = m + 1 - i + 1 /\ at - times[i] \in Nat
    BY <1>1, <1>4
  <2>2. /\ (m + 1 - i + 1) * Token = (m - i + 1) * Token + Token
        /\ (m - i + 1) * Token \in Nat
    BY <2>1, Multiples
  <2>3. (at - times[i]) * Refill \in Nat
    BY <2>1, Returned
  <2> QED
    BY <1>3, <1>4, <2>2, <2>3
<1>8. Paid(b, more)
  <2> SUFFICES ASSUME NEW i \in 1..Len(more)
               PROVE  /\ more[i] <= at
                      /\ (Len(more) - i + 1) * Token + (asked - Token) <= Full + (at - more[i]) * Refill
    BY DEF Paid
  <2>1. CASE i \in 1..m
    <3>1. Len(more) - i + 1 = m + 1 - i + 1 /\ more[i] = times[i]
      BY <1>1, <1>2, <2>1
    <3> QED
      BY <1>4, <1>7, <2>1, <3>1
  <2>2. CASE i = m + 1
    <3>1. Len(more) - i + 1 = 1 /\ more[i] = at
      BY <1>1, <1>2, <2>2
    <3> QED
      BY <1>3, <1>6, <3>1
  <2> QED
    BY <1>1, <1>2, <2>1, <2>2
<1>9. RateBounded(more)
  <2> SUFFICES ASSUME NEW i \in 1..m + 1, NEW j \in 1..m + 1, i <= j
               PROVE  (j - i + 1) * Token <= Full + (more[j] - more[i]) * Refill
    BY <1>2 DEF RateBounded
  <2>1. CASE j \in 1..m
    <3>1. i \in 1..m
      BY <1>1, <2>1
    <3> QED
      BY <1>2, <1>5, <2>1, <3>1
  <2>2. CASE j = m + 1 /\ i \in 1..m
    <3>1. more[j] = at /\ more[i] = times[i] /\ j - i + 1 = m + 1 - i + 1
      BY <1>1, <1>2, <2>2
    <3>2. m + 1 - i + 1 \in Nat /\ at - times[i] \in Nat
      BY <1>1, <1>4, <2>2
    <3>3. (m + 1 - i + 1) * Token \in Nat /\ (at - times[i]) * Refill \in Nat
      BY <3>2, Multiples, Returned
    <3>4. (m + 1 - i + 1) * Token + (asked - Token) <= Full + (at - times[i]) * Refill
      BY <1>7, <2>2
    <3>5. (m + 1 - i + 1) * Token <= Full + (at - times[i]) * Refill
      BY <1>3, <3>3, <3>4
    <3> QED
      BY <3>1, <3>5
  <2>3. CASE j = m + 1 /\ i = m + 1
    <3>1. j - i + 1 = 1 /\ more[j] = at /\ more[i] = at
      BY <1>1, <1>2, <2>3
    <3> QED
      BY <1>3, <1>6, <3>1, Limits
  <2> QED
    BY <1>1, <2>1, <2>2, <2>3
<1> QED
  BY <1>2, <1>8, <1>9 DEF more

\* The seconds of Retry-After return the token that was missing, and take some time.
LEMMA WaitIsEnough ==
  ASSUME NEW t \in Nat, t < Token
  PROVE  Wait(t) \in Nat \ {0} /\ t + Wait(t) * Refill >= Token
<1>1. \A a \in Nat, d \in Nat \ {0} : /\ a \div d \in Nat
                                      /\ (a \div d) * d + (a % d) = a /\ a % d \in 0..d - 1
  OBVIOUS
<1>2. \A q, s \in Nat \ {0}, r \in Nat : q * s \in Nat \ {0} /\ (q * s) * r = q * (r * s)
  OBVIOUS
<1>3. \A q, p, d \in Nat : q <= p => q * d <= p * d
  <2>1. \A q, p, d \in Nat : q <= p => (p - q) * d \in Nat /\ p * d = q * d + (p - q) * d
    OBVIOUS
  <2>2. \A q, d \in Nat : q * d \in Nat
    OBVIOUS
  <2> QED
    BY <2>1, <2>2
<1> DEFINE ticks == Refill * Second
           a == Token - t + ticks - 1
           q == a \div ticks
           g == GreaterOf(q, 1)
<1>4. ticks \in Nat \ {0} /\ Token \in Nat \ {0} /\ Second \in Nat \ {0} /\ Refill \in Nat \ {0}
  BY <1>2, Limits
<1> HIDE DEF ticks
<1>5. a \in Nat
  BY <1>4
<1> HIDE DEF a
<1>6. q \in Nat /\ q * ticks + (a % ticks) = a /\ a % ticks \in 0..ticks - 1
  BY <1>1, <1>4, <1>5
<1>7. Wait(t) = g * Second
  BY DEF Wait, ticks, a
<1> HIDE DEF q
<1>8. q * ticks \in Nat /\ q * ticks >= Token - t
  BY <1>2, <1>4, <1>6 DEF a
<1>9. g \in Nat \ {0} /\ q <= g
  BY <1>6 DEF GreaterOf
<1> HIDE DEF g
<1>10. q * ticks <= g * ticks /\ g * ticks \in Nat
  BY <1>3, <1>4, <1>6, <1>9
<1>11. g * Second \in Nat \ {0} /\ (g * Second) * Refill = g * ticks
  BY <1>2, <1>4, <1>9 DEF ticks
<1> QED
  BY <1>4, <1>7, <1>8, <1>10, <1>11

\* What a take admits is paid for by the bucket it leaves.
LEMMA TakeIsPaid ==
  ASSUME IInv, NEW c \in Callers, Take(c)
  PROVE  /\ admitted' \in [Callers -> Seq(Nat)]
         /\ \A d \in Callers : RateBounded(admitted'[d])
         /\ Paid([caller |-> c, tokens |-> Left(c), filledAt |-> now], admitted'[c])
<1> DEFINE left == [caller |-> c, tokens |-> Left(c), filledAt |-> now]
<1>1. TypeOK /\ now \in Nat /\ Asked(c) \in 0..Full /\ Token \in Nat \ {0} /\ Full \in Nat
  BY AskedIsTokens, Limits DEF IInv, TypeOK
<1>2. left.filledAt = now /\ left.tokens = Left(c)
  OBVIOUS
<1> HIDE DEF left
<1>3. admitted'[c] \in Seq(Nat) /\ RateBounded(admitted'[c]) /\ Paid(left, admitted'[c])
  <2>1. CASE Asked(c) >= Token
    <3>1. PICK times \in Seq(Nat) : times = Own(c)
      BY PaidWhenAsked
    <3>2. PICK at \in Nat : at = now
      BY <1>1
    <3>3. PICK asked \in Token..Full : asked = Asked(c)
      BY <1>1, <2>1
    <3>4. PICK b : b = left
      OBVIOUS
    <3>5. /\ RateBounded(times)
          /\ \A i \in 1..Len(times) :
               /\ times[i] <= at
               /\ (Len(times) - i + 1) * Token + asked <= Full + (at - times[i]) * Refill
      BY <3>1, <3>2, <3>3, PaidWhenAsked
    <3>6. b.filledAt = at /\ b.tokens = asked - Token
      BY <1>2, <2>1, <3>2, <3>3, <3>4 DEF Left
    <3>7. times \o <<at>> \in Seq(Nat) /\ RateBounded(times \o <<at>>) /\ Paid(b, times \o <<at>>)
      BY <3>5, <3>6, OneMore
    <3>8. admitted'[c] = times \o <<at>>
      BY <1>1, <2>1, <3>1, <3>2, HistoryTaken
    <3> QED
      BY <3>4, <3>7, <3>8
  <2>2. CASE ~(Asked(c) >= Token)
    <3>1. Own(c) \in Seq(Nat)
      BY PaidWhenAsked
    <3>2. admitted'[c] = Own(c) \o <<>>
      BY <1>1, <2>2, HistoryTaken
    <3>3. admitted'[c] = Own(c)
      BY <3>1, <3>2, ConcatEmptySeq
    <3>4. left.tokens = Asked(c)
      BY <1>2, <2>2 DEF Left
    <3> QED
      BY <1>2, <3>1, <3>3, <3>4, PaidWhenAsked DEF Paid
  <2> QED
    BY <2>1, <2>2
<1>4. ASSUME NEW d \in Callers
      PROVE  admitted'[d] \in Seq(Nat) /\ RateBounded(admitted'[d])
  <2>1. CASE d = c
    BY <1>3, <2>1
  <2>2. CASE d # c
    <3>1. admitted'[d] \in {admitted[d], <<>>}
      BY <1>1, <2>2, HistoryTaken
    <3>2. <<>> \in Seq(Nat) /\ RateBounded(<<>>)
      BY DEF RateBounded
    <3>3. admitted[d] \in Seq(Nat) /\ RateBounded(admitted[d])
      BY DEF IInv, TypeOK
    <3> QED
      BY <3>1, <3>2, <3>3
  <2> QED
    BY <2>1, <2>2
<1>5. admitted' \in [Callers -> Seq(Nat)]
  BY <1>1, <1>4, HistoryTaken
<1> QED
  BY <1>3, <1>4, <1>5 DEF left

LEMMA TakeKeeps ==
  ASSUME IInv, NEW c \in Callers, Take(c)
  PROVE  IInv'
<1> DEFINE m == Len(buckets')
           left == [caller |-> c, tokens |-> Left(c), filledAt |-> now]
<1>1. /\ TypeOK /\ Ordered /\ now' = now /\ now \in Nat
      /\ retryAt' = [retryAt EXCEPT ![c] = IF Asked(c) >= Token THEN 0 ELSE now + Wait(Asked(c))]
      /\ seen' = [seen EXCEPT ![c] = now]
  <2>1. Last(LookedUp(c)) = Its(c)
    BY TableLookedUp DEF IInv, Last
  <2> QED
    BY <2>1 DEF IInv, TypeOK, Take, Asked
<1>2. /\ buckets' \in Seq(Buckets) /\ m = Len(LookedUp(c)) /\ buckets'[m] = left
      /\ \A k \in 1..m - 1 : Came(c, k) \in 1..Len(buckets) /\ buckets'[k] = buckets[Came(c, k)]
  BY <1>1, TableTaken
<1>3. m \in 1..Table
  BY <1>1, <1>2, TableLookedUp
<1>4. Asked(c) \in 0..Full /\ Token \in Nat \ {0} /\ Full \in Nat
  BY <1>1, AskedIsTokens, Limits
<1>5. ~(Asked(c) >= Token) => /\ Wait(Asked(c)) \in Nat \ {0}
                              /\ Asked(c) + Wait(Asked(c)) * Refill >= Token
  <2> SUFFICES ASSUME ~(Asked(c) >= Token)
               PROVE  Wait(Asked(c)) \in Nat \ {0} /\ Asked(c) + Wait(Asked(c)) * Refill >= Token
    OBVIOUS
  <2>1. PICK t \in Nat : t = Asked(c)
    BY <1>4
  <2>2. t < Token
    BY <1>4, <2>1
  <2>3. Wait(t) \in Nat \ {0} /\ t + Wait(t) * Refill >= Token
    BY <2>2, WaitIsEnough
  <2> QED
    BY <2>1, <2>3
<1>6. TypeOK'
  <2>1. retryAt' \in [Callers -> Nat]
    BY <1>1, <1>5 DEF TypeOK
  <2>2. seen' \in [Callers -> Nat]
    BY <1>1 DEF TypeOK
  <2>3. m <= Table
    BY <1>3, Limits
  <2> QED
    BY <1>1, <1>2, <2>1, <2>2, <2>3, TakeIsPaid DEF TypeOK
<1>7. Ordered'
  BY <1>1, TakeOrders
<1>8. ASSUME NEW k \in 1..m
      PROVE  Kept(buckets[k])'
  <2>1. CASE k = m
    <3>1. left.caller = c /\ left.tokens = Left(c) /\ left.filledAt = now
      OBVIOUS
    <3> HIDE DEF left
    <3>2. Told(left, retryAt'[c])
      <4>1. CASE Asked(c) >= Token
        <5>1. retryAt'[c] = 0
          BY <1>1, <4>1 DEF TypeOK
        <5> QED
          BY <5>1 DEF Told
      <4>2. CASE ~(Asked(c) >= Token)
        <5>1. retryAt'[c] = now + Wait(Asked(c)) /\ left.tokens = Asked(c)
          BY <1>1, <3>1, <4>2 DEF TypeOK, Left
        <5>2. retryAt'[c] - left.filledAt = Wait(Asked(c)) /\ retryAt'[c] >= left.filledAt
          BY <1>1, <1>5, <3>1, <4>2, <5>1
        <5> QED
          BY <1>5, <4>2, <5>1, <5>2 DEF Told
      <4> QED
        BY <4>1, <4>2
    <3>3. Paid(left, admitted'[c])
      BY TakeIsPaid DEF left
    <3>4. PICK b : b = left
      OBVIOUS
    <3>5. buckets'[k] = b /\ b.caller = c /\ b.filledAt = now
      BY <1>2, <2>1, <3>1, <3>4
    <3>6. Paid(b, admitted'[c]) /\ Told(b, retryAt'[c]) /\ b.filledAt <= now'
      BY <1>1, <3>2, <3>3, <3>4, <3>5
    <3> QED
      BY <3>5, <3>6 DEF Kept, Paid, Told
  <2>2. CASE k \in 1..m - 1
    <3> DEFINE b == buckets[Came(c, k)]
               d == b.caller
    <3>1. Came(c, k) \in 1..Len(buckets) /\ buckets'[k] = b /\ d # c
      BY <1>1, <1>2, <2>2, PlacesKept
    <3>2. b \in Buckets /\ Kept(b)
      BY <1>1, <3>1, ElementOfSeq DEF IInv, TypeOK
    <3>3. d \in Callers
      BY <3>2 DEF Buckets
    <3>4. retryAt'[d] = retryAt[d]
      BY <1>1, <3>1, <3>3 DEF TypeOK
    <3>5. admitted'[d] = admitted[d]
      BY <1>1, <2>2, <3>1, HistoryTaken
    <3> HIDE DEF b
    <3> QED
      BY <1>1, <3>1, <3>2, <3>4, <3>5 DEF Kept, Paid, Told
  <2> QED
    BY <1>3, <2>1, <2>2, Limits
<1>9. \A d \in Callers : RateBounded(admitted'[d])
  BY TakeIsPaid
<1> QED
  BY <1>6, <1>7, <1>8, <1>9 DEF IInv, RateBounded

THEOREM RateLimitInductive == Spec => []IInv
<1>1. Init => IInv
  <2> SUFFICES ASSUME Init
               PROVE  IInv
    OBVIOUS
  <2>1. buckets = <<>> /\ buckets \in Seq(Buckets) /\ Len(buckets) = 0
    BY EmptySeq DEF Init
  <2>2. TypeOK
    BY <2>1, Limits DEF Init, TypeOK
  <2>3. Ordered
    BY <2>1 DEF Init, Ordered
  <2>4. \A c \in Callers : RateBounded(admitted[c])
    BY DEF Init, RateBounded
  <2> QED
    BY <2>1, <2>2, <2>3, <2>4 DEF IInv
<1>2. IInv /\ [Next]_vars => IInv'
  <2> SUFFICES ASSUME IInv, [Next]_vars
               PROVE  IInv'
    OBVIOUS
  <2>1. CASE Tick
    <3>1. /\ now \in Nat /\ now' = now + 1 /\ buckets' = buckets /\ admitted' = admitted
          /\ retryAt' = retryAt /\ seen' = seen
      BY <2>1 DEF Tick, IInv, TypeOK
    <3>2. TypeOK' /\ Ordered'
      BY <3>1 DEF IInv, TypeOK, Ordered
    <3>3. ASSUME NEW i \in 1..Len(buckets)
          PROVE  Kept(buckets[i])'
      <4>1. Kept(buckets[i]) /\ buckets[i] \in Buckets
        BY ElementOfSeq DEF IInv, TypeOK
      <4>2. buckets[i].filledAt \in Nat
        BY <4>1 DEF Buckets
      <4> QED
        BY <3>1, <4>1, <4>2 DEF Kept, Paid, Told
    <3> QED
      BY <3>1, <3>2, <3>3 DEF IInv, RateBounded
  <2>2. ASSUME NEW c \in Callers, Take(c)
        PROVE  IInv'
    BY <2>2, TakeKeeps
  <2>3. CASE UNCHANGED vars
    BY <2>3 DEF vars, IInv, TypeOK, Ordered, Kept, Paid, Told, RateBounded
  <2> QED
    BY <2>1, <2>2, <2>3 DEF Next
<1> QED
  BY <1>1, <1>2, PTL DEF Spec

-----------------------------------------------------------------------------

\* In any stretch of time a caller is admitted, from one bucket, no more than a burst
\* and what that time returns (Bucket.take).
THEOREM RateIsBounded == Spec => []SustainedRateBounded
<1>1. IInv => SustainedRateBounded
  BY DEF IInv, RateBounded, SustainedRateBounded
<1> QED
  BY <1>1, RateLimitInductive, PTL

\* A caller that comes back when Retry-After told it to is let in, though its bucket was
\* dropped meanwhile.
THEOREM RetryAfterLetsIn == Spec => RetryAfterIsKept
<1> DEFINE LetInThen == \A c \in Callers :
                      (Take(c) /\ retryAt[c] > 0 /\ now >= retryAt[c]) => retryAt'[c] = 0
<1>1. IInv => LetInThen
  <2> SUFFICES ASSUME IInv, NEW c \in Callers, Take(c), retryAt[c] > 0, now >= retryAt[c]
               PROVE  retryAt'[c] = 0
    OBVIOUS
  <2>1. Last(LookedUp(c)) = Its(c)
    BY TableLookedUp DEF IInv, Last
  <2>2. Asked(c) >= Token
    <3>1. Its(c) \in Buckets /\ Its(c).caller = c /\ now \in Nat /\ retryAt[c] \in Nat
      BY AskedIsTokens DEF IInv, TypeOK
    <3>2. CASE c \in Counted
      <4> DEFINE b == Its(c)
                 due == retryAt[c] - b.filledAt
                 gone == now - b.filledAt
      <4>1. Kept(b)
        <5>1. PlaceOf(c) \in 1..Len(buckets)
          BY <3>2, Places
        <5> QED
          BY <3>2, <5>1 DEF IInv, Its, BucketOf
      <4>2. Told(b, retryAt[c]) /\ b.filledAt <= now
        BY <3>1, <4>1 DEF Kept
      <4>3. b.filledAt \in Nat /\ b.tokens \in Nat
        BY <3>1 DEF Buckets
      <4>4. Asked(c) = LesserOf(Full, b.tokens + GreaterOf(gone, 0) * Refill)
        BY DEF Asked, Refilled
      <4> HIDE DEF b
      <4>5. due \in Nat /\ gone \in Nat /\ due <= gone /\ b.tokens + due * Refill >= Token
        BY <3>1, <4>2, <4>3 DEF Told
      <4>6. GreaterOf(gone, 0) = gone
        BY <4>5 DEF GreaterOf
      <4> HIDE DEF due, gone
      <4>7. due * Refill <= gone * Refill /\ due * Refill \in Nat /\ gone * Refill \in Nat
        BY <4>5, Returned
      <4> QED
        BY <4>3, <4>4, <4>5, <4>6, <4>7, Limits DEF LesserOf
    <3>3. CASE c \notin Counted
      <4>1. Asked(c) = LesserOf(Full, Full + GreaterOf(now - now, 0) * Refill)
        BY <3>3 DEF Asked, Refilled, Its, Fresh
      <4>2. GreaterOf(now - now, 0) = 0 /\ 0 * Refill = 0
        BY <3>1, Limits DEF GreaterOf
      <4> QED
        BY <4>1, <4>2, Limits DEF LesserOf
    <3> QED
      BY <3>2, <3>3
  <2>3. retryAt' = [retryAt EXCEPT ![c] = 0]
    BY <2>1, <2>2 DEF Take, Asked
  <2> QED
    BY <2>3 DEF IInv, TypeOK
<1> QED
  BY <1>1, RateLimitInductive, PTL DEF RetryAfterIsKept

\* The caller a full table drops was seen no later than any it keeps; nobody has two
\* buckets, and the table never grows past its size (Limiters.take).
THEOREM QuietestIsDropped == Spec => LeastRecentlySeenIsDropped
<1> DEFINE Quietest == \A c, d \in Callers : DroppedIn(c) /\ d \in Counted' => seen[c] <= seen'[d]
<1> DEFINE Sized == Len(buckets) <= Table /\ Cardinality(Counted) = Len(buckets)
<1>1. IInv => Sized
  <2> SUFFICES ASSUME IInv
               PROVE  Cardinality(Counted) = Len(buckets)
    BY DEF IInv, TypeOK
  <2> DEFINE f == [i \in 1..Len(buckets) |-> buckets[i].caller]
  <2>1. \A i, j \in 1..Len(buckets) : i # j => f[i] # f[j]
    <3> SUFFICES ASSUME NEW i \in 1..Len(buckets), NEW j \in 1..Len(buckets), i # j
                 PROVE  buckets[i].caller # buckets[j].caller
      OBVIOUS
    <3>1. i < j \/ j < i
      OBVIOUS
    <3> QED
      BY <3>1 DEF IInv, Ordered
  <2>2. Len(buckets) \in Nat
    BY LenProperties DEF IInv, TypeOK
  <2>3. f \in Bijection(1..Len(buckets), Counted)
    BY <2>1 DEF Counted, Bijection, Injection, Surjection, IsInjective
  <2> HIDE DEF f
  <2>4. ExistsBijection(1..Len(buckets), Counted)
    BY <2>3 DEF ExistsBijection
  <2> QED
    BY <2>2, <2>4, FS_CountingElements
<1>2. IInv /\ [Next]_vars => Quietest
  <2> SUFFICES ASSUME IInv, [Next]_vars, NEW c \in Callers, NEW d \in Callers,
                      c \in Counted, c \notin Counted', d \in Counted'
               PROVE  seen[c] <= seen'[d]
    BY DEF DroppedIn
  <2>1. PICK e \in Callers : Take(e)
    BY DEF Next, Tick, vars, Counted
  <2>2. TypeOK /\ Ordered /\ now \in Nat /\ seen' = [seen EXCEPT ![e] = now]
    BY <2>1 DEF IInv, TypeOK, Take
  <2>3. /\ Len(buckets) \in Nat /\ Len(buckets') = Len(LookedUp(e)) /\ Len(buckets') \in Nat
        /\ buckets'[Len(buckets')] = [caller |-> e, tokens |-> Left(e), filledAt |-> now]
        /\ \A k \in 1..Len(buckets') - 1 : /\ Came(e, k) \in 1..Len(buckets)
                                           /\ buckets'[k] = buckets[Came(e, k)]
    <3>1. buckets \in Seq(Buckets) /\ buckets' \in Seq(Buckets)
      BY <2>1, <2>2, TableTaken DEF TypeOK
    <3> QED
      BY <2>1, <2>2, <3>1, TableTaken, LenProperties
  <2>4. /\ Len(buckets') \in 1..Table
        /\ Len(buckets') = IF e \in Counted THEN Len(buckets)
                           ELSE IF Len(buckets) < Table THEN Len(buckets) + 1 ELSE Table
    BY <2>2, <2>3, TableLookedUp
  <2>5. \A k \in 1..Len(buckets') : buckets'[k].caller # c
    BY DEF Counted
  <2>6. c # e
    <3>1. Len(buckets') \in 1..Len(buckets') /\ buckets'[Len(buckets')].caller = e
      BY <2>3, <2>4, Limits
    <3> QED
      BY <2>5, <3>1
  <2>7. PICK i \in 1..Len(buckets) : buckets[i].caller = c
    BY DEF Counted
  <2>8. PICK j \in 1..Len(buckets') : buckets'[j].caller = d
    BY DEF Counted
  <2>9. \A k \in 1..Len(buckets') - 1 : Came(e, k) # i
    BY <2>3, <2>5, <2>7
  <2>10. e \notin Counted /\ ~(Len(buckets) < Table) /\ i = 1
    <3>1. CASE e \in Counted
      <4>1. PlaceOf(e) \in 1..Len(buckets) /\ buckets[PlaceOf(e)].caller = e
        BY <3>1, Places
      <4>2. i # PlaceOf(e)
        BY <2>6, <2>7, <4>1
      <4>3. \A k \in 1..Len(buckets') - 1 : Came(e, k) = IF k < PlaceOf(e) THEN k ELSE k + 1
        BY <3>1 DEF Came
      <4>4. i < PlaceOf(e) => i \in 1..Len(buckets') - 1 /\ Came(e, i) = i
        BY <2>3, <2>4, <3>1, <4>1, <4>3
      <4>5. i > PlaceOf(e) => i - 1 \in 1..Len(buckets') - 1 /\ Came(e, i - 1) = i
        BY <2>3, <2>4, <3>1, <4>1, <4>3
      <4> QED
        BY <2>3, <2>9, <4>1, <4>2, <4>4, <4>5
    <3>2. CASE e \notin Counted
      <4>1. \A k \in 1..Len(buckets') - 1 :
              Came(e, k) = IF Len(buckets) < Table THEN k ELSE k + 1
        BY <3>2 DEF Came
      <4>2. Len(buckets) < Table => i \in 1..Len(buckets') - 1 /\ Came(e, i) = i
        BY <2>3, <2>4, <3>2, <4>1
      <4>3. ~(Len(buckets) < Table) /\ i > 1 => i - 1 \in 1..Len(buckets') - 1 /\ Came(e, i - 1) = i
        BY <2>2, <2>3, <2>4, <3>2, <4>1, Limits DEF TypeOK
      <4> QED
        BY <2>3, <2>9, <3>2, <4>2, <4>3
    <3> QED
      BY <3>1, <3>2
  <2>11. CASE d = e
    BY <2>2, <2>11 DEF TypeOK, Ordered
  <2>12. CASE d # e
    <3>1. j \in 1..Len(buckets') - 1
      BY <2>3, <2>8, <2>12
    <3>2. Came(e, j) = j + 1 /\ Came(e, j) \in 1..Len(buckets)
      BY <2>3, <2>10, <3>1 DEF Came
    <3>3. buckets[Came(e, j)].caller = d /\ i < Came(e, j)
      BY <2>3, <2>8, <2>10, <3>1, <3>2
    <3>4. seen[c] <= seen[d]
      BY <2>2, <2>7, <3>2, <3>3 DEF Ordered
    <3> QED
      BY <2>2, <2>12, <3>4 DEF TypeOK
  <2> QED
    BY <2>11, <2>12
<1>3. Sized' => Len(buckets') <= Table /\ Cardinality(Counted') = Len(buckets')
  OBVIOUS
<1> HIDE DEF Sized
<1> QED
  BY <1>1, <1>2, <1>3, RateLimitInductive, PTL DEF LeastRecentlySeenIsDropped, Spec

-----------------------------------------------------------------------------
\* One submission (Intake).

LEMMA Joined ==
  ASSUME NEW S, NEW s \in Seq(S), NEW t \in Seq(S), NEW u \in Seq(S),
         Len(u) = Len(s) + Len(t),
         \A i \in 1..Len(u) : u[i] = IF i <= Len(s) THEN s[i] ELSE t[i - Len(s)]
  PROVE  s \o t = u
<1>1. /\ s \o t \in Seq(S) /\ Len(s \o t) = Len(u)
      /\ \A i \in 1..Len(s \o t) : (s \o t)[i] = u[i]
  BY ConcatProperties
<1> QED
  BY <1>1, SeqEqual

LEMMA OneAndOne ==
  ASSUME NEW a, NEW b
  PROVE  <<a>> \o <<b>> = <<a, b>>
<1> DEFINE S == {a, b}  s == <<a>>  t == <<b>>  u == <<a, b>>
<1>1. s \in Seq(S) /\ t \in Seq(S) /\ u \in Seq(S) /\ Len(u) = Len(s) + Len(t)
  OBVIOUS
<1>2. \A i \in 1..Len(u) : u[i] = IF i <= Len(s) THEN s[i] ELSE t[i - Len(s)]
  OBVIOUS
<1> HIDE DEF S, s, t, u
<1>3. s \o t = u
  BY <1>1, <1>2, Joined
<1> QED
  BY <1>3 DEF s, t, u

LEMMA TwoAndOne ==
  ASSUME NEW a, NEW b, NEW c
  PROVE  <<a, b>> \o <<c>> = <<a, b, c>>
<1> DEFINE S == {a, b, c}  s == <<a, b>>  t == <<c>>  u == <<a, b, c>>
<1>1. s \in Seq(S) /\ t \in Seq(S) /\ u \in Seq(S) /\ Len(u) = Len(s) + Len(t)
  OBVIOUS
<1>2. \A i \in 1..Len(u) : u[i] = IF i <= Len(s) THEN s[i] ELSE t[i - Len(s)]
  OBVIOUS
<1> HIDE DEF S, s, t, u
<1>3. s \o t = u
  BY <1>1, <1>2, Joined
<1> QED
  BY <1>3 DEF s, t, u

LEMMA TwoAndTwo ==
  ASSUME NEW a, NEW b, NEW c, NEW d
  PROVE  <<a, b>> \o <<c, d>> = <<a, b, c, d>>
<1> DEFINE S == {a, b, c, d}  s == <<a, b>>  t == <<c, d>>  u == <<a, b, c, d>>
<1>1. s \in Seq(S) /\ t \in Seq(S) /\ u \in Seq(S) /\ Len(u) = Len(s) + Len(t)
  OBVIOUS
<1>2. \A i \in 1..Len(u) : u[i] = IF i <= Len(s) THEN s[i] ELSE t[i - Len(s)]
  OBVIOUS
<1> HIDE DEF S, s, t, u
<1>3. s \o t = u
  BY <1>1, <1>2, Joined
<1> QED
  BY <1>3 DEF s, t, u

LEMMA TwoAndThree ==
  ASSUME NEW a, NEW b, NEW c, NEW d, NEW e
  PROVE  <<a, b>> \o <<c, d, e>> = <<a, b, c, d, e>>
<1> DEFINE S == {a, b, c, d, e}  s == <<a, b>>  t == <<c, d, e>>  u == <<a, b, c, d, e>>
<1>1. s \in Seq(S) /\ t \in Seq(S) /\ u \in Seq(S) /\ Len(u) = Len(s) + Len(t)
  OBVIOUS
<1>2. \A i \in 1..Len(u) : u[i] = IF i <= Len(s) THEN s[i] ELSE t[i - Len(s)]
  OBVIOUS
<1> HIDE DEF S, s, t, u
<1>3. s \o t = u
  BY <1>1, <1>2, Joined
<1> QED
  BY <1>3 DEF s, t, u

\* All passed but the last, which is a refusal.
EndsRefused(found) ==
  \E n \in Nat \ {0} : /\ Len(found) = n
                       /\ \A k \in 1..n - 1 : found[k].passed
                       /\ ~found[n].passed /\ found[n] = Refused(found[n].check)

LEMMA PassedIs ==
  ASSUME NEW check
  PROVE  /\ Passed(check).passed /\ Passed(check).check = check
         /\ ~Refused(check).passed /\ Refused(check).check = check
  BY Zenon DEF Passed, Refused

LEMMA Ends ==
  ASSUME NEW a, NEW b, NEW c, NEW d, NEW e
  PROVE  /\ EndsRefused(<<Refused(a)>>)
         /\ EndsRefused(<<Passed(a), Refused(b)>>)
         /\ EndsRefused(<<Passed(a), Passed(b), Refused(c)>>)
         /\ EndsRefused(<<Passed(a), Passed(b), Passed(c), Refused(d)>>)
         /\ EndsRefused(<<Passed(a), Passed(b), Passed(c), Passed(d), Refused(e)>>)
<1>1. ASSUME NEW found, NEW n \in Nat \ {0}, NEW check, Len(found) = n,
             \A k \in 1..n - 1 : found[k].passed, found[n] = Refused(check)
      PROVE  EndsRefused(found)
  BY <1>1, PassedIs DEF EndsRefused
<1>2. EndsRefused(<<Refused(a)>>)
  <2> DEFINE found == <<Refused(a)>>
  <2>1. 1 \in Nat \ {0} /\ Len(found) = 1 /\ found[1] = Refused(a)
    OBVIOUS
  <2>2. \A k \in 1..1 - 1 : found[k].passed
    BY PassedIs
  <2> HIDE DEF found
  <2>3. EndsRefused(found)
    BY <1>1, <2>1, <2>2, Zenon
  <2> QED
    BY <2>3 DEF found
<1>3. EndsRefused(<<Passed(a), Refused(b)>>)
  <2> DEFINE found == <<Passed(a), Refused(b)>>
  <2>1. 2 \in Nat \ {0} /\ Len(found) = 2 /\ found[2] = Refused(b)
    OBVIOUS
  <2>2. \A k \in 1..2 - 1 : found[k].passed
    BY PassedIs
  <2> HIDE DEF found
  <2>3. EndsRefused(found)
    BY <1>1, <2>1, <2>2, Zenon
  <2> QED
    BY <2>3 DEF found
<1>4. EndsRefused(<<Passed(a), Passed(b), Refused(c)>>)
  <2> DEFINE found == <<Passed(a), Passed(b), Refused(c)>>
  <2>1. 3 \in Nat \ {0} /\ Len(found) = 3 /\ found[3] = Refused(c)
    OBVIOUS
  <2>2. \A k \in 1..3 - 1 : found[k].passed
    BY PassedIs
  <2> HIDE DEF found
  <2>3. EndsRefused(found)
    BY <1>1, <2>1, <2>2, Zenon
  <2> QED
    BY <2>3 DEF found
<1>5. EndsRefused(<<Passed(a), Passed(b), Passed(c), Refused(d)>>)
  <2> DEFINE found == <<Passed(a), Passed(b), Passed(c), Refused(d)>>
  <2>1. 4 \in Nat \ {0} /\ Len(found) = 4 /\ found[4] = Refused(d)
    OBVIOUS
  <2>2. \A k \in 1..4 - 1 : found[k].passed
    BY PassedIs
  <2> HIDE DEF found
  <2>3. EndsRefused(found)
    BY <1>1, <2>1, <2>2, Zenon
  <2> QED
    BY <2>3 DEF found
<1>6. EndsRefused(<<Passed(a), Passed(b), Passed(c), Passed(d), Refused(e)>>)
  <2> DEFINE found == <<Passed(a), Passed(b), Passed(c), Passed(d), Refused(e)>>
  <2>1. 5 \in Nat \ {0} /\ Len(found) = 5 /\ found[5] = Refused(e)
    OBVIOUS
  <2>2. \A k \in 1..5 - 1 : found[k].passed
    BY PassedIs
  <2> HIDE DEF found
  <2>3. EndsRefused(found)
    BY <1>1, <2>1, <2>2, Zenon
  <2> QED
    BY <2>3 DEF found
<1> QED
  BY <1>2, <1>3, <1>4, <1>5, <1>6

LEMMA PassedTuples ==
  ASSUME NEW a, NEW b
  PROVE  /\ AllPassed(<<Passed(a)>>) /\ ~AllPassed(<<Refused(a)>>)
         /\ AllPassed(<<Passed(a), Passed(b)>>) /\ ~AllPassed(<<Passed(a), Refused(b)>>)
<1>1. AllPassed(<<Passed(a)>>)
  BY PassedIs DEF AllPassed
<1>2. ~AllPassed(<<Refused(a)>>)
  BY PassedIs DEF AllPassed
<1>3. AllPassed(<<Passed(a), Passed(b)>>)
  BY PassedIs DEF AllPassed
<1>4. ~AllPassed(<<Passed(a), Refused(b)>>)
  BY PassedIs DEF AllPassed
<1> QED
  BY <1>1, <1>2, <1>3, <1>4

LEMMA NotDecoded ==
  ASSUME NEW check \in {"size", "media_type"}
  PROVE  /\ ~Decoded(<<Refused(check)>>)
         /\ ~Decoded(<<Passed("size"), Refused(check)>>)
<1>1. ~Decoded(<<Refused(check)>>)
  BY PassedIs DEF Decoded
<1>2. ~Decoded(<<Passed("size"), Refused(check)>>)
  BY PassedIs DEF Decoded
<1> QED
  BY <1>1, <1>2

LEMMA Larger ==
  ASSUME NEW a \in Nat, NEW b \in Nat
  PROVE  Max({a, b}) = IF a < b THEN b ELSE a
<1>1. \E x \in {a, b} : \A y \in {a, b} : x >= y
  OBVIOUS
<1>2. Max({a, b}) \in {a, b} /\ \A y \in {a, b} : Max({a, b}) >= y
  BY <1>1 DEF Max
<1> QED
  BY <1>2

LEMMA LastStep ==
  ASSUME NEW document \in Documents, Fits(document), Taken(document),
         NEW found, found = IF document.type = "pdf" THEN Pdf(document) ELSE Archive(document)
  PROVE  \/ /\ Acceptable(document)
            /\ found = <<Passed("structure"), Passed("encryption"),
                         Passed(IF document.type = "pdf" THEN "page_count" ELSE "archive")>>
         \/ /\ ~Acceptable(document)
            /\ \E check : \/ found = <<Refused(check)>>
                          \/ found = <<Passed("structure"), Refused(check)>>
                          \/ found = <<Passed("structure"), Passed("encryption"), Refused(check)>>
<1>1. /\ document.size \in Nat /\ document.extent \in Nat
      /\ document.form \in Forms(document.type)
      /\ {MaxBytes, MaxPages, MaxRatio} \subseteq Nat
  BY DocumentsAssumption, LimitsAssumption
<1>2. CASE document.form = "unreadable"
  BY <1>1, <1>2 DEF Pdf, Archive, Acceptable, Readable
<1>3. CASE document.form = "encrypted"
  BY <1>1, <1>3 DEF Pdf, Archive, Acceptable
<1>4. CASE document.form = "unreadable pages"
  BY <1>1, <1>4 DEF Pdf, Archive, Acceptable, Readable, Forms
<1>5. CASE document.form = "plain" /\ document.type = "pdf"
  <2>1. found = <<Passed("structure"), Passed("encryption"),
                  IF document.extent < 1 THEN Refused("structure")
                  ELSE Verdict("page_count", document.extent <= MaxPages)>>
    BY <1>5 DEF Pdf
  <2>2. Acceptable(document) <=> document.extent > 0 /\ document.extent <= MaxPages
    BY <1>5 DEF Acceptable, Readable, Bounded
  <2>3. document.extent < 1 <=> ~(document.extent > 0)
    BY <1>1
  <2> QED
    <3>1. CASE document.extent <= MaxPages
      <4>1. Verdict("page_count", document.extent <= MaxPages) = Passed("page_count")
        BY <3>1 DEF Verdict
      <4> QED
        BY <1>5, <2>1, <2>2, <2>3, <3>1, <4>1
    <3>2. CASE ~(document.extent <= MaxPages)
      <4>1. Verdict("page_count", document.extent <= MaxPages) = Refused("page_count")
        BY <3>2 DEF Verdict
      <4> QED
        BY <1>5, <2>1, <2>2, <2>3, <3>2, <4>1
    <3> QED
      BY <3>1, <3>2
<1>6. CASE document.form = "plain" /\ document.type # "pdf"
  <2> DEFINE itsSize == IF SizeRead(document) < 1 THEN 1 ELSE SizeRead(document)
  <2>1. found = <<Passed("structure"), Passed("encryption"),
                  Verdict("archive", document.extent <= MaxRatio * itsSize)>>
    BY <1>6 DEF Archive
  <2>2. Max({document.size, 1}) = IF document.size < 1 THEN 1 ELSE document.size
    <3>1. PICK size \in Nat : size = document.size
      BY <1>1
    <3>2. Max({size, 1}) = IF size < 1 THEN 1 ELSE size
      BY Larger
    <3> QED
      BY <3>1, <3>2
  <2>3. itsSize = Max({document.size, 1})
    BY <1>1, <2>2 DEF Fits, SizeRead
  <2> HIDE DEF itsSize
  <2>4. Acceptable(document) <=> document.extent <= MaxRatio * itsSize
    BY <1>6, <2>3 DEF Acceptable, Readable, Bounded
  <2> QED
    <3>1. CASE document.extent <= MaxRatio * itsSize
      <4>1. Verdict("archive", document.extent <= MaxRatio * itsSize) = Passed("archive")
        BY <3>1 DEF Verdict
      <4> QED
        BY <1>6, <2>1, <2>4, <3>1, <4>1
    <3>2. CASE ~(document.extent <= MaxRatio * itsSize)
      <4>1. Verdict("archive", document.extent <= MaxRatio * itsSize) = Refused("archive")
        BY <3>2 DEF Verdict
      <4> QED
        BY <1>6, <2>1, <2>4, <3>2, <4>1
    <3> QED
      BY <3>1, <3>2
<1> QED
  BY <1>1, <1>2, <1>3, <1>4, <1>5, <1>6 DEF Forms

LEMMA EvidenceIs ==
  ASSUME NEW document, NEW last,
         last = IF document.type = "pdf" THEN "page_count" ELSE "archive"
  PROVE  Evidence(document) = <<Passed("size"), Passed("media_type"), Passed("structure"),
                                Passed("encryption"), Passed(last)>>
<1>1. Evidence(document) =
        [i \in 1..5 |-> Passed(<<"size", "media_type", "structure", "encryption", last>>[i])]
  BY DEF Evidence
<1>2. \A i \in 1..5 :
        Passed(<<"size", "media_type", "structure", "encryption", last>>[i])
          = <<Passed("size"), Passed("media_type"), Passed("structure"),
              Passed("encryption"), Passed(last)>>[i]
  OBVIOUS
<1> QED
  BY <1>1, <1>2

\* What a document is answered: the whole evidence if it is acceptable, and
\* otherwise what passed and then the one refusal; and nothing is decoded of a
\* document over the ceiling or of a type not taken.
LEMMA ScreenedIs ==
  ASSUME NEW document \in Documents
  PROVE  /\ Acceptable(document) => Screened(document) = Evidence(document)
         /\ ~Acceptable(document) => EndsRefused(Screened(document))
         /\ Decoded(Screened(document)) => Fits(document) /\ Taken(document)
<1> DEFINE found == IF document.type = "pdf" THEN Pdf(document) ELSE Archive(document)
<1>1. /\ document.size \in Nat /\ MaxBytes \in Nat
  BY DocumentsAssumption, LimitsAssumption
<1>2. CASE document.type \notin {"pdf", "zip"}
  <2>1. StepsFor(document) = <<>>
    BY <1>2 DEF StepsFor
  <2>2. Screened(document) = <<Refused("media_type")>>
    BY <2>1 DEF Screened
  <2>3. ~Acceptable(document)
    BY <1>2 DEF Acceptable, Taken
  <2> QED
    BY <2>2, <2>3, Ends, NotDecoded
<1>3. CASE document.type \in {"pdf", "zip"}
  <2>1. StepsFor(document) = <<Size(document), MediaType(document), found>>
    BY <1>3 DEF StepsFor
  <2> HIDE DEF found
  <2>2. Screened(document) = Then(Then(Size(document), MediaType(document)), found)
    BY <2>1 DEF Screened
  <2>3. CASE ~Fits(document)
    <3>1. Size(document) = <<Refused("size")>>
      BY <1>1, <2>3 DEF Size, SizeRead, Fits, Verdict
    <3>2. Screened(document) = <<Refused("size")>>
      BY <2>2, <3>1, PassedTuples DEF Then
    <3>3. ~Acceptable(document)
      BY <2>3 DEF Acceptable
    <3> QED
      BY <3>2, <3>3, Ends, NotDecoded
  <2>4. CASE Fits(document) /\ ~Taken(document)
    <3>1. Size(document) = <<Passed("size")>> /\ MediaType(document) = <<Refused("media_type")>>
      BY <1>1, <1>3, <2>4 DEF Size, SizeRead, Fits, MediaType, Taken, Verdict
    <3>2. Then(Size(document), MediaType(document)) = <<Passed("size"), Refused("media_type")>>
      BY <3>1, PassedTuples, OneAndOne DEF Then
    <3>3. Screened(document) = <<Passed("size"), Refused("media_type")>>
      BY <2>2, <3>2, PassedTuples DEF Then
    <3>4. ~Acceptable(document)
      BY <2>4 DEF Acceptable
    <3>5. EndsRefused(Screened(document))
      BY <3>3, Ends
    <3> QED
      BY <3>3, <3>4, <3>5, NotDecoded
  <2>5. CASE Fits(document) /\ Taken(document)
    <3>1. Size(document) = <<Passed("size")>> /\ MediaType(document) = <<Passed("media_type")>>
      BY <1>1, <2>5 DEF Size, SizeRead, Fits, MediaType, Taken, Verdict
    <3>2. Then(Size(document), MediaType(document)) = <<Passed("size"), Passed("media_type")>>
      BY <3>1, PassedTuples, OneAndOne DEF Then
    <3>3. Screened(document) = <<Passed("size"), Passed("media_type")>> \o found
      BY <2>2, <3>2, PassedTuples DEF Then
    <3>4. CASE Acceptable(document)
      <4> DEFINE last == IF document.type = "pdf" THEN "page_count" ELSE "archive"
      <4>1. found = <<Passed("structure"), Passed("encryption"), Passed(last)>>
        BY <2>5, <3>4, LastStep DEF found
      <4> HIDE DEF last
      <4>2. Screened(document) = <<Passed("size"), Passed("media_type"), Passed("structure"),
                                   Passed("encryption"), Passed(last)>>
        <5>1. <<Passed("size"), Passed("media_type")>>
                \o <<Passed("structure"), Passed("encryption"), Passed(last)>>
              = <<Passed("size"), Passed("media_type"), Passed("structure"),
                  Passed("encryption"), Passed(last)>>
          BY TwoAndOne, TwoAndTwo, TwoAndThree
        <5> QED
          BY <3>3, <4>1, <5>1
      <4> QED
        BY <2>5, <3>4, <4>2, EvidenceIs DEF last
    <3>5. CASE ~Acceptable(document)
      <4>1. PICK check : \/ found = <<Refused(check)>>
                         \/ found = <<Passed("structure"), Refused(check)>>
                         \/ found = <<Passed("structure"), Passed("encryption"), Refused(check)>>
        BY <2>5, <3>5, LastStep DEF found
      <4>2. \/ Screened(document) = <<Passed("size"), Passed("media_type"), Refused(check)>>
            \/ Screened(document) = <<Passed("size"), Passed("media_type"),
                                      Passed("structure"), Refused(check)>>
            \/ Screened(document) = <<Passed("size"), Passed("media_type"),
                                      Passed("structure"), Passed("encryption"), Refused(check)>>
        <5>1. <<Passed("size"), Passed("media_type")>> \o <<Refused(check)>>
              = <<Passed("size"), Passed("media_type"), Refused(check)>>
          BY TwoAndOne, TwoAndTwo, TwoAndThree
        <5>2. <<Passed("size"), Passed("media_type")>> \o <<Passed("structure"), Refused(check)>>
              = <<Passed("size"), Passed("media_type"), Passed("structure"), Refused(check)>>
          BY TwoAndOne, TwoAndTwo, TwoAndThree
        <5>3. <<Passed("size"), Passed("media_type")>>
                \o <<Passed("structure"), Passed("encryption"), Refused(check)>>
              = <<Passed("size"), Passed("media_type"), Passed("structure"),
                  Passed("encryption"), Refused(check)>>
          BY TwoAndOne, TwoAndTwo, TwoAndThree
        <5> QED
          BY <3>3, <4>1, <5>1, <5>2, <5>3
      <4>3. EndsRefused(Screened(document))
        BY <4>2, Ends
      <4> QED
        BY <2>5, <3>5, <4>3
    <3> QED
      BY <3>4, <3>5
  <2> QED
    BY <2>3, <2>4, <2>5
<1> QED
  BY <1>2, <1>3

\* A document's evidence is all passed exactly if the document is acceptable.
LEMMA PassedIfAcceptable ==
  ASSUME NEW document \in Documents
  PROVE  AllPassed(Screened(document)) <=> Acceptable(document)
<1>1. CASE Acceptable(document)
  <2>1. Screened(document) = Evidence(document)
    BY <1>1, ScreenedIs
  <2> QED
    BY <1>1, <2>1, EvidenceIs, PassedIs DEF AllPassed
<1>2. CASE ~Acceptable(document)
  BY <1>2, ScreenedIs DEF AllPassed, EndsRefused
<1> QED
  BY <1>1, <1>2

-----------------------------------------------------------------------------

LEMMA LeastNatural ==
  ASSUME NEW T, T \subseteq Nat, T # {}
  PROVE  \E m \in T : \A k \in T : m <= k
<1> DEFINE R == OpToRel(<, Nat)
<1>1. IsWellFoundedOn(R, Nat)
  BY NatLessThanWellFounded
<1> HIDE DEF R
<1>2. PICK m \in T : \A k \in T : ~ (<<k, m>> \in R)
  BY <1>1, WFMin
<1>3. \A k \in T : ~ (k < m)
  BY <1>2 DEF R, OpToRel
<1> QED
  BY <1>3

LEMMA Smallest ==
  ASSUME NEW T, T \subseteq Nat, T # {}
  PROVE  Min(T) \in T /\ \A k \in T : Min(T) <= k
<1>1. \E m \in T : \A k \in T : m <= k
  BY LeastNatural
<1> QED
  BY <1>1 DEF Min

LEMMA OnlyRefusal ==
  ASSUME NEW found, EndsRefused(found)
  PROVE  LET j == Min({k \in 1..Len(found) : ~found[k].passed})
         IN  Last(found) = Refused(found[j].check)
<1>1. PICK n \in Nat \ {0} : /\ Len(found) = n
                             /\ \A k \in 1..n - 1 : found[k].passed
                             /\ ~found[n].passed /\ found[n] = Refused(found[n].check)
  BY DEF EndsRefused
<1> DEFINE T == {k \in 1..Len(found) : ~found[k].passed}
<1>2. \A k \in T : k = n
  <2>1. \A k \in 1..Len(found) : k = n \/ k \in 1..n - 1
    BY <1>1
  <2> QED
    BY <1>1, <2>1, Zenon
<1>3. n \in 1..Len(found)
  BY <1>1
<1>4. n \in T
  BY <1>1, <1>3, Zenon
<1>5. T \subseteq Nat /\ T # {}
  BY <1>4
<1> HIDE DEF T
<1>6. Min(T) = n
  BY <1>2, <1>5, Smallest
<1> QED
  BY <1>1, <1>6 DEF Last, T

\* What the evidence of all the documents says of the submission.
LEMMA ScreenIs ==
  ASSUME NEW documents \in Seq(Documents)
  PROVE  LET found == Screen(documents)
         IN  /\ Len(found) = Len(documents)
             /\ RefusedAt(found) = {i \in 1..Len(documents) : ~Acceptable(documents[i])}
             /\ \A i \in 1..Len(documents) : found[i] = Screened(documents[i])
             /\ RefusedAt(found) # {} =>
                  LET first == FirstRefusal(found)
                  IN  /\ first[1] \in 1..Len(documents)
                      /\ \A i \in 1..first[1] - 1 : Acceptable(documents[i])
                      /\ ~Acceptable(documents[first[1]])
                      /\ Last(found[first[1]]) = Refused(first[2])
<1> DEFINE found == Screen(documents)
<1>1. /\ Len(documents) \in Nat /\ Len(found) = Len(documents)
      /\ \A i \in 1..Len(documents) : documents[i] \in Documents /\ found[i] = Screened(documents[i])
  BY DEF Screen
<1>2. RefusedAt(found) = {i \in 1..Len(documents) : ~Acceptable(documents[i])}
  <2>1. \A i \in 1..Len(documents) : AllPassed(found[i]) <=> Acceptable(documents[i])
    BY <1>1, PassedIfAcceptable
  <2> HIDE DEF found
  <2> QED
    BY <1>1, <2>1, Zenon DEF RefusedAt
<1> HIDE DEF found
<1>3. ASSUME RefusedAt(found) # {}
      PROVE  LET first == FirstRefusal(found)
             IN  /\ first[1] \in 1..Len(documents)
                 /\ \A i \in 1..first[1] - 1 : Acceptable(documents[i])
                 /\ ~Acceptable(documents[first[1]])
                 /\ Last(found[first[1]]) = Refused(first[2])
  <2> DEFINE i == Min(RefusedAt(found))
             j == Min({k \in 1..Len(found[i]) : ~found[i][k].passed})
  <2>1. FirstRefusal(found) = <<i, found[i][j].check>>
    BY DEF FirstRefusal
  <2>2. RefusedAt(found) \subseteq Nat
    BY <1>1, <1>2
  <2>3. i \in RefusedAt(found) /\ \A k \in RefusedAt(found) : i <= k
    BY <1>3, <2>2, Smallest
  <2>4. i \in 1..Len(documents) /\ ~Acceptable(documents[i])
    BY <1>2, <2>3
  <2>5. EndsRefused(found[i])
    BY <1>1, <2>4, ScreenedIs
  <2>6. Last(found[i]) = Refused(found[i][j].check)
    BY <2>5, OnlyRefusal
  <2>7. \A k \in 1..i - 1 : Acceptable(documents[k])
    <3>1. \A k \in 1..i - 1 : k \in 1..Len(documents) /\ k \notin RefusedAt(found)
      BY <1>1, <2>3, <2>4
    <3> QED
      BY <1>2, <3>1
  <2> HIDE DEF i, j
  <2> QED
    BY <2>1, <2>4, <2>6, <2>7
<1> QED
  BY <1>1, <1>2, <1>3 DEF found

-----------------------------------------------------------------------------

\* Nothing about the request itself is over a limit.
WithinLimits == submission.withinBurst /\ submission.declared <= MaxSubmission

\* Answered before a document was looked at.
TurnedAway ==
  /\ verdicts = <<>>
  /\ ~(WithinLimits /\ submission.claim = "valid")
  /\ answer.status # 201
  /\ answer.document = 0
  /\ answer.check \in {"rate_limit", "size"} => ~bodyRead

\* Answered by what the documents were found to be.
Screening ==
  /\ WithinLimits /\ submission.claim = "valid"
  /\ verdicts = Screen(submission.documents)
  /\ IF RefusedAt(verdicts) = {}
     THEN answer.status = 201
     ELSE /\ answer.status # 201
          /\ answer.check = FirstRefusal(verdicts)[2]
          /\ answer.document = FirstRefusal(verdicts)[1]

IntakeInv ==
  /\ submission \in Submissions
  /\ pc \in {"arrived", "admitted", "parsed", "answered"}
  /\ pc \in {"arrived", "admitted"} => ~bodyRead
  /\ pc # "answered" => verdicts = <<>>
  /\ pc \in {"admitted", "parsed"} => WithinLimits
  /\ pc = "parsed" => submission.claim = "valid"
  /\ pc = "answered" => TurnedAway \/ Screening

LEMMA RefusedWith ==
  ASSUME NEW check
  PROVE  Status(check) # 201
  BY DEF Status

LEMMA DeclaredIs ==
  ASSUME NEW length \in Declared
  PROVE  DeclaredSize(length).passed <=> length <= MaxSubmission
<1>1. MaxSubmission \in Nat
  BY LimitsAssumption
<1>2. (length = Undeclared \/ length <= MaxSubmission) <=> length <= MaxSubmission
  BY <1>1 DEF Declared, Undeclared
<1> QED
  BY <1>2, PassedIs DEF DeclaredSize, Verdict

LEMMA ScreenedSubmission ==
  ASSUME submission \in Submissions
  PROVE  /\ submission.declared \in Declared
         /\ submission.documents \in Seq(Documents)
         /\ submission.claim \in {"valid", "invalid"}
<1>1. submission.documents \in SeqOf(Documents, MaxDocuments)
  BY DEF Submissions
<1>2. MaxDocuments \in Nat
  BY LimitsAssumption
<1>3. PICK n \in 0..MaxDocuments : submission.documents \in [1..n -> Documents]
  BY <1>1 DEF SeqOf
<1>4. n \in Nat
  BY <1>2
<1>5. submission.documents \in Seq(Documents)
  BY <1>3, <1>4, SeqDef
<1> QED
  BY <1>5 DEF Submissions

\* The invariant holds at the start and through every step.
THEOREM IntakeInductive == IntakeSpec => []IntakeInv
<1>1. IntakeInit => IntakeInv
  BY DEF IntakeInit, IntakeInv
<1>2. ASSUME IntakeInv, [IntakeNext]_intakeVars
      PROVE  IntakeInv'
  <2>1. CASE ScreenSubmission
    <3>1. /\ submission' = submission /\ verdicts' = verdicts /\ bodyRead' = bodyRead
          /\ pc = "arrived"
      BY <2>1 DEF ScreenSubmission
    <3>2. /\ verdicts' = <<>> /\ ~bodyRead' /\ submission' \in Submissions
      BY <1>2, <3>1, Zenon DEF IntakeInv
    <3>3. CASE ~submission.withinBurst
      <4>1. /\ pc' = "answered"
            /\ answer' = [status |-> Status("rate_limit"), check |-> "rate_limit", document |-> 0]
        BY <2>1, <3>3, Zenon DEF ScreenSubmission, Refuse
      <4>2. /\ answer'.status # 201 /\ answer'.document = 0
        BY <4>1, RefusedWith
      <4>3. TurnedAway'
        BY <3>1, <3>2, <3>3, <4>2, Zenon DEF TurnedAway, WithinLimits
      <4> QED
        BY <3>2, <4>1, <4>3 DEF IntakeInv
    <3>4. CASE submission.withinBurst /\ ~DeclaredSize(submission.declared).passed
      <4>1. /\ pc' = "answered"
            /\ answer' = [status |-> Status("size"), check |-> "size", document |-> 0]
        BY <2>1, <3>4, Zenon DEF ScreenSubmission, Refuse
      <4>2. /\ answer'.status # 201 /\ answer'.document = 0
        BY <4>1, RefusedWith
      <4>3. ~(submission.declared <= MaxSubmission)
        <5>1. PICK length \in Declared : length = submission.declared
          BY <1>2, ScreenedSubmission DEF IntakeInv
        <5>2. DeclaredSize(length).passed <=> length <= MaxSubmission
          BY DeclaredIs
        <5> QED
          BY <3>4, <5>1, <5>2, Zenon
      <4>4. TurnedAway'
        BY <3>1, <3>2, <4>2, <4>3, Zenon DEF TurnedAway, WithinLimits
      <4> QED
        BY <3>2, <4>1, <4>4 DEF IntakeInv
    <3>5. CASE submission.withinBurst /\ DeclaredSize(submission.declared).passed
      <4>1. pc' = "admitted"
        BY <2>1, <3>5, Zenon DEF ScreenSubmission
      <4>2. submission.declared <= MaxSubmission
        <5>1. PICK length \in Declared : length = submission.declared
          BY <1>2, ScreenedSubmission DEF IntakeInv
        <5>2. DeclaredSize(length).passed <=> length <= MaxSubmission
          BY DeclaredIs
        <5> QED
          BY <3>5, <5>1, <5>2, Zenon
      <4>3. WithinLimits'
        BY <3>1, <3>5, <4>2, Zenon DEF WithinLimits
      <4> QED
        BY <3>2, <4>1, <4>3 DEF IntakeInv
    <3> QED
      BY <3>3, <3>4, <3>5
  <2>2. CASE TakeClaim
    <3>1. submission' = submission /\ verdicts' = verdicts /\ pc = "admitted"
      BY <2>2 DEF TakeClaim
    <3>2. /\ verdicts' = <<>> /\ submission' \in Submissions /\ WithinLimits
      BY <1>2, <3>1, Zenon DEF IntakeInv
    <3>3. WithinLimits'
      BY <3>1, <3>2 DEF WithinLimits
    <3>4. CASE submission.claim = "invalid"
      <4>1. /\ pc' = "answered"
            /\ answer' = [status |-> 422, check |-> "claim", document |-> 0]
        BY <2>2, <3>4 DEF TakeClaim
      <4>2. answer'.status # 201 /\ answer'.document = 0 /\ answer'.check = "claim"
        BY <4>1
      <4>3. TurnedAway'
        BY <3>1, <3>2, <3>4, <4>2 DEF TurnedAway
      <4> QED
        BY <3>2, <4>1, <4>3 DEF IntakeInv
    <3>5. CASE submission.claim # "invalid"
      <4>1. pc' = "parsed"
        BY <2>2, <3>5 DEF TakeClaim
      <4>2. submission'.claim = "valid"
        BY <1>2, <3>1, <3>5, ScreenedSubmission DEF IntakeInv
      <4> QED
        BY <3>2, <3>3, <4>1, <4>2 DEF IntakeInv
    <3> QED
      BY <3>4, <3>5
  <2>3. CASE ScreenDocuments
    <3>1. /\ submission' = submission /\ pc = "parsed"
          /\ verdicts' = Screen(submission.documents)
      BY <2>3 DEF ScreenDocuments
    <3>2. WithinLimits' /\ submission'.claim = "valid" /\ submission' \in Submissions
      BY <1>2, <3>1 DEF IntakeInv, WithinLimits
    <3>3. CASE RefusedAt(verdicts') # {}
      <4> DEFINE first == FirstRefusal(verdicts')
      <4>1. /\ pc' = "answered"
            /\ answer' = [status |-> Status(first[2]), check |-> first[2], document |-> first[1]]
        BY <2>3, <3>3, Zenon DEF ScreenDocuments, Refuse
      <4> HIDE DEF first
      <4>2. answer'.status # 201 /\ answer'.check = first[2] /\ answer'.document = first[1]
        BY <4>1, RefusedWith
      <4>3. Screening'
        BY <3>1, <3>2, <3>3, <4>2 DEF Screening, first
      <4> QED
        BY <3>2, <4>1, <4>3 DEF IntakeInv
    <3>4. CASE RefusedAt(verdicts') = {}
      <4>1. pc' = "answered" /\ answer'.status = 201
        BY <2>3, <3>4 DEF ScreenDocuments
      <4>2. Screening'
        BY <3>1, <3>2, <3>4, <4>1 DEF Screening
      <4> QED
        BY <3>2, <4>1, <4>2 DEF IntakeInv
    <3> QED
      BY <3>3, <3>4
  <2>4. CASE UNCHANGED intakeVars
    BY <1>2, <2>4 DEF IntakeInv, intakeVars, TurnedAway, Screening, WithinLimits
  <2> QED
    BY <1>2, <2>1, <2>2, <2>3, <2>4 DEF IntakeNext
<1> QED
  BY <1>1, <1>2, PTL DEF IntakeSpec

\* What is answered, for any documents and any limits.
LEMMA AnsweredRightly ==
  ASSUME IntakeInv
  PROVE  LetInExactlyTheAcceptable /\ DecodedOnlyIfTaken /\ RefusalNamesTheFault
<1>1. PICK documents \in Seq(Documents) : documents = submission.documents
  BY ScreenedSubmission DEF IntakeInv
<1>2. CASE pc # "answered"
  BY <1>2 DEF IntakeInv, LetInExactlyTheAcceptable, DecodedOnlyIfTaken, RefusalNamesTheFault
<1>3. CASE pc = "answered" /\ TurnedAway
  <2>1. ~LetIn /\ answer.document = 0 /\ verdicts = <<>>
    BY <1>3 DEF TurnedAway, LetIn
  <2>2. LetInExactlyTheAcceptable
    BY <1>3, <2>1 DEF TurnedAway, WithinLimits, LetInExactlyTheAcceptable
  <2>3. DecodedOnlyIfTaken
    BY <2>1 DEF DecodedOnlyIfTaken
  <2>4. RefusalNamesTheFault
    BY <1>3, <2>1 DEF TurnedAway, RefusalNamesTheFault
  <2> QED
    BY <2>2, <2>3, <2>4
<1>4. CASE pc = "answered" /\ Screening
  <2> DEFINE found == Screen(documents)
             first == FirstRefusal(found)
  <2>1. verdicts = found /\ WithinLimits /\ submission.claim = "valid"
    BY <1>1, <1>4 DEF Screening
  <2>2. IF RefusedAt(found) = {} THEN LetIn
        ELSE ~LetIn /\ answer.check = first[2] /\ answer.document = first[1]
    BY <1>1, <1>4 DEF Screening, LetIn
  <2>3. /\ Len(found) = Len(documents) /\ Len(documents) \in Nat
        /\ RefusedAt(found) = {i \in 1..Len(documents) : ~Acceptable(documents[i])}
        /\ \A i \in 1..Len(documents) : found[i] = Screened(documents[i]) /\ documents[i] \in Documents
        /\ RefusedAt(found) # {} =>
             /\ first[1] \in 1..Len(documents)
             /\ \A i \in 1..first[1] - 1 : Acceptable(documents[i])
             /\ ~Acceptable(documents[first[1]])
             /\ Last(found[first[1]]) = Refused(first[2])
    BY ScreenIs
  <2>4. found = [i \in 1..Len(documents) |-> Screened(documents[i])]
    BY DEF Screen
  <2> HIDE DEF found, first
  <2>5. DecodedOnlyIfTaken
    BY <1>1, <2>1, <2>3, ScreenedIs DEF DecodedOnlyIfTaken
  <2>6. CASE RefusedAt(found) = {}
    <3>1. LetIn /\ \A i \in 1..Len(documents) : Acceptable(documents[i])
      BY <2>2, <2>3, <2>6
    <3>2. \A i \in 1..Len(documents) : Screened(documents[i]) = Evidence(documents[i])
      BY <2>3, <3>1, ScreenedIs
    <3>3. verdicts = [i \in 1..Len(documents) |-> Evidence(documents[i])]
      BY <2>1, <2>4, <3>2
    <3>4. LetInExactlyTheAcceptable
      BY <1>1, <1>4, <2>1, <3>1, <3>3 DEF LetInExactlyTheAcceptable, WithinLimits
    <3> QED
      BY <2>5, <3>1, <3>4 DEF RefusalNamesTheFault
  <2>7. CASE RefusedAt(found) # {}
    <3>1. ~LetIn /\ answer.check = first[2] /\ answer.document = first[1]
      BY <2>2, <2>7
    <3>2. LetInExactlyTheAcceptable
      BY <1>1, <2>3, <2>7, <3>1 DEF LetInExactlyTheAcceptable
    <3>3. first[1] # 0
      BY <2>3, <2>7
    <3>4. RefusalNamesTheFault
      BY <1>1, <2>1, <2>3, <2>7, <3>1, <3>3 DEF RefusalNamesTheFault
    <3> QED
      BY <2>5, <3>2, <3>4
  <2> QED
    BY <2>6, <2>7
<1> QED
  BY <1>2, <1>3, <1>4 DEF IntakeInv

\* A submission becomes a run exactly if nothing about it is over a limit, with the
\* evidence of every check for every document.
THEOREM LetsInTheAcceptable == IntakeSpec => []LetInExactlyTheAcceptable
  BY IntakeInductive, AnsweredRightly, PTL

\* No decoder is given a document over the ceiling, or of a type that is not taken.
THEOREM DecodesOnlyTheTaken == IntakeSpec => []DecodedOnlyIfTaken
  BY IntakeInductive, AnsweredRightly, PTL

\* A refusal names the first document at fault and the check that refused it, and the
\* middleware's refusals have not read the body.
THEOREM NamesTheFault == IntakeSpec => []RefusalNamesTheFault
  BY IntakeInductive, AnsweredRightly, PTL
=============================================================================
