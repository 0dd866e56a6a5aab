----------------------------- MODULE RateLimit ------------------------------
(***************************************************************************)
(* The rate limit in front of POST /claims (guards/rate_limit.py, asked by *)
(* the middleware in api/surface.py): one token bucket for each caller,    *)
(* over a table that drops the caller seen least recently.                 *)
(*                                                                         *)
(* The middleware runs on the event loop and take never awaits, so a take  *)
(* is one step.  Tokens are exact here, in units of which Token make one;  *)
(* the code's are floats.                                                  *)
(***************************************************************************)
EXTENDS Integers, SequencesExt

CONSTANTS Callers,   \* the addresses requests arrive from
          Burst,     \* tokens in a full bucket
          Token,     \* units one token is made of
          Refill,    \* units one tick of the clock returns
          Second,    \* ticks in a second
          Table,     \* callers counted at once (DEFAULT_KEYS)
          EndOfTime  \* bound on the clock

ASSUME LimitAssumption ==
  {Burst, Token, Refill, Second, Table, EndOfTime} \subseteq Nat \ {0}

VARIABLES now,       \* the clock
          buckets,   \* the table, least recently seen caller first
          admitted,  \* history: when each caller was admitted from the bucket it has
          retryAt,   \* history: when a refused caller was told to come back
          seen       \* history: when each caller was last seen

vars == <<now, buckets, admitted, retryAt, seen>>

Full == Burst * Token

Init ==
  /\ now = 0
  /\ buckets = <<>>
  /\ admitted = [c \in Callers |-> <<>>]
  /\ retryAt = [c \in Callers |-> 0]
  /\ seen = [c \in Callers |-> 0]

Counted == {buckets[i].caller : i \in 1..Len(buckets)}

\* Where a caller's bucket is, and the table without it.
PlaceOf(c) == CHOOSE i \in 1..Len(buckets) : buckets[i].caller = c
BucketOf(c) == buckets[PlaceOf(c)]
Others(c) == RemoveAt(buckets, PlaceOf(c))

LesserOf(x, y) == IF x < y THEN x ELSE y
GreaterOf(x, y) == IF x > y THEN x ELSE y

\* The tokens once the time since the bucket was last looked at is made good.
\* Mutant: past the burst as well.
RefilledWithoutCeiling(bucket) == bucket.tokens + (now - bucket.filledAt) * Refill

Refilled(bucket) ==
  LesserOf(Full, bucket.tokens + GreaterOf(now - bucket.filledAt, 0) * Refill)

\* Limiters.take: this caller's bucket, most recently seen, and the table cut to
\* its size.  Mutant: a table that drops the newest.
LookedUpDroppingNewest(c) ==
  IF c \in Counted
  THEN Append(Others(c), BucketOf(c))
  ELSE Append(SubSeq(buckets, 1, LesserOf(Len(buckets), Table - 1)),
              [caller |-> c, tokens |-> Full, filledAt |-> now])

LookedUp(c) ==
  IF c \in Counted
  THEN Append(Others(c), BucketOf(c))
  ELSE LET all == Append(buckets, [caller |-> c, tokens |-> Full, filledAt |-> now])
       IN  SubSeq(all, GreaterOf(1, Len(all) - Table + 1), Len(all))

\* The wait the refusal names, and the whole seconds, at least one, that
\* Retry-After says.  Mutant: the seconds are rounded down.
WaitRoundedDown(tokens) == GreaterOf((Token - tokens) \div (Refill * Second), 1) * Second

Wait(tokens) ==
  LET ticks == Refill * Second
  IN  GreaterOf((Token - tokens + ticks - 1) \div ticks, 1) * Second

\* What was admitted from buckets that are still there.
StillCounted(table, history) ==
  [c \in Callers |-> IF \E i \in 1..Len(table) : table[i].caller = c THEN history[c] ELSE <<>>]

\* Bucket.take: spend a token, or say how long until there is one.
Take(c) ==
  LET table    == LookedUp(c)
      tokens   == Refilled(Last(table))
      passed   == tokens >= Token
      left     == IF passed THEN tokens - Token ELSE tokens
  IN  /\ buckets' = Append(Front(table), [caller |-> c, tokens |-> left, filledAt |-> now])
      /\ admitted' = StillCounted(table,
           [admitted EXCEPT ![c] = (IF c \in Counted THEN @ ELSE <<>>)
                                     \o (IF passed THEN <<now>> ELSE <<>>)])
      /\ retryAt' = [retryAt EXCEPT ![c] = IF passed THEN 0 ELSE now + Wait(tokens)]
      /\ seen' = [seen EXCEPT ![c] = now]
      /\ UNCHANGED now

Tick ==
  /\ now < EndOfTime
  /\ now' = now + 1
  /\ UNCHANGED <<buckets, admitted, retryAt, seen>>

Next == Tick \/ \E c \in Callers : Take(c)

Spec == Init /\ [][Next]_vars

-----------------------------------------------------------------------------

\* What is bounded is the rate a caller can hold: in any stretch of time, from one
\* bucket, a caller is admitted no more than a burst and what that time refills.
\* The property is stated over the bucket the caller has: one that was dropped
\* starts on a full burst if it comes back (rate_limit.py:111-114).
SustainedRateBounded ==
  \A c \in Callers : \A i, j \in 1..Len(admitted[c]) :
    i <= j => (j - i + 1) * Token <= Full + (admitted[c][j] - admitted[c][i]) * Refill

\* A caller that comes back when Retry-After told it to is let in, whoever else
\* asked in between, and whether it asked too early itself.
RetryAfterIsKept ==
  [][\A c \in Callers :
       (Take(c) /\ retryAt[c] > 0 /\ now >= retryAt[c]) => retryAt'[c] = 0]_vars

\* The caller a full table drops was seen no later than any it keeps, so a flood
\* of new addresses drops the callers that went quiet first, and none has a second
\* bucket or makes the table grow (rate_limit.py:109-114, 134-138).
DroppedIn(c) == c \in Counted /\ c \notin Counted'

LeastRecentlySeenIsDropped ==
  [][/\ \A c, d \in Callers : DroppedIn(c) /\ d \in Counted' => seen[c] <= seen'[d]
     /\ Len(buckets') <= Table /\ Cardinality(Counted') = Len(buckets')]_vars
=============================================================================
