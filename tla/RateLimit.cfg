SPECIFICATION Spec
CONSTANTS
  Callers = {c1, c2, c3}
  Burst = 2
  Token = 3
  Refill = 2
  Second = 1
  Table = 2
  EndOfTime = 4
INVARIANTS
  SustainedRateBounded
PROPERTIES
  RetryAfterIsKept
  LeastRecentlySeenIsDropped
