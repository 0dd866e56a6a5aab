SPECIFICATION FairSpec
CONSTANTS
  MaxFaults = 5
  MaxRuns = 3
CHECK_DEADLOCK FALSE
INVARIANTS
  GreenMeansCarried
  AtMostOneClaim
  ToldHowItEnded
PROPERTY
  HealthyStackGoesGreen
