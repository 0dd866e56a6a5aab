SPECIFICATION PersistentSpec
CONSTANTS
  a1 = a1
  a2 = a2
  a3 = a3
  a4 = a4
  r1 = r1
  r2 = r2
  p1 = p1
  Unknown = Unknown
  Nothing = Nothing
  Calls <- MCTwins
  Runs <- MCRuns
  RunOf <- MCTwinsRunOf
  Policies <- MCPolicies
  PolicyOf <- MCTwinsPolicyOf
PROPERTY
  RetryClosesTheGap
