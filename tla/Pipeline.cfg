SPECIFICATION Spec
CONSTANTS
  a1 = a1
  a2 = a2
  a3 = a3
  a4 = a4
  r1 = r1
  r2 = r2
  p1 = p1
  Unknown = Unknown
  Nothing = Nothing
  Calls <- MCCalls
  Runs <- MCRuns
  RunOf <- MCRunOf
  Policies <- MCPolicies
  PolicyOf <- MCPolicyOf
SYMMETRY MCSymmetry
INVARIANTS
  NoStatusWithoutEvidence
  OneClaimPerRun
  OkMeansDone
