SPECIFICATION FairSpec
CONSTANTS
  a1 = a1
  a2 = a2
  a3 = a3
  a4 = a4
  r1 = r1
  r2 = r2
  r3 = r3
  NoOne = NoOne
  Attempts <- MCAttempts
  Runs <- MCRuns
  RunOf <- MCRunOf
INVARIANTS
  ChainIntact
  RunsWithEvidence
  DuplicateOnlyIfRecorded
  AnswerTruthful
PROPERTIES
  RecordsAtomically
  EveryAttemptEnds
