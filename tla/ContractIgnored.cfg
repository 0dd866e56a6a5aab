SPECIFICATION Spec
CONSTANTS
  Null = Null
  Nothing = Nothing
  Contents <- MCContents
  MaxEntries = 3
  MaxChanges = 3
  Documents <- MCDocuments
  Questions <- MCQuestions
  Claims <- MCClaims
  MostCases <- MCMostCases
  Depth = 2
  Capabilities <- MCCapabilities
  CaseIds = {"c1", "c2"}
  Strange = "c3"
  MaxCases = 2
  Asks = {"question"}
  Schemas = {"s1", "s2"}
  Answers <- MCAnswers
  Names = {1, 2}
  Fields <- MCFields
  Operations <- MCOperations
  MaxEdits = 2
INVARIANT
  NothingIsIgnored
CHECK_DEADLOCK FALSE
