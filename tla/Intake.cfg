SPECIFICATION IntakeSpec
CONSTANTS
  Documents <- MCDocuments
  MediaTypes = {"pdf", "zip", "tiff"}
  MaxDocuments = 2
  MaxSubmission = 8
  MaxBytes = 2
  MaxPages = 2
  MaxRatio = 2
INVARIANTS
  LetInExactlyTheAcceptable
  DecodedOnlyIfTaken
  RefusalNamesTheFault
CHECK_DEADLOCK FALSE
