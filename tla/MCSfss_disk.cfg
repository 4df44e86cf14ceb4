SPECIFICATION SfssSpec
CONSTANTS
  N = 2
  Names = {"log_doc"}
  MyPath = "mypath"
  MaxOffset = 1
  MAX_DIR_ENTRIES = 2
  MaxCalls = 3
  MaxRuns = 2
INVARIANTS
  SfssTypeOK
  AnswerStillHolds
  AcknowledgedBlocksSurvive
  ListingFits
PROPERTIES
  PrivateIsolation
CHECK_DEADLOCK FALSE
