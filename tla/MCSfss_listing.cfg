SPECIFICATION SfssSpec
CONSTANTS
  N = 1
  Names = {"log_doc"}
  MyPath = "mypath"
  MaxOffset = 1
  MAX_DIR_ENTRIES = 2
  MaxCalls = 1
  MaxRuns = 1
PROPERTY ListingPersists
CHECK_DEADLOCK FALSE
