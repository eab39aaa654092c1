CONSTANTS
  Prompt = TRUE
  MaxResets = 30
SPECIFICATION FairSpec
INVARIANT TypeOK
PROPERTY NoStaleViewChange
PROPERTY ExpiryActs
CHECK_DEADLOCK FALSE
