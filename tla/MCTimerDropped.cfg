CONSTANTS
  Prompt = FALSE
  MaxResets = 4
SPECIFICATION FairSpec
PROPERTY ExpiryActs
CHECK_DEADLOCK FALSE
