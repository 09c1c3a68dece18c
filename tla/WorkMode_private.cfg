SPECIFICATION FairSpec
CONSTANTS
  Msgs = {a1, u1}
  Addressed = {a1}
  Private = TRUE
  MaxRounds = 1
  MaxCrashes = 1
PROPERTY StashIsResolved
CHECK_DEADLOCK FALSE
