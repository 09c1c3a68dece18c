SPECIFICATION Spec
CONSTANTS
  Msgs = {a1, u1, u2}
  Addressed = {a1}
  Private = FALSE
  MaxRounds = 2
  MaxCrashes = 1
SYMMETRY MsgSymmetry
INVARIANTS
  StashIsKept
  ReleasedOnce
  NothingStaysOpen
PROPERTY NamedIsShownNext
CHECK_DEADLOCK FALSE
