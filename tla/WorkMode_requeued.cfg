SPECIFICATION Spec
CONSTANTS
  Msgs = {a1, u1, u2}
  Addressed = {a1}
  Private = FALSE
  MaxRounds = 1
  MaxCrashes = 0
SYMMETRY MsgSymmetry
INVARIANT ShownIsNotRequeued
CHECK_DEADLOCK FALSE
