SPECIFICATION Spec
CONSTANTS
  Items = {i1, i2}
  MaxRetries = 1
  MaxMessages = 2
  MaxParts = 1
  NoReply = NoReply
  Chat = chat
  Rival = rival
  NoItem = NoItem
  MaxBus = 2
  MaxCrashes = 0
  MaxRivals = 0
  MaxEarly = 1
SYMMETRY ItemSymmetry
INVARIANTS
  TakenIsServed
  MarkedIsAwaited
CHECK_DEADLOCK FALSE
