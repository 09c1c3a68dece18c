SPECIFICATION FairSpec
CONSTANTS
  Items = {i1}
  MaxRetries = 2
  MaxMessages = 2
  MaxParts = 2
  NoReply = NoReply
  Chat = chat
  Rival = rival
  NoItem = NoItem
  MaxBus = 2
  MaxCrashes = 2
  MaxRivals = 1
  MaxEarly = 2
INVARIANTS PartsOnceInOrder EffectsAreFenced ConfirmedIsGone
PROPERTIES NoReplay SentIsWhole GivenUpForGood EveryItemEnds
