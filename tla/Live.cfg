SPECIFICATION LiveSpec
CONSTANTS
  Ids = {a, b}
  MaxSize = 2
  Budget = 2
  Upkeeps = {r1, r2}
  NoRun = NoRun
  MaxPending = 2
  MaxRequests = 2
  MaxNoteRev = 3
  Adapters = {a1, a2}
  Engines = {e1, e2}
  NoEngine = NoEngine
  MaxFailures = 1
  Msgs = {m1, m2}
  PeerMsgs = {m1}
  MaxRetries = 1
  MaxTurns = 3
  MaxRebinds = 1
  Calls = {c1, c2}
  Sends = {c1, c2}
  Firm = {c1}
  NoCall = NoCall
  MaxConns = 2
  MaxRefusals = 1
  MaxStumbles = 1
INVARIANTS EngineSafety InboundSafety LinkSafety
PROPERTIES EventsMeetTheLiving ShutdownEnds SlotComesBack NothingHangs
CHECK_DEADLOCK FALSE
