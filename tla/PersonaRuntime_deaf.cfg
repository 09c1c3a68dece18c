SPECIFICATION RuntimeFairSpec
CONSTANTS
  Adapters = {a1, a2}
  Engines = {e1, e2}
  NoEngine = NoEngine
  MaxFailures = 1
PROPERTY EngineComesBack
CHECK_DEADLOCK FALSE
