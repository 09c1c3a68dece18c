SPECIFICATION BackgroundSpec
CONSTANTS
  MaxMessages = 2
  MaxUnits = 2
  MaxUpsets = 2
  MinBatch = 1
  MaxBatch = 2
  ContextSize = 1
  Facts = {f1, f2}
  MaxVersion = 2
  MaxFiles = 3
  MaxDeaths = 1
  MaxChanges = 1
  Pictures = {p1, p2}
  AutoPictures = {p1}
  MaxUses = 2
  Quota = 2
  Room = 2
  MaxTries = 2
  MaxOutages = 1
  MaxHead = 2
  DeriveJobs = {d1}
  MaxFalls = 1
INVARIANTS UnitSafety JobSafety RevisionSafety
PROPERTIES VectorsOutliveSaves UncertainStaysSo
CHECK_DEADLOCK FALSE
