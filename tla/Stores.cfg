SPECIFICATION StoresSpec
CONSTANTS
  Turns = {t1, t2}
  Steps = {s1, s2}
  NoStep = NoStep
  MaxRuns = 2
  MaxTokens = 3
  MaxBadSaves = 1
  Ids = {a, b}
  MaxSize = 2
  Budget = 2
  Upkeeps = {r1, r2}
  NoRun = NoRun
  MaxPending = 2
  MaxRequests = 2
  MaxNoteRev = 4
  alice = alice  bob = bob  elf = elf
  ea = ea  eb = eb  ex = ex
  Persons = {alice}
  Actors = {alice, bob, elf}
  Fields = {name}
  Evidence = {ea, eb, ex}
  AuthorOf <- Author
  Admin = {ex}
  Controllers = {}
  MaxClaims = 3
  MaxRevision = 5
  Wishes = {w1}
  Chats = {c1, c2}
  NoChat = NoChat
  MaxAttempts = 2
  BusLimit = 2
  MaxHours = 1
SYMMETRY StoresSymmetry
INVARIANTS StepSafety NotebookSafety ClaimSafety IntentSafety
PROPERTIES OutcomesStand UpkeepServes RetiredForGood
CHECK_DEADLOCK FALSE
