SPECIFICATION FairSpec
CONSTANTS
  w1 = w1  w2 = w2  g1 = g1  g2 = g2
  human = human  peer = peer  job = job  job2 = job2
  NoWorker = NoWorker  NoEvent = NoEvent
  Workers = {w1, w2}
  Groups = {g1}
  Inbound = {}
  Stable = {job, job2}
  Peer = {}
  GroupOf <- OrphansGroupOf
  Mentions <- NoMentions
  Names <- NoMentions
  MaxPeerTurns = 1
  MaxLease = 2

INVARIANTS LeaseAgreesWithRow
PROPERTIES OrphanFreed ImplementsLedger SettledForGood InFlightNeverForgotten
