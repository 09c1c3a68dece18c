SPECIFICATION Spec
CONSTANTS
  w1 = w1  w2 = w2  g1 = g1  g2 = g2
  human = human  peer = peer  job = job  job2 = job2
  NoWorker = NoWorker  NoEvent = NoEvent
  Workers = {w1, w2}
  Groups = {g1}
  Inbound = {human, peer}
  Stable = {}
  Peer = {peer}
  GroupOf <- TalkGroupOf
  Mentions <- TalkMentions
  Names <- TalkNames
  MaxPeerTurns = 1
  MaxLease = 2
INVARIANT OneTurnPerGroup
PROPERTY OneAnswerPerMessage
