SPECIFICATION Spec

CONSTANTS
  p1 = p1
  p2 = p2
  p3 = p3
  t1 = t1
  t2 = t2
  Peer <- MCPeer
  TxHash <- MCTxHash
  Preferred <- MCPreferred
  Announceable <- MCAnnounceable
  Priority <- MCPriority
  MaxTime = 2

INVARIANTS
  SanityCheck
  PostGetRequestableSanityCheck

PROPERTIES
  NotAskedAgain
  AnswersFromScratch
