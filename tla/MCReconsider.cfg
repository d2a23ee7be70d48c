SPECIFICATION FairSpec
CONSTANTS
  Thread = {t1, t2}
  Block = {g, b1, b2, c2}
  g = g
  a1 = a1
  b1 = b1
  b2 = b2
  b3 = b3
  c2 = c2
  Genesis = g
  NoBlock = NoBlock
  Parent <- MCParent
  Height <- MCHeight
  Work <- MCWork
  Verdicts <- RivalVerdicts
  Addresses <- OneAddress
  Command = {"invalidate", "reconsider"}
  MaxCommands = 2
INVARIANTS
  FailedBlocksFailed
  ActiveChainValid
PROPERTIES
  LoopsEnd
