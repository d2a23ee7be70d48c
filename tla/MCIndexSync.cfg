SPECIFICATION FairSpec

CONSTANTS
  g = g
  a1 = a1
  b1 = b1
  b2 = b2
  NoBlock = NoBlock
  Block <- MCBlock
  Genesis = g
  Parent <- MCParent
  Height <- MCHeight
  InitialTips <- MCInitialTips
  MaxChanges = 2
  MaxStops = 1

CHECK_DEADLOCK FALSE

INVARIANTS
  LocatorBacked
  Tracks
  

PROPERTIES
  NothingForgotten
  CatchesUp
