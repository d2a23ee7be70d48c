SPECIFICATION Spec
CONSTANTS
  OutPoint = {o1, o2, o3}
  o1 = o1
  o2 = o2
  o3 = o3
  Coin <- MCCoin
  Unspendable = {}
  Spent = Spent
  NoEntry = NoEntry
  Block = {g, a1, a2, b2, b3}
  g = g
  a1 = a1
  a2 = a2
  b2 = b2
  b3 = b3
  Genesis = g
  NoBlock = NoBlock
  NoUndo = NoUndo
  Parent <- MCParent
  Height <- MCHeight
  Vtx <- MCVtx
INVARIANTS
  ActiveCoins
  DatabaseDescribed
  NeverFails
  ReplayCompletes
