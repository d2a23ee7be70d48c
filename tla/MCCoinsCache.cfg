SPECIFICATION Spec
CONSTANTS
  OutPoint = {o1, o2}
  Coin = {c1, c2, u}
  Unspendable = {u}
  Spent = Spent
  NoEntry = NoEntry
  Hash = {b1, b2}
  NullHash = NullHash
SYMMETRY Symmetry
INVARIANTS
  FlagsSound
  NeverThrows
PROPERTY RefinesMap
