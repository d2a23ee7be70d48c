SPECIFICATION Spec
CONSTANTS
  txR = txR  txA = txA  txN = txN  txC = txC  txD = txD  txE = txE
  txF = txF  txM = txM  txP = txP  txH = txH  txK = txK
  sx1 = sx1  sx2 = sx2  sy1 = sy1  sy2 = sy2  sy3 = sy3  sz1 = sz1
  b0 = b0  x1 = x1  x2 = x2  y1 = y1  y2 = y2  y3 = y3  z1 = z1
  Tx <- TxsHere
  Gen <- GenHere
  CoinBase <- NoCoinBase
  vin <- vinHere
  Fee <- FeeHere
  NonStandard <- NonStandardHere
  Replaceable <- ReplaceableHere
  Block <- BlockHere
  Genesis = b0
  Parent <- ParentHere
  Height <- HeightHere
  Txs <- TxsInBlock
  Maturity = 2
  LimitAncestors = 3
  LimitDescendants = 2
  MaxEntries = 4
  MaxDisconnected = 4
  Delta <- DeltaHere
INVARIANT
  CheckTxInputsAlwaysPasses
