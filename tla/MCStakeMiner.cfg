SPECIFICATION FairSpec
CONSTANTS
  g = g
  a1 = a1
  a2 = a2
  b1 = b1
  b2 = b2
  b3 = b3
  k1 = k1
  k2 = k2
  k3 = k3
  k4 = k4
  Block <- MCBlock
  Genesis = g
  NoBlock = NoBlock
  Parent <- MCParent
  Height <- MCHeight
  Coin <- MCCoin
  Creates <- MCCreates
  Spends <- MCSpends
  Stake <- MCStake
  Generated <- MCGenerated
  HasKey <- MCHasKey
  Script <- MCScript
  Kernel <- MCKernel
  LastTime = 2
  Maturity = 1
  CacheSlack = 0
INVARIANTS
  KernelSound
  SubmittedValid
  SubmittedUnspent

  
