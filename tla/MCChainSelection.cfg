SPECIFICATION Spec
CONSTANTS
  Thread = {t1, t2}
  Block = {g, a1, b1, b2, b3}
  g = g
  a1 = a1
  b1 = b1
  b2 = b2
  b3 = b3
  c2 = c2
  Genesis = g
  NoBlock = NoBlock
  Parent <- MCParent
  Height <- MCHeight
  Work <- MCWork
  Verdicts <- MCVerdicts
  Addresses <- MCAddresses
  Command = {"precious", "invalidate"}
  MaxCommands = 1
SYMMETRY ThreadSymmetry
INVARIANTS
  FailureHasCause
  LinkedExact
  UnlinkedExact
  CandidatesExact
  IdleBest
PROPERTY ForwardProgress
