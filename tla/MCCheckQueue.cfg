SPECIFICATION FairSpec
CONSTANTS
  Worker = {w1, w2}
  Master = {m1}
  NoMaster = NoMaster
  Job = {j1, j2, j3}
  nBatchSize = 2
INVARIANTS
  VerdictCorrect
PROPERTY ControlEnds
