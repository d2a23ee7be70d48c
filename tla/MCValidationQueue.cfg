SPECIFICATION FairSpec
CONSTANTS
  Service = {s1, s2}
  Loader = loadblk
  Cleaner = clean
  Rpc = {}
  Main = main
  NoThread = NoThread
  MaxPending = 1
  MaxCallbacks = 3
CHECK_DEADLOCK FALSE
INVARIANTS
  OneAtATimeInOrder
  NoCallbackStranded
  FlushDelivers
PROPERTY WaitEnds
