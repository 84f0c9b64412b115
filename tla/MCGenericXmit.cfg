CONSTANTS
  s1 = s1
  s2 = s2
  Skbs <- TwoSkbs
  NumTxQueues = 3
  MaxXmits = 6
SPECIFICATION Spec
INVARIANT TypeOK
INVARIANT PoolSkbRetained
INVARIANT FramesOnRingQueue
INVARIANT OpsOwnedByAdapter
