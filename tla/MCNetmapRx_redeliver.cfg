CONSTANTS
  NumSlots = 4
  BufSize = 2
  Shapes <- MCShapes
  IovChoices <- MCBigIovs
  MaxPkts = 3
  MaxRecvs = 4
  WholePackets = TRUE
SPECIFICATION Spec
INVARIANT DeliversInOrder
