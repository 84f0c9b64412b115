CONSTANTS
  s1 = s1
  s2 = s2
  Skbs <- TwoSkbs
  NumTxQueues = 2
  MaxXmits = 4
SPECIFICATION Spec
INVARIANT XmitResultTruthful
