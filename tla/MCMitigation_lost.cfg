CONSTANTS
  c1 = c1
  c2 = c2
  c3 = c3
  CPUs <- OneCPU
  MaxArrivals = 3
SPECIFICATION Spec
PROPERTY ArrivalNotified
CHECK_DEADLOCK FALSE
