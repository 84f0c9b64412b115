CONSTANTS
  c1 = c1
  c2 = c2
  c3 = c3
  CPUs <- ThreeCPUs
  MaxArrivals = 6
SPECIFICATION Spec
INVARIANT TypeOK
PROPERTY TimerQuiesces
CHECK_DEADLOCK FALSE
INVARIANT NoTimerAfterCleanup
