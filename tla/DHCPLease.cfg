SPECIFICATION FairSpec
CONSTANTS
  ResendCount = 3
  ResendDelay0 = 2
  ResendDelayMax = 4
  Jitter = 1
  Timeout = 2
  LeaseTimes = {12, 30}
  OptTimes = {6, 30}
  Missing = Missing
  HalfRange = 2048
  Addrs = {a1}
  a1 = a1
  a2 = a2
  MaxHeld = 5
  BadAcks = TRUE
  ServerMayStop = TRUE
INVARIANTS TypeOK NotOverdue EndsForAReason WakesForRenewal
PROPERTIES StopReturns LeaseEnds
CHECK_DEADLOCK FALSE
