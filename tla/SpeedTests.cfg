SPECIFICATION Spec
CONSTANTS
  None = None
  Ids = {1, 2, 3}
  Proxy <- MCProxy
  StatsOf <- MCStats
  Cases <- MCCases
  Pools = {1, 2}
  Workers = {1, 2}
  MaxBytes = 2
  MaxStarts = 2
  MaxFaults = 1
INVARIANTS
  TrafficKept
  PoolSound
PROPERTIES
  StaysDeleted
  BothEnd
CHECK_DEADLOCK FALSE
