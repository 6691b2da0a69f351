SPECIFICATION LiveSpec
CONSTANTS
  Free = Free
  Workers = {w1, w2}
  Hosts = {h1}
  HostEnds = {"TimedOut"}
  Recoverers = {c1}
  MaxRuns = 1
  LeaseTimeout = 2
  Prompt = TRUE
  MaxFaults = 3
INVARIANT TypeOK
INVARIANT LeaseExclusive
INVARIANT EndedStaysEnded
 
PROPERTY EveryRunEnds
CHECK_DEADLOCK FALSE
