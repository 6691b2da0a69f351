SPECIFICATION MCSpec
CONSTANTS
  p1 = p1
  p2 = p2
  u1 = u1
  Processors = {p1, p2}
  Users = {u1}
  MaxRuns = 1
  MaxUserMessages = 2
  MaxCalls = 2
  SliceWindow = 2
  ContextWindow = 2
  Drops = {u1, p1}
INVARIANT CompletedSound
INVARIANT RunHasSlice
INVARIANT ContextSound
INVARIANT CallsSound
PROPERTY StartedRunEnds
PROPERTY CallsReturn
