SPECIFICATION LiveSpec
CONSTANTS
  w1 = w1
  w2 = w2
  p1 = p1
  p2 = p2
  allowed = allowed
  asked = asked
  denied = denied
  unregistered = unregistered
  NoOne = NoOne
  Workers = {w1, w2}
  People = {p1}
  Actions = {allowed, denied}
  Policy <- MCPolicy
  MaxRequests = 1
  Aborts = FALSE
PROPERTY AllowedActionEnds
