SPECIFICATION Spec
CONSTANTS
  w1 = w1
  w2 = w2
  p1 = p1
  p2 = p2
  allowed = allowed
  asked = asked
  denied = denied
  unregistered = unregistered
  NoOne = NoOne
  Workers = {w1}
  People = {p1}
  Actions = {allowed}
  Policy <- MCPolicy
  MaxRequests = 1
  Aborts = FALSE
SYMMETRY MCSymmetry
PROPERTY DeniedNeverExecutes
