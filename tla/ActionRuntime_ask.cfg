SPECIFICATION Spec
CONSTANTS
  w1 = w1
  w2 = w2
  p1 = p1
  p2 = p2
  allowed = allowed
  asked = asked
  denied = denied
  unregistered = unregistered
  NoOne = NoOne
  Workers = {w1, w2}
  People = {p1}
  Actions = {asked, unregistered}
  Policy <- MCPolicy
  MaxRequests = 1
  Aborts = TRUE
SYMMETRY MCSymmetry
INVARIANT ExecutionAuthorised
INVARIANT ExecutionJournaled
INVARIANT AuditTruthful
