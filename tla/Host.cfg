SPECIFICATION MCSpec
CONSTANTS
  p1 = p1
  p2 = p2
  p3 = p3
  p4 = p4
  p5 = p5
  keeps = keeps
  lapses = lapses
  Callers = {p1, p2, p3}
  Approvals = {keeps, lapses}
  Expires <- MCExpires
  MaxTime = 1
  IoErrors = TRUE
  Crashes = TRUE
INVARIANT OneDecision
INVARIANT DecisionDurable
INVARIANT BrowserSound
INVARIANT KnowledgeSound
INVARIANT AccessEnds
INVARIANT SyncSound
INVARIANT HostOpens
 
INVARIANT ConversationsHold
INVARIANT RecordsHold
PROPERTY ExpiredStaysClosed
CHECK_DEADLOCK FALSE
