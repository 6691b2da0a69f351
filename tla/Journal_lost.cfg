SPECIFICATION MCSpec
CONSTANTS
  Writers = {"w1", "w2"}
  MaxEvents = 3
  LineBytes <- MCLineBytes
  MaxSegmentBytes = 8
  Failures = FALSE
  None = None
  NotYet = NotYet
  IntegrityError = IntegrityError
INVARIANT AckedEventsLoaded
