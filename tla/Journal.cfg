SPECIFICATION MCSpec
CONSTANTS
  Writers = {"w1"}
  MaxEvents = 6
  LineBytes <- MCLineBytes
  MaxSegmentBytes = 6
  Failures = TRUE
  None = None
  NotYet = NotYet
  IntegrityError = IntegrityError
INVARIANT TypeOK
INVARIANT LoadSound
INVARIANT ManifestNeverAhead
PROPERTY LogRefined
