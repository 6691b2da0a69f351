SPECIFICATION LiveSpec
CONSTANTS
  l1 = l1
  search = search
  click = click
  unknown = unknown
  Loops = {l1}
  ToolCalls = {search, click, unknown}
  ReadOnly = {search}
  Browser = {click}
  Unmapped = {unknown}
  MaxTurns = 2
  Answers <- MCAnswers
  MaxAttempts = 2
  ModelTimeout = TRUE
  ActionTimeout = TRUE
  BrowserTimeout = FALSE
  Faults = TRUE
INVARIANT EveryCallAnswered
INVARIANT RecordedBeforeShown
INVARIANT SkipsAgree
INVARIANT TurnsUsed
PROPERTY NoActionAfterCancel
PROPERTY LoopReturns
CHECK_DEADLOCK FALSE
