SPECIFICATION ControlSpec
CONSTANTS
  Ops <- OneAwait
  MaxTokens = 3
  MaxTime = 2
  Jitter = 1
CHECK_DEADLOCK FALSE
PROPERTIES
  ResultLeavesBeforeBoundary
