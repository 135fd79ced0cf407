SPECIFICATION HttpSpec
CONSTANTS
  TimeoutMs = 2
  MaxRedirects = 1
  Horizon = 4
INVARIANT AnsweredInTime
CHECK_DEADLOCK FALSE
