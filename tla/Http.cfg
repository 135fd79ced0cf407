SPECIFICATION HttpSpec
CONSTANTS
  TimeoutMs = 4
  MaxRedirects = 3
  Horizon = 7
INVARIANTS
  HttpTypeOK
  HeadersWithinTimeout
PROPERTY ReturnsUnlessBodyEndless
CHECK_DEADLOCK FALSE
