SPECIFICATION SignatureSpec
CONSTANTS
  ToleranceMs = 2
  MaxAge = 3
INVARIANT GenuineIsValid
CHECK_DEADLOCK FALSE
