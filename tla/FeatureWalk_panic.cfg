SPECIFICATION FairSpec
CONSTANTS
  BUF = 34
  Responses <- MCResponses
INVARIANTS MalformedIsSkipped
CHECK_DEADLOCK FALSE
