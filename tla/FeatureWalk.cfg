SPECIFICATION FairSpec
CONSTANTS
  BUF = 34
  Responses <- MCResponses
INVARIANTS TypeOK FeaturesOfTheDevice
PROPERTIES CallReturns
CHECK_DEADLOCK FALSE
