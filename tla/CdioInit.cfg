SPECIFICATION FairSpec
CONSTANTS
  Threads = {t1, t2, t3}
  Handles = {h1, h2}
  MaxCalls = 1
  None = None
INVARIANTS TypeOK InitExclusive LoggerReady Accounted OnlyMmcExposed
PROPERTIES CallsReturn
