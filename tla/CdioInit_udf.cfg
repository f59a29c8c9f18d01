SPECIFICATION Spec
CONSTANTS
  Threads = {t1, t2}
  Handles = {h1, h2}
  MaxCalls = 1
  None = None
INVARIANTS LockHeldInInit
