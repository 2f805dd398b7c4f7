CONSTANTS
  c1 = c1
  c2 = c2
  Cogs = {c1, c2}
  NLocks = 2
  Preset = TRUE
  Calls <- AllCalls
SPECIFICATION Spec
INVARIANT TypeOK MutualExclusion
PROPERTY ImplementsMutex
PROPERTY CommandKept
PROPERTY HardwareLockReleased
