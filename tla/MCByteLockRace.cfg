CONSTANTS
  c1 = c1
  c2 = c2
  Cogs = {c1, c2}
  NLocks = 2
  Preset = FALSE
  Calls <- LockCalls
SPECIFICATION Spec
INVARIANT MutualExclusion
