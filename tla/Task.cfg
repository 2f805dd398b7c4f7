CONSTANTS
  NumTasks = 3
  MaxStarts = 5
SPECIFICATION Spec
INVARIANT TypeOK
INVARIANT HaltedSleeps
INVARIANT HaltedByRequest
INVARIANT ResumesOwn
PROPERTY NoStarvation
CHECK_DEADLOCK FALSE
