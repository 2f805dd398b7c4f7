\* Three cogs, at most one missed window: rdlong takes 9..16 clocks and wrlong
\* 3..10 on the P2, whose windows are 8 clocks apart.
CONSTANTS
  NCogs = 3
  MaxSkip = 1
SPECIFICATION Spec
INVARIANT TypeOK
INVARIANT MutualExclusion
INVARIANT MarkStable
PROPERTY ImplementsMutex
PROPERTY SomebodyGetsIn
