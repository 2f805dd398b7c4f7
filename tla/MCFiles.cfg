SPECIFICATION Spec
CONSTANTS
  Slots = {1, 2, 3}
  Fds = {0, 1}
  Names <- MCNames
  LongNames <- MCLong
  Leaves = {"f"}
  Systems = {v1, v2}
  Hooked = {v1}
  NoName = NoName
  NoFs = NoFs
  Root = root
INVARIANTS StartsBalanced OpenFilesLive
PROPERTY ImplementsNamespace
