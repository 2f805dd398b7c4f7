SPECIFICATION FairSpec
CONSTANTS
  Programs <- GotoPrograms
  MoveThreshold = 3
  MaxIterations = 5
  Reach = 10
  FarBack = 9
  EffSize = 9
PROPERTY SameMeaning
