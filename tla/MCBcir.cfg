SPECIFICATION FairSpec
CONSTANTS
  Programs <- MCPrograms
  MoveThreshold = 3
  MaxIterations = 5
  Reach = 10
  FarBack = 9
  EffSize = 9
INVARIANTS Linked EncodingFits
PROPERTY SameMeaning
PROPERTY Finishes
