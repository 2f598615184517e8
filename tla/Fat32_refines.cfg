CONSTANTS
  TotalClusters = 4
  SlotsPerCluster = 2
  RootCluster = 2
  Names <- MCNames3
  ShortNames = {"A", "B"}
  ShortOf <- MCShortOf3
  ExactNames = {"a", "b"}
  Sizes = {3}
  Values = {v1, v2}
  MaxCrashes = 1
  MaxFaults = 0
SPECIFICATION Spec
CONSTRAINT Sound
SYMMETRY Symmetry
PROPERTY Implements
