CONSTANTS
  TotalClusters = 4
  SlotsPerCluster = 2
  RootCluster = 2
  Names <- MCNames2
  ShortNames = {"A", "B"}
  ShortOf <- MCShortOf2
  ExactNames = {"a", "b"}
  Sizes = {1, 3}
  Values = {v1}
  MaxCrashes = 1
  MaxFaults = 1
SPECIFICATION FairSpec
CONSTRAINT OneMishap
INVARIANTS TypeOK VolumeSound
PROPERTIES LeakOnlyBy CallsReturn
