CONSTANTS
  TotalClusters = 3
  EntriesPerSector = 2
  FatSectors = 3
  FatCount = 2
  AudioClusters = {4}
  MaxMishaps = 1
SPECIFICATION FairSpec
INVARIANTS TypeOK Coherent MirrorsDifferLittle
PROPERTIES ImplementsMap CallsReturn
