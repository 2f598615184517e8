CONSTANTS
  Chunk = 8
  Sector = 2
  Songs <- MCSongs
  Info <- MCInfo
  Word = 64
SPECIFICATION FairSpec
CONSTRAINT NotMixed
INVARIANTS TypeOK HeardIsAudio
PROPERTIES NeverOverwritten PlaysToTheEnd
