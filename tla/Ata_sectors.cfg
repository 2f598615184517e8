CONSTANTS
  Bytes = {0, 1}
  Words = 1
  ReadPolls = 2
  WritePolls = 2
  Asked <- MCAsked
SPECIFICATION FairSpec
INVARIANTS TypeOK Delivers
PROPERTIES OnlyAsked CallsReturn
