CONSTANTS
  Base = 4
  Limit = 40
  Header = 4
  MinSplit = 6
  Align = 4
  Word = 64
  Sizes = {0, 1, 7, 16, 62}
SPECIFICATION Spec
INVARIANTS TypeOK WellFormed
PROPERTY ImplementsAllocator
