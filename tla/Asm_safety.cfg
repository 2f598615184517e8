CONSTANTS
  Sources <- MCSources
  Names <- MCNames
  Key <- MCKey
  Org = 250
  MaxLabels = 2
  MaxOut = 24
  Base = 4
SPECIFICATION Spec
INVARIANTS TypeOK OutputFits PassesAgree AssembledRight
