CONSTANTS
  Sources <- MCSources
  Programs <- MCPrograms
  Names <- MCNames
  Key <- MCKey
  BufLen = 40
  VarSlots = 2
  StringMax = 2
  Half = 4
SPECIFICATION SpecPrograms
PROPERTY BeepReturns
