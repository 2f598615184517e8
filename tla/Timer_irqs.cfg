CONSTANTS
  Lines = {0, 5, 12}
  TickMod = 4
  Sleeps = {1, 2}
SPECIFICATION FairSpec
INVARIANTS TypeOK Attended
PROPERTIES Served NeverEarly SleepEnds
