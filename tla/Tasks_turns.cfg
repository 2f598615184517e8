CONSTANTS
  MaxTasks = 4
  StackSize = 2
  Memory = 8
SPECIFICATION FairTaskSpec
INVARIANTS TaskTypeOK TasksSound
PROPERTIES EveryTaskRuns
