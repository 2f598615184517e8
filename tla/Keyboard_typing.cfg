CONSTANTS
  Letters = {"a", "A"}
  CmdMax = 2
  NameMax = 1
  TextMax = 1
  FileSlots = 2
  QueueMax = 2
SPECIFICATION KeyboardSpec
INVARIANTS TypeOK RowShowsLine SavedIsFound TypedAsMeant
