SPECIFICATION FairSpec
CONSTANTS
  Commands <- MCCommands
  Capacity = 3
  Chunk = 2
  Statuses = {0, 1}
  Faults = {"fork", "back", "call", "disk", "transfer"}
  Descriptors = 2
  MaxCommands = 4
  Names = {"a", "b"}
  Pieces = {"x", "y"}
  MaxText = 2
CHECK_DEADLOCK FALSE
INVARIANTS HandlersTypeOK RunWhereAsked OutputOrError AnswersTrue
PROPERTY ReturnsOutput
