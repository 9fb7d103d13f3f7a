SPECIFICATION Spec
CONSTANTS
  Callers = {c1, c2}
  Names = {a, b}
  Depth = 2
  Ops = {"create_directories", "create_temp_directory", "remove", "remove_all", "file_size"}
  MaxOpen = 2
  MaxCalls = 1
  MaxFaults = 0
SYMMETRY Symmetry
CHECK_DEADLOCK FALSE
INVARIANTS
  AnswersAgree
  TempExclusive
  RemoveAllGone
PROPERTIES
  CrashExplained
