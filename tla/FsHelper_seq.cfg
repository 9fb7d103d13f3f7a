SPECIFICATION Spec
CONSTANTS
  Callers = {c1}
  Names = {a, b}
  Depth = 2
  Ops = {"create_directories", "create_temp_directory", "remove", "remove_all", "file_size", "is_regular_file"}
  MaxOpen = 2
  MaxCalls = 3
  MaxFaults = 1
SYMMETRY NameSymmetry
CHECK_DEADLOCK FALSE
INVARIANTS
  TypeOK
  RightAlone
  NoStreamLeft
PROPERTIES
  Footprint
  EmptyErrorExplained
