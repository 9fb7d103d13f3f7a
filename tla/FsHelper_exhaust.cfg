SPECIFICATION Spec
CONSTANTS
  Callers = {c1}
  Names = {a, b}
  Depth = 2
  Ops = {"create_directories", "remove_all"}
  MaxOpen = 2
  MaxCalls = 5
  MaxFaults = 0
SYMMETRY NameSymmetry
CHECK_DEADLOCK FALSE
INVARIANTS
  Answers
