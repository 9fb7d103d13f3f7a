SPECIFICATION Spec
CONSTANTS
  Callers = {c1}
  Names = {a, b}
  Depth = 2
  Ops = {"remove_all"}
  MaxOpen = 2
  MaxCalls = 1
  MaxFaults = 0
CHECK_DEADLOCK FALSE
INVARIANTS
  RemoveAllDocumented
