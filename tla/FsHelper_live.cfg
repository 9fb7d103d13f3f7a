SPECIFICATION FairSpec
CONSTANTS
  Callers = {c1, c2}
  Names = {a}
  Depth = 2
  Ops = {"create_directories", "remove_all"}
  MaxOpen = 2
  MaxCalls = 2
  MaxFaults = 0
CHECK_DEADLOCK FALSE
PROPERTIES
  CallEnds
