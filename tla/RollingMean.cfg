SPECIFICATION MeanSpec
CONSTANTS
  Sizes = {1, 2, 3}
  Values <- MCValues
  MaxCount = 7
  SizeMod = 256
  TMod = 64
  Width = 6
  Mantissa = 3
  Durations <- MCDurations
CHECK_DEADLOCK FALSE
INVARIANTS
  TypeOK
  SumOfWindow
  CountOfWindow
  MeanOfWindow
  LimitsEnforced
