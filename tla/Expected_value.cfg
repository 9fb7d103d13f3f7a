SPECIFICATION Spec
CONSTANTS
  Objs = {x, y}
  Data = {d1, d2}
  MayThrow <- ConstructorsThrow
INVARIANTS
  FlagTracksContent
  CrashExplained
PROPERTIES
  OnlyConversionLeaks
  ImplementsValue
CHECK_DEADLOCK FALSE
