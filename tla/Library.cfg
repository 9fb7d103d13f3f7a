SPECIFICATION ClientSpec
CONSTANTS
  Dirs <- MCDirs
  EnvTexts <- MCEnvTexts
  Objs = {o1, o2}
  Loads = {l1, l2}
  Guards = {g1, g2}
  Cleanups = {k1, k2}
  None = none
  MaxBuilt = 4
SYMMETRY Symmetry
CHECK_DEADLOCK FALSE
INVARIANTS
  ResourcesAccounted
  MessagesTaken
  CleanupOnce
  BadEndsExplained
PROPERTIES
  FoundFirst
