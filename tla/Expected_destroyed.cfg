SPECIFICATION Spec
CONSTANTS
  Objs = {x, y}
  Data = {d1}
  MayThrow <- ValueMakeThrows
INVARIANT NeverUsesDestroyed
CHECK_DEADLOCK FALSE
