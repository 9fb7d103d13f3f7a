SPECIFICATION Spec
CONSTANTS
  Objs = {x, y}
  Data = {d1}
  MayThrow <- ValueCopyThrows
INVARIANT StrongGuarantee
CHECK_DEADLOCK FALSE
