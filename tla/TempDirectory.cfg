SPECIFICATION FairSpec
CONSTANTS
  Callers = {c1, c2}
  Suffixes = {s1, s2}
  MaxTries = 1
  Foreign = foreign
  NoSuffix = none
INVARIANTS
  TypeOK
  Exclusive
  MadeIffReturned
  ParentLeft
PROPERTIES
  ForeignUntouched
  ImplementsAllocator
  CallEnds
