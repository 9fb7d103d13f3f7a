SPECIFICATION ClientSpec
CONSTANTS
  Chars <- MCChars
  Delim <- MCDelim
  Inputs <- MCInputs
  Patterns <- MCPatterns
  Letters = {"a"}
  MaxInput = 3
  MaxLength = 6
  MaxStart = 4
CHECK_DEADLOCK FALSE
INVARIANTS
  TypeOK
  ReplacesAll
  TokensAreStretches
  JoinUndoesSplit
  ComponentsAgree
  PartsGiveBack
  AppendsInOrder
  UndefinedOnlyAtRoot
PROPERTIES
  Shrinks
