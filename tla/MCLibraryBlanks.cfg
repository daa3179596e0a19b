SPECIFICATION Spec
CONSTANTS
  Size = 7
  Char <- MCChar
  LongMax <- MCLongMax
  Values <- MCValues
  Words <- MCWords
  Specs <- MCSpecs
INVARIANT SkipsBlanks
CHECK_DEADLOCK FALSE
