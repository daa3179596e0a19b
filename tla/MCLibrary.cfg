SPECIFICATION Spec
CONSTANTS
  Size = 7
  Char <- MCChar
  LongMax <- MCLongMax
  Values <- MCValues
  Words <- MCWords
  Specs <- MCSpecs
INVARIANTS SearchesAreExact CopiesAreExact TokensAreExact RoundTrip FieldIsFilled
CHECK_DEADLOCK FALSE
