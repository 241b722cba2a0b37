SPECIFICATION LibrarySpec
CONSTANTS
  LONG_MAX = 7
  LLONG_MAX = 31
  SIZE_MAX = 15
  Numerals <- MCNumerals
  Bases = {0, 2, 10, 16}
  Arrays <- MCArrays
  Keys = {1, 2, 3, 4, 5, 6, 7}
  Texts <- MCTexts
  Users = {u1, u2}
  Delimiters = {44}
  NULL = NULL
CHECK_DEADLOCK FALSE
INVARIANTS ConversionsAreRight SearchIsRight ReturnsTokens
PROPERTIES SearchEnds
