SPECIFICATION Spec
CONSTANTS
  Chars = {" ", ",", "a"}
  Delims = {" ", ","}
  Npos = 99
  MaxLen = 5
  Strings <- MCStrings
INVARIANTS
  SubstrInRange
  TokensAreRuns
  NoneMissing
PROPERTIES
  MovesOn
