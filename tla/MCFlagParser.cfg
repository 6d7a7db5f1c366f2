SPECIFICATION Spec
CONSTANTS
  Alphabet = {"r", "w", "a", "x", "c", "d", "+", "e", "n", "s", "?"}
  MaxLen = 3
  Strings <- MCStrings
INVARIANTS
  InvalidExactly
  Meaning
  OneAccessMode
