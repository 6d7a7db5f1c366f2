SPECIFICATION Spec
CONSTANTS
  Bytes = {10, 65, 200}
  Lengths = {2}
  EndBytes = {10, 200}
  NoEnd = NoEnd
  Garbage = Garbage
  CharSigned = TRUE
INVARIANTS
  AlwaysWhatWasRead
