SPECIFICATION FairSpec
CONSTANTS
  Bytes = {10, 65, 200}
  Lengths = {0, 1, 2, 4}
  EndBytes = {10, 200}
  NoEnd = NoEnd
  Garbage = Garbage
  CharSigned = TRUE
INVARIANTS
  TypeOK
  ReturnsWhatWasRead
  TakesNoMore
  CountsAll
PROPERTIES
  CallReturns
