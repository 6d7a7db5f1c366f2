SPECIFICATION Spec
CONSTANTS
  Kinds <- MCKinds
  Names = {a}
  Numbers <- MCNumbers
  Width = 8
  Base = 2
  MaxDepth = 3
  MaxPlaces = 4
INVARIANTS
  TypeOK
  ReadsBack
  ChangesOnePlace
  VectorIsList
  GlobalSeen
