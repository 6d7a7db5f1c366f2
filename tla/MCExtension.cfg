SPECIFICATION Spec
CONSTANTS
  Others <- MCOthers
  MaxParams = 3
INVARIANTS
  TypeOK
  ArgumentsThere
  DeathHarmless
  ReloadKeeps
  TableFits
