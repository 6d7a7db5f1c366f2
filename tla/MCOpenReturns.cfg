SPECIFICATION FairSpec
CONSTANTS
  Procs = {p1, p2}
  Files = {f1}
  Fds = {3}
  FlagWords <- AllWords
  Modes <- MCModes
  NoFile = NoFile
  Nobody = Nobody
INVARIANTS
  CreateModeDefined
PROPERTIES
  OpenReturns
