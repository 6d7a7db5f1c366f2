SPECIFICATION Spec
CONSTANTS
  Procs = {p1, p2}
  Files = {f1}
  Fds = {3, 4}
  FlagWords <- MCFlagWords
  Modes = {0}
  NoFile = NoFile
  Nobody = Nobody
INVARIANTS
  LockedWhileOpen
