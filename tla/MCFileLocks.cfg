SPECIFICATION Spec
CONSTANTS
  Procs = {p1, p2}
  Files = {f1}
  Fds = {3, 4}
  FlagWords <- MCFlagWords
  Modes = {2560}
  NoFile = NoFile
  Nobody = Nobody
INVARIANTS
  TypeOK
  Accounted
  LockKept
  Exclusive
PROPERTIES
  ContentProtected
  ImplementsAccess
