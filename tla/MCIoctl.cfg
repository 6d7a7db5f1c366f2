SPECIFICATION Spec
CONSTANTS
  Scripts = {s1, s2}
  Arguments <- MCArguments
  Arrays <- MCArrays
  Numbers = {0, 3, 15, 200}
  Words <- MCWords
  Devices <- MCDevices
  Clock <- MCClock
  NoArg = NoArg
  NoAnswer = NoAnswer
  IntMod = 16
  HalfMod = 4
  ByteMod = 2
  LongMod = 256
  Usecs = 4
INVARIANTS
  TypeOK
PROPERTIES
  SavedRestores
  OnlyMentionedChange
  ImplementsCells
