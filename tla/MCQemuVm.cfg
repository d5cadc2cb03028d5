SPECIFICATION Spec
CONSTANTS
  MaxSent = 2
  MaxFlash = 1
INVARIANTS
  TypeOK
  LogIsBuffer
  ConsoleUnbroken
  TpmOutlivesQemu
  SavedImageIsFinal
  NothingLeftBehind
PROPERTIES
  WritesOnlyOpenLog
  BlockMoves
