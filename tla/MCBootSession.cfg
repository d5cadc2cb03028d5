SPECIFICATION Spec
CONSTANTS
  xen = xen
  linux = linux
  other = other
  Names <- MCNames
  Tests <- MCTests
  Workers = 2
  Main = main
  MaxRun = 2
  MaxOthers = 2
  Cells <- MCCells
  Callers <- MCCallers
  Patch <- MCPatch
  Others <- MCOthers
  Nothing = Nothing
INVARIANTS
  TypeOK
  BootedOnce
  CalledOnBoots
  NothingAfterFinish
  ResultsTellTheRun
  PageExplains
PROPERTIES
  OwnRunDir
  SessionEnds
