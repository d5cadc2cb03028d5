SPECIFICATION Spec
CONSTANTS
  Procs = {p}
  Kinds <- MCKinds
  Blocks = 2
  Inodes <- MCInodes
  MaxStops = 3
  NoInode = NoInode
INVARIANTS
  TypeOK
  TrustedIsWhole
PROPERTIES
  MadeOnce
  RecoversFromStops
