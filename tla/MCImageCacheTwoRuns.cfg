SPECIFICATION Spec
CONSTANTS
  Procs = {p, q}
  Kinds <- MCFirmware
  Blocks = 2
  Inodes <- MCInodes
  MaxStops = 1
  NoInode = NoInode
INVARIANT
  NoHalfWrittenFirmware
