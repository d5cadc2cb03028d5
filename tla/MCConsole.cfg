SPECIFICATION Spec
CONSTANTS
  Menu <- MCMenu
  Longer <- MCLonger
  Typed = "typed"
  Images <- MCImages
  Entries <- MCEntries
  Commands = 2
  Starved = FALSE
INVARIANTS
  TypeOK
  PicksTitle
  OwnOutput
  TypesTheEntry
PROPERTY
  TypedInTurn
