SPECIFICATION Spec
CONSTANTS
  Symbols <- MCSymbols
  Calls <- MCCalls
  Idle = 4
  StuckAfter = 2
  StuckFor = 1
  Sample = 1
  StatusEvery = 3
  QmpTime = 1
  Addresses = {a, b}
  MaxText = 4
  MaxCalls = 2
PROPERTIES
  FailuresEndTheWait
