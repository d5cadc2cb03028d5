SPECIFICATION Spec
CONSTANTS
  Declared <- MCDeclared
  DigestSize <- MCDigestSize
  Pcrs = {17, 18}
  Measured <- MCMeasured
  Tails <- MCTails
  MaxEvents = 2
  Cuts <- MCCuts
  MaxLines = 1
INVARIANTS
  ReadsBack
  ReplayIsPcr
