CONSTANTS
  parent = parent
  child = child
  v = v
  d = d
  None = None
  Name <- MCName
  Under <- MCUnder
  Move = {v}
  Discard = {d}
  MaxOthers = 2
  MaxLives = 2
  MaxGeneration = 2
SPECIFICATION FairSpec
INVARIANTS TypeOK
PROPERTIES TakesOnlyEmpty TakesWhatWasProposed MoveFindsItsFolder AllOfItGoes AcceptedCloses
