SPECIFICATION Spec
CONSTANTS
  Cals = {c1, c2}
  Plain = Plain
  Foreign = Foreign
  Offsets = 1
  NumCells = 2
  MinSamples = 1
  MinAge = 2
  MaxAge = 3
  MaxDown = 1
  MaxUp = 1
  MaxAsks = 2
INVARIANTS
  SavedIsStored
  FitsAreRaw
PROPERTIES
  SessionsEnd
  ImplementsStore
