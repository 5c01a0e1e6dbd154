CONSTANTS
  Timer = 2
  MaxRate = 3
  MinStart = 1
  StopTicks = 2
  One = 2
  MaxWord = 3
  HasLimit = TRUE
  Velocities <- McVelocities
  Accels = {2}
  Distances <- McDistances
  Positions <- McPositions
  Travel = 2
  HomeTravel = 1
SPECIFICATION Spec
INVARIANT
  RemainingIsToTarget
