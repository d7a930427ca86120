SPECIFICATION WalkSpec
CONSTANTS
  Roads <- MCRoads
  WalkSpeed = 12
  WalkTimes = {1, 2, 4}
INVARIANTS
  RunsAsFarAsItsRoad
  CollectsWhatItPasses
