SPECIFICATION ServerSpec
CONSTANTS
  Roads <- MCRoads
  SpawnPoints <- MCSpawn
  RoadPoints = {}
  Offices = {}
  Tokens = {t1, t2}
  DogSpeed = 18
  BagCapacity = 0
  LootTypes = {}
  LootValue <- MCLootValue
  RetirementTime = 2
  Deltas = {1}
  MaxLoot = 0
  PlayCap = 2
  MaxWait = 1
  ChanceUnit = 1
  Chance <- MCChance
  AutoTick = FALSE
  Workers = 2
  ClientMoves = {"R", ""}
  SavePeriod = 2
  Faults = {"flush"}
  MaxLosses = 1
  NoFile = NoFile
  Corrupt = Corrupt
  NoView = NoView
SYMMETRY TokenSymmetry
INVARIANTS
  SavedFileLoads
