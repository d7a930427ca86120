SPECIFICATION ServerSpec
CONSTANTS
  Roads <- MCRoads
  SpawnPoints <- MCSpawn
  RoadPoints <- MCRoadPoints
  Offices <- MCOffices
  Tokens = {t1, t2}
  DogSpeed = 18
  BagCapacity = 1
  LootTypes = {"key"}
  LootValue <- MCLootValue
  RetirementTime = 2
  Deltas = {1}
  MaxLoot = 3
  PlayCap = 2
  MaxWait = 1
  ChanceUnit = 1
  Chance <- MCChance
  AutoTick = FALSE
  Workers = 2
  ClientMoves = {"R", ""}
  SavePeriod = 2
  Faults = {"insert", "save", "kill"}
  MaxLosses = 2
  NoFile = NoFile
  Corrupt = Corrupt
  NoView = NoView
SYMMETRY TokenSymmetry
INVARIANTS
  LootInOnePlace
  OneRowPerRetirement
  NobodyForgotten
  
PROPERTIES
  RestartResumes
