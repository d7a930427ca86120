SPECIFICATION FairServerSpec
CONSTANTS
  Roads <- MCRoads
  SpawnPoints <- MCSpawn
  RoadPoints = {}
  Offices = {}
  Tokens = {t1, t2}
  DogSpeed = 36
  BagCapacity = 0
  LootTypes = {}
  LootValue <- MCLootValue
  RetirementTime = 2
  Deltas = {1}
  MaxLoot = 0
  PlayCap = 0
  MaxWait = 1
  ChanceUnit = 1
  Chance <- MCChance
  AutoTick = TRUE
  Workers = 2
  ClientMoves = {"R", ""}
  SavePeriod = 2
  Faults = {"insert", "save", "kill"}
  MaxLosses = 1
  NoFile = NoFile
  Corrupt = Corrupt
  NoView = NoView
PROPERTIES
  RetireesAreRecorded
  SilentPlayersRetire
