SPECIFICATION Spec
CONSTANTS
  Roads <- MCRoads
  SpawnPoints <- MCSpawn
  RoadPoints <- MCRoadPoints
  Offices <- MCOffices
  Tokens = {t1, t2}
  DogSpeed = 36
  BagCapacity = 1
  LootTypes = {"key", "wallet"}
  LootValue <- MCLootValue
  RetirementTime = 2
  Deltas = {1}
  MaxLoot = 2
  PlayCap = 2
  MaxWait = 3
  ChanceUnit = 8
  Chance <- MCChance
SYMMETRY TokenSymmetry
INVARIANTS
  TypeOK
  LootAccounted
  DogsOnRoads
  ScoresFromDeliveries
  RetireesHaveServed
PROPERTIES
  
  LootWithinLooters
  RetirementIsFinal
  LootLives
