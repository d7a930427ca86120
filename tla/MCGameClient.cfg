SPECIFICATION FairSpec
CONSTANTS
  Me = me
  Persons = {me, bob}
  Loot = {x}
  Keys = {"U"}
  Room = 1
  PosEvery = 2
  PlayersEvery = 2
  CanFail = {"action"}
  CanOvertake = {"state"}
  MaxCalls = 2
  MaxPresses = 2
  MaxCopies = 6
INVARIANTS
  OneObjectPerPlace
  NoGhosts
  NamesAreRight
  HeadingFollowsKeys
PROPERTIES
  
  RetiredSeeRecords
