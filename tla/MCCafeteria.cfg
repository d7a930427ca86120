SPECIFICATION FairSpec
CONSTANTS
  Ingredients <- MCIngredients
  NumOrders = 20
  Workers = 4
  Waiting = 4
  Burners = 8
  LateTimers <- MCLateTimers
INVARIANTS
  NoOrderFails
  TakesSevenSeconds
PROPERTIES
  EverybodyIsServed
