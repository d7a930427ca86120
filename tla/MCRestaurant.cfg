SPECIFICATION RestaurantSpec
CONSTANTS
  OrderIds = {1, 2, 3}
  WithOnion = {2, 3}
INVARIANTS
  EveryHandlerCalled
  RightHamburger
