SPECIFICATION FairSpec
CONSTANTS
  Slots = 2
  PageSize = 2
  MaxPages = 2
  BodiesOf <- MCBodiesOf
  FiltersOf <- MCFiltersOf
  MaxMsg = 3
  MaxSubs = 2
  MaxWire = 1
  MaxFaults = 1
CHECK_DEADLOCK FALSE
INVARIANTS GapRecovered
