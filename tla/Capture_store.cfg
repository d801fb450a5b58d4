SPECIFICATION StoreSpec
CONSTANTS
  Flows = {1, 2, 3}
  Bodies <- SmallBodies
  Requests = {0, 2}
  Budget = 4
  MaxRecord = 5
  MaxFile = 3
  MaxStore = 8
  Retention = 1
  MaxOpen = 1
  MaxDay = 2
  MaxStops = 1
  MaxCleans = 1
INVARIANTS
  StoreBounded
  RecordsStand
  CleanMeansClean
CHECK_DEADLOCK FALSE
