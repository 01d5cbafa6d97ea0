\* A tab scans, live-scans, updates the database and clears the cache.
CONSTANTS
  Kinds = {"scan", "live", "update", "db", "cache", "clear"}
  Sizes = {0, 3}
  PerChoices = {1, 2}
  FirstPer = 2
  LogCap = 2
  MaxRequests = 4
SPECIFICATION Spec
INVARIANTS
  TypeOK
  LogOfOwnScan
  TableIsPage
  DrawnAsShown
PROPERTIES
  AnswersInOrder
  EveryButtonReturns
