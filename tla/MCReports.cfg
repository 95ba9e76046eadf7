SPECIFICATION MCSpec
CONSTANTS
  Workers <- MCWorkers
  Prefetch = 1
  MaxRetries = 1
  MaxRestarts = 1
  MaxRejoins = 1
  Requests <- MCRequests
  Models = {m1, m2}
  Definitions <- MCDefinitions
  NoDefinition = NoDefinition
  MaxRequests = 3
  Messages <- MCMessages
  LogEnd = 2
INVARIANTS
  JudgedByCurrentModel
  AcceptedIsPublished
PROPERTIES
  CurrentChangesAsAsked
  UpdatesTakeHold
CHECK_DEADLOCK FALSE
