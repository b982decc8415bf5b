SPECIFICATION Spec
CONSTANTS
  d1 = d1
  d2 = d2
  h1 = h1
  h2 = h2
  u1 = u1
  Docs = {d1, d2}
  Owner <- OneOwner
  Rank <- ById
  Stamps = {1, 2}
  Targets = {d1}
  Handlers = {h1, h2}
  Concurrency = 2
  Capacity = 1
  MaxRequests = 2
  MaxFaults = 1
SYMMETRY AnyHandler
CHECK_DEADLOCK FALSE
INVARIANTS TypeOK RunningIsExecuted ReportStays DoneIsClean StopReaches QueuedHasJob
PROPERTIES StartsInOrder
