SPECIFICATION FairSpec
CONSTANTS
  w1 = w1
  w2 = w2
  g1 = g1
  g2 = g2
  Warehouses = {w1, w2}
  Workers = {g1, g2}
  MaxAttempts = 2
  MaxConcurrent = 1
  None = None
INVARIANTS
  TypeOK
  SingleFlight
  ConcurrencyCap
  NoLostRequest
  PromptWake
  NoStrayEntry
  CloseDrains
PROPERTIES
  ImplementsCoalescedSync
  RequestServed
  CloseReturns
  ImplementsFairness
