SPECIFICATION FairSpec
CONSTANTS
  Viewers = {p, q}
  Uris = {d}
  Callers = {c, e}
  MaxCalls = 2
  MaxQueued = 2
  None = None
INVARIANTS
  RecordsAreRight
  NobodyWaitsForALoadedDocument
PROPERTIES
  ImplementsOwnership
  TheGoneAreForgotten
  CallsAreAnswered
\* When every process has gone and nobody asks, nothing is left to do.
CHECK_DEADLOCK FALSE
