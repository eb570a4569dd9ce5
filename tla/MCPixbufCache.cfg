\* The window of pages and the jobs in it: two jobs for one page and scale under
\* way, a cache of one page beside what is seen and one of three.
SPECIFICATION FairSpec
CONSTANTS
  NPages = 3
  Scales = {1, 2}
  Bytes <- MCBytes
  MaxSizes = {1, 3}
  PAGE_CACHE_NUMBER = 0
  MAX_PRELOADED_PAGES = 20
  MaxSeen = 1
  MaxEdits = 1
  Serials = {1, 2}
  MaxInFlight = 2
  None = None
INVARIANTS
  SlotsAreInOrder
  
  DeliveredIsCurrent
 
\* When nothing is in flight and nobody touches the view, nothing happens.
CHECK_DEADLOCK FALSE
