\* A print job that is pushed twice and a find job, over two priorities.
SPECIFICATION FairSpec
CONSTANTS
  ThreadJobs = {print}
  LoopJobs = {find}
  Reusable = {print}
  NPriorities = 2
  MaxPush = 2
  LoopSteps = 2
  None = None
INVARIANTS
  
  NeverSleepsOnWork
  
PROPERTIES
  ImplementsWorkQueue
  EveryEntryIsFreed
  UncancelledIsReported
\* When every job has been pushed and reported, both threads are at rest.
CHECK_DEADLOCK FALSE
