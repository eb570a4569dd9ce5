\* A print job that is cancelled while the worker stores its outcome.
SPECIFICATION Spec
CONSTANTS
  ThreadJobs = {print}
  LoopJobs = {find}
  Reusable = {print}
  NPriorities = 2
  MaxPush = 2
  LoopSteps = 2
  None = None
INVARIANT NoFinishedAfterCancelled
\* When every job has been pushed and reported, both threads are at rest.
CHECK_DEADLOCK FALSE
