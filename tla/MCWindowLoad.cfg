\* A native file, a locked one and a remote one, with every order of requests,
\* answers and edits.
SPECIFICATION FairSpec
CONSTANTS
  Files <- Each
  Passwords = {right, wrong}
  Right = right
  MaxVersion = 2
  MaxJobs = 3
  MaxBusy = 2
  None = None
INVARIANTS
  JobsAreInHand
  TheLoadWaitsForItsCopy
PROPERTIES
  UnreadIsShownOnlyByASecondUnlock
  HeardWritesAreShown
  LoadsAreAnswered
\* When nobody asks for anything, nothing happens.
CHECK_DEADLOCK FALSE
