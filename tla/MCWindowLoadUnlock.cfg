\* A locked file, and a password dialog that is opened once more.
SPECIFICATION Spec
CONSTANTS
  Files <- Secret
  Passwords = {right, wrong}
  Right = right
  MaxVersion = 1
  MaxJobs = 1
  MaxBusy = 2
  None = None
INVARIANT UnlockHasALoadJob
\* When nobody asks for anything, nothing happens.
CHECK_DEADLOCK FALSE
