\* The window is closed while it prints.
SPECIFICATION FairSpec
CONSTANTS
  Ops = {o1, o2}
  NPages = 3
  None = None
PROPERTY ClosingEnds
\* When everything is printed, nothing happens.
CHECK_DEADLOCK FALSE
