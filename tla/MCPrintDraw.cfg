\* Two operations of three pages in one window.
SPECIFICATION FairSpec
CONSTANTS
  Ops = {o1, o2}
  NPages = 3
  None = None
INVARIANTS
  
  PrintedPagesAreThePages
PROPERTIES
  NothingIsFinishedWhileDrawn
  PrintsEnd
\* When everything is printed, nothing happens.
CHECK_DEADLOCK FALSE
