\* A list of at most four links, so that pruning, truncating and walking meet.
SPECIFICATION Spec
CONSTANTS
  d1 = d1
  d2 = d2
  toc = toc
  xref = xref
  broken = broken
  Documents = {d1, d2}
  NPages <- MCNPages
  Named = {toc, xref, broken}
  Dest <- MCDest
  Untitled = {xref}
  EV_HISTORY_MAX_LENGTH = 4
  None = None
INVARIANTS
  ListIsBounded
  CurrentShowsThePage
PROPERTIES
  WalkingKeepsTheList
  GoesToTheLink
