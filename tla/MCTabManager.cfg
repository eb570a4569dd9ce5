\* Three files, one of them with a comma in its name, and a short stack.
SPECIFICATION Spec
CONSTANTS
  Locations = {a, b, c}
  WithComma = {c}
  MaxTabs = 4
  EV_TAB_MANAGER_REOPEN_STACK_MAX = 2
  None = None
INVARIANT TabsAreInStep
PROPERTIES
  ImplementsTabStrip
  TitleGoesStaleOnlyByClosing
  OwnershipIsLostOnlyByReopening
  
\* When the bound on tabs is reached and all are closed, nothing is left to do.
CHECK_DEADLOCK FALSE
