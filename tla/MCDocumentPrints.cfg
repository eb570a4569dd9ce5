\* Three operations of two windows on one document; the first one with every
\* combination of the settings.
SPECIFICATION FairExportsSpec
CONSTANTS
  Exports = {1, 2, 3}
  Windows = {"a", "b"}
  WindowOf <- MCWindowOf
  PageCount = 3
  Plans <- MCPlans
  Null = Null
INVARIANTS
  OwnPagesAreAsAsked
  FilesAreInOrder
PROPERTIES
  EndsAgainOnlyFromThePrinter
  
\* When everything is printed, nothing happens.
CHECK_DEADLOCK FALSE
