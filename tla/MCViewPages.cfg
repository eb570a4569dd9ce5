\* Two pages, one of them or both in sight; annotations come and go while jobs
\* are queued, running, cancelled and about to report.  No page is added to
\* those in sight, so that pages do leave the range.
SPECIFICATION FairPagesSpec
CONSTANTS
  PageCount = 2
  HasLinks = {0}
  PagesAround = 0
  MaxAnnots = 2
  JobSerials = {1, 2}
  Null = Null

  
  
PROPERTY RangeIsRead
\* When everything is read and nobody touches the view, nothing happens.
CHECK_DEADLOCK FALSE
