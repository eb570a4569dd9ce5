----------------------------- MODULE ViewPages -----------------------------
(***************************************************************************)
(* PageCache under names that PixbufCache leaves free: a view has both     *)
(* caches, and CacheProofs reasons about both.  TLC checks the page cache  *)
(* under these names too.                                                  *)
(***************************************************************************)
CONSTANTS
    PageCount,      \* NPages
    HasLinks,
    PagesAround,    \* PAGE_CACHE_NUMBER
    MaxAnnots,
    JobSerials,     \* Serials
    Null            \* None

VARIABLES
    annots, listed, current_page, adding,
    first_page, last_page,  \* start_page and end_page
    page_list, job,
    queued,                 \* waiting
    reading,                \* running
    reports, misdirected

PC == INSTANCE PageCache WITH
        NPages <- PageCount, PAGE_CACHE_NUMBER <- PagesAround,
        Serials <- JobSerials, None <- Null,
        start_page <- first_page, end_page <- last_page,
        waiting <- queued, running <- reading

ASSUME PagesAssumption == PC!ParametersAssumption

PagesSpec == PC!Spec

\* With both threads scheduled.
FairPagesSpec == PC!FairSpec

\* Only the job that a page holds can still report, see PageCache.
ReportsAreOfHeldJobs == PC!ReportsAreOfHeldJobs

\* What the cache takes for good is what the document has, see PageCache.
CachedIsCurrent == PC!CachedIsCurrent

\* Once the user leaves the view alone, the range is read, see PageCache.
RangeIsRead == PC!RangeIsRead

=============================================================================
