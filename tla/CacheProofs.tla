---------------------------- MODULE CacheProofs ----------------------------
(***************************************************************************)
(* Machine-checked proofs about the two caches that a view keeps of its    *)
(* document, PixbufCache and PageCache: for every number of pages, every   *)
(* set of scales and sizes, every number of annotations and every bound on *)
(* jobs and edits.  PageCache comes second, under the names ViewPages      *)
(* gives to it.                                                            *)
(***************************************************************************)
EXTENDS PixbufCache, ViewPages, SequenceLemmas, TLAPS

-----------------------------------------------------------------------------
(* The window of pages *)

\* s to e, with pre pages preloaded on both sides, is a window of pages.
IsWindow(s, e, pre) == s \in Page /\ e \in Page /\ s <= e /\ pre \in Nat

\* find_job_cache finds a slot for every page in range, and it is that page's.
LEMMA SlotOfIsSlot ==
    ASSUME NEW s, NEW e, NEW pre, IsWindow(s, e, pre),
           NEW page \in Page, InRange(page, s, e, pre)
    PROVE  /\ SlotOf(page, s, e, pre) \in Slots(s, e, pre)
           /\ PageOf(SlotOf(page, s, e, pre), s, e, pre) = page
<1> USE ParametersAssumption DEF IsWindow, InRange, Page
<1>1. CASE page < s
  <2>1. SlotOf(page, s, e, pre) = <<"prev_job", page - (s - pre)>>
    BY <1>1 DEF SlotOf
  <2>2. page - (s - pre) \in 0 .. pre - 1
    BY <1>1
  <2> QED BY <2>1, <2>2 DEF Slots, PageOf
<1>2. CASE page > e
  <2>1. SlotOf(page, s, e, pre) = <<"next_job", page - (e + 1)>>
    BY <1>2 DEF SlotOf
  <2>2. page - (e + 1) \in 0 .. pre - 1
    BY <1>2
  <2> QED BY <2>1, <2>2 DEF Slots, PageOf
<1>3. CASE ~ (page < s) /\ ~ (page > e)
  <2>1. SlotOf(page, s, e, pre) = <<"job_list", page - s>>
    BY <1>3 DEF SlotOf
  <2>2. page - s \in 0 .. e - s /\ s >= 0
    BY <1>3
  <2> QED BY <2>1, <2>2 DEF Slots, PageOf
<1> QED BY <1>1, <1>2, <1>3

\* Different slots stand for different pages, all of them in range.
LEMMA SlotIsOfItsPage ==
    ASSUME NEW s, NEW e, NEW pre, IsWindow(s, e, pre), NEW slot \in Slots(s, e, pre)
    PROVE  /\ PageOf(slot, s, e, pre) \in Int
           /\ InRange(PageOf(slot, s, e, pre), s, e, pre)
           /\ SlotOf(PageOf(slot, s, e, pre), s, e, pre) = slot
           /\ slot[1] = "job_list" => PageOf(slot, s, e, pre) \in Page
           /\ PriorityOf(slot) \in {URGENT, LOW}
           /\ slot[1] = "job_list" => PriorityOf(slot) = URGENT
<1> USE ParametersAssumption DEF IsWindow, InRange, Page
<1>0. PriorityOf(slot) \in {URGENT, LOW} /\ (slot[1] = "job_list" => PriorityOf(slot) = URGENT)
  BY DEF PriorityOf
<1>1. ASSUME NEW i \in 0 .. pre - 1, slot = <<"prev_job", i>>
      PROVE  /\ PageOf(slot, s, e, pre) = s - pre + i
             /\ SlotOf(s - pre + i, s, e, pre) = <<"prev_job", i>>
             /\ slot[1] # "job_list"
  BY <1>1 DEF PageOf, SlotOf
<1>2. ASSUME NEW i \in 0 .. e - s, slot = <<"job_list", i>>
      PROVE  /\ PageOf(slot, s, e, pre) = s + i
             /\ SlotOf(s + i, s, e, pre) = <<"job_list", i>>
  BY <1>2 DEF PageOf, SlotOf
<1>3. ASSUME NEW i \in 0 .. pre - 1, slot = <<"next_job", i>>
      PROVE  /\ PageOf(slot, s, e, pre) = e + 1 + i
             /\ SlotOf(e + 1 + i, s, e, pre) = <<"next_job", i>>
             /\ slot[1] # "job_list"
  BY <1>3 DEF PageOf, SlotOf
<1>4. \/ \E i \in 0 .. pre - 1 : slot = <<"prev_job", i>>
      \/ \E i \in 0 .. e - s : slot = <<"job_list", i>>
      \/ \E i \in 0 .. pre - 1 : slot = <<"next_job", i>>
  BY DEF Slots
<1> QED BY <1>0, <1>1, <1>2, <1>3, <1>4

\* Without a window there are no slots.
LEMMA NoSlots == Slots(-1, -1, 0) = {}
BY DEF Slots

-----------------------------------------------------------------------------
(* The inductive invariant *)

\* There are slots only in a window, and a window always has slots.
WindowIsThere ==
    /\ start_page = -1 => cache = <<>> /\ end_page = -1 /\ preload_cache_size = 0
    /\ start_page # -1 => /\ cache # <<>>
                          /\ IsWindow(start_page, end_page, preload_cache_size)

\* Only jobs in flight are cancelled, and what is rendered is the running job.
FlightIsInOrder ==
    /\ cancelled \subseteq InFlight
    /\ rendered # None => running # None

\* After a range update no slot has a job of another scale.
JobsAreOfTheScale ==
    asked => \A slot \in DOMAIN cache :
                cache[slot].job # None => cache[slot].job.scale = scale

IInv ==
    /\ TypeOK
    /\ SlotHoldsItsPage
    /\ HeardJobsAreInSlots
    /\ WindowIsThere
    /\ FlightIsInOrder
    /\ DeliveredIsCurrent
    /\ JobsAreOfTheScale
    /\ WindowIsCovered

\* IInv holds of a new cache.
LEMMA InitIInv == Init => IInv
<1> SUFFICES ASSUME Init PROVE IInv
  OBVIOUS
<1> USE ParametersAssumption DEF Init
<1>1. DOMAIN cache = {} /\ DOMAIN waiting = {} /\ DOMAIN finished = {}
  OBVIOUS
<1>2. cache \in [Slots(start_page, end_page, preload_cache_size) -> CacheJobInfo]
  <2>1. Slots(start_page, end_page, preload_cache_size) = {}
    BY NoSlots
  <2> QED BY <1>1, <2>1
<1>3. JobsIn(cache) = {} /\ InFlight = {}
  BY <1>1 DEF JobsIn, InFlight
<1>4. TypeOK
  <2>1. /\ start_page \in Page \cup {-1} /\ end_page \in Page \cup {-1}
        /\ preload_cache_size \in 0 .. MAX_PRELOADED_PAGES
        /\ max_size \in MaxSizes /\ scale \in Scales /\ seen \in SUBSET Page
    OBVIOUS
  <2>4. asked \in BOOLEAN
    OBVIOUS
  <2>2. content \in [Page -> Nat]
    OBVIOUS
  <2>3. running = None /\ rendered = None /\ cancelled = {} /\ connected = {}
    OBVIOUS
  <2> HIDE DEF Init
  <2> QED BY <1>1, <1>2, <2>1, <2>2, <2>3, <2>4 DEF TypeOK
<1>5. SlotHoldsItsPage /\ WindowIsThere /\ JobsAreOfTheScale /\ WindowIsCovered
  BY <1>1 DEF SlotHoldsItsPage, WindowIsThere, JobsAreOfTheScale, WindowIsCovered
<1>6. HeardJobsAreInSlots /\ FlightIsInOrder /\ DeliveredIsCurrent
  BY <1>1, <1>3 DEF HeardJobsAreInSlots, FlightIsInOrder, DeliveredIsCurrent
<1> QED BY <1>4, <1>5, <1>6 DEF IInv

-----------------------------------------------------------------------------
(* Jobs *)

\* The entries of the scheduler.
Entry == [queue : {URGENT, LOW}, priority : {URGENT, LOW}]

\* A new job is for its page, at the scale of the view, and not in flight.
LEMMA NewJobIsNew ==
    ASSUME NEW page \in Page, scale \in Scales, CanAllocate(page)
    PROVE  /\ NewJob(page) \in Job \ InFlight
           /\ NewJob(page).page = page
           /\ NewJob(page).scale = scale
<1> DEFINE n == CHOOSE n \in Serials :
                    [page |-> page, scale |-> scale, serial |-> n] \notin InFlight
<1>1. n \in Serials /\ [page |-> page, scale |-> scale, serial |-> n] \notin InFlight
  BY DEF CanAllocate
<1>2. NewJob(page) = [page |-> page, scale |-> scale, serial |-> n]
  BY DEF NewJob
<1> HIDE DEF n
<1> QED BY <1>1, <1>2 DEF Job

\* Dropping some of the jobs that are heard and pushing new ones: those that are
\* heard afterwards are in flight and not cancelled, and those of them that the
\* worker has taken were heard before.
LEMMA UpdateJobsKeepsFlight ==
    ASSUME TypeOK, connected \subseteq InFlight, connected \cap cancelled = {},
           FlightIsInOrder,
           NEW w, DOMAIN w = DOMAIN waiting, \A j \in DOMAIN w : w[j] \in Entry,
           NEW dropped \in SUBSET connected,
           NEW new, DOMAIN new \subseteq Job \ InFlight,
           \A j \in DOMAIN new : new[j] \in {URGENT, LOW},
           UpdateJobs(w, dropped, new)
    PROVE  /\ UNCHANGED <<running, rendered, finished>>
           /\ DOMAIN waiting' \subseteq Job
           /\ \A j \in DOMAIN waiting' : waiting'[j] \in Entry
           /\ connected' = (connected \ dropped) \cup DOMAIN new
           /\ connected' \subseteq InFlight'
           /\ connected' \subseteq Job
           /\ connected' \cap cancelled' = {}
           /\ cancelled' \subseteq Job
           /\ FlightIsInOrder'
           /\ \A j \in connected' :
                 j \in DOMAIN finished \/ j = running => j \in connected \ dropped
<1>1. /\ UNCHANGED <<running, rendered, finished>>
      /\ waiting' = Pushed(Dequeued(w, dropped), new)
      /\ connected' = (connected \ dropped) \cup DOMAIN new
      /\ cancelled' = (cancelled \cup dropped) \cap InFlight'
  BY DEF UpdateJobs, workerVars
<1>2. /\ DOMAIN Dequeued(w, dropped) \subseteq DOMAIN w
      /\ DOMAIN w \ dropped \subseteq DOMAIN Dequeued(w, dropped)
      /\ \A j \in DOMAIN Dequeued(w, dropped) : Dequeued(w, dropped)[j] = w[j]
  BY DEF Dequeued, Restrict
<1>3. /\ DOMAIN waiting' = DOMAIN Dequeued(w, dropped) \cup DOMAIN new
      /\ \A j \in DOMAIN waiting' : waiting'[j] \in Entry
  <2> DEFINE d == Dequeued(w, dropped)
  <2> HIDE DEF d
  <2>1. waiting' = [j \in DOMAIN d \cup DOMAIN new |->
                      IF j \in DOMAIN new THEN [queue |-> new[j], priority |-> new[j]]
                      ELSE d[j]]
    BY <1>1 DEF Pushed, d
  <2>2. \A j \in DOMAIN d : d[j] \in Entry
    BY <1>2 DEF d
  <2> QED BY <2>1, <2>2 DEF Entry, d
<1>4. /\ DOMAIN waiting' \subseteq Job
      /\ DOMAIN waiting \ dropped \subseteq DOMAIN waiting'
      /\ DOMAIN new \subseteq DOMAIN waiting'
  BY <1>2, <1>3 DEF TypeOK
<1>5. InFlight' = DOMAIN waiting' \cup DOMAIN finished \cup ({running} \ {None})
  BY <1>1 DEF InFlight
<1>6. InFlight = DOMAIN waiting \cup DOMAIN finished \cup ({running} \ {None})
  BY DEF InFlight
<1>7. connected' \subseteq InFlight' /\ connected' \subseteq Job
  BY <1>1, <1>4, <1>5, <1>6 DEF TypeOK
<1>8. connected' \cap cancelled' = {}
  BY <1>1 DEF FlightIsInOrder
<1>9. cancelled' \subseteq Job /\ cancelled' \subseteq InFlight'
  BY <1>1 DEF TypeOK
<1>10. FlightIsInOrder'
  BY <1>1, <1>9 DEF FlightIsInOrder
<1>11. \A j \in connected' :
          j \in DOMAIN finished \/ j = running => j \in connected \ dropped
  BY <1>1, <1>6, NoneAssumption
<1> QED BY <1>1, <1>3, <1>4, <1>7, <1>8, <1>9, <1>10, <1>11

\* Jobs that move between the window and the preloaded pages stay queued.
LEMMA RequeuedIsTyped ==
    ASSUME \A j \in DOMAIN waiting : waiting[j] \in Entry,
           NEW new, \A j \in DOMAIN new : new[j] \in {URGENT, LOW}
    PROVE  /\ DOMAIN Requeued(new) = DOMAIN waiting
           /\ \A j \in DOMAIN Requeued(new) : Requeued(new)[j] \in Entry
BY DEF Requeued, Entry

-----------------------------------------------------------------------------
(* The arrays *)

\* What is in a slot of c belongs to the page the slot stands for.
Fits(c, s, e, pre) ==
    \A slot \in DOMAIN c :
        \A item \in {c[slot].job, c[slot].surface} \ {None} :
            item.page = PageOf(slot, s, e, pre) /\ PageOf(slot, s, e, pre) \in Page

\* move_one_job takes the kept slots to the slots of the same pages.
LEMMA MovedFits ==
    ASSUME TypeOK, SlotHoldsItsPage, WindowIsThere,
           NEW s, NEW e, NEW pre, IsWindow(s, e, pre)
    PROVE  /\ Moved(s, e, pre) \in [Slots(s, e, pre) -> CacheJobInfo]
           /\ Fits(Moved(s, e, pre), s, e, pre)
           /\ JobsIn(Moved(s, e, pre)) \subseteq JobsIn(cache)
<1> DEFINE from(target) == {slot \in Kept(s, e, pre) : TargetOf(slot, s, e, pre) = target}
           c == Moved(s, e, pre)
<1>1. /\ DOMAIN c = Slots(s, e, pre)
      /\ \A target \in Slots(s, e, pre) :
            \/ c[target] = EmptySlot
            \/ \E slot \in from(target) : c[target] = cache[slot]
  BY DEF Moved
<1>2. ASSUME NEW target \in Slots(s, e, pre), NEW slot \in from(target)
      PROVE  /\ slot \in DOMAIN cache /\ cache[slot] \in CacheJobInfo
             /\ CurrentPageOf(slot) \in Page
             /\ PageOf(target, s, e, pre) = CurrentPageOf(slot)
  <2>1. /\ slot \in DOMAIN cache /\ CurrentPageOf(slot) \in Page
        /\ InRange(CurrentPageOf(slot), s, e, pre)
        /\ SlotOf(CurrentPageOf(slot), s, e, pre) = target
    BY DEF Kept, TargetOf
  <2>2. PageOf(target, s, e, pre) = CurrentPageOf(slot)
    BY <2>1, SlotOfIsSlot
  <2> QED BY <2>1, <2>2 DEF TypeOK
<1> HIDE DEF from, c
<1>3. EmptySlot \in CacheJobInfo /\ EmptySlot.job = None /\ EmptySlot.surface = None
  BY DEF EmptySlot, CacheJobInfo
<1>4. c \in [Slots(s, e, pre) -> CacheJobInfo]
  <2>1. \A target \in Slots(s, e, pre) : c[target] \in CacheJobInfo
    BY <1>1, <1>2, <1>3
  <2>2. c = [target \in DOMAIN c |-> c[target]]
    BY DEF c, Moved
  <2> QED BY <1>1, <2>1, <2>2
<1>5. Fits(c, s, e, pre)
  BY <1>1, <1>2, <1>3 DEF Fits, SlotHoldsItsPage
<1>6. JobsIn(c) \subseteq JobsIn(cache)
  BY <1>1, <1>2, <1>3 DEF JobsIn
<1> QED BY <1>4, <1>5, <1>6 DEF c

\* check_job_size_and_unref leaves the jobs of the right size.
LEMMA ClearJobSizesFits ==
    ASSUME NEW s, NEW e, NEW pre,
           NEW c \in [Slots(s, e, pre) -> CacheJobInfo], Fits(c, s, e, pre)
    PROVE  /\ ClearJobSizes(c) \in [Slots(s, e, pre) -> CacheJobInfo]
           /\ Fits(ClearJobSizes(c), s, e, pre)
           /\ JobsIn(ClearJobSizes(c)) \subseteq JobsIn(c)
           /\ \A slot \in Slots(s, e, pre) :
                 ClearJobSizes(c)[slot].job # None =>
                    ClearJobSizes(c)[slot].job.scale = scale
<1> DEFINE d == ClearJobSizes(c)
<1>1. /\ d = [slot \in Slots(s, e, pre) |->
                IF HasWrongSize(c[slot]) THEN [c[slot] EXCEPT !.job = None] ELSE c[slot]]
      /\ DOMAIN d = Slots(s, e, pre) /\ DOMAIN c = Slots(s, e, pre)
  BY DEF ClearJobSizes
<1> HIDE DEF d
<1>2. ASSUME NEW slot \in Slots(s, e, pre)
      PROVE  /\ d[slot] \in CacheJobInfo
             /\ d[slot].surface = c[slot].surface
             /\ d[slot].job = None \/ d[slot].job = c[slot].job
             /\ d[slot].job # None => d[slot].job.scale = scale
  <2>1. c[slot] \in CacheJobInfo
    OBVIOUS
  <2>2. CASE HasWrongSize(c[slot])
    <3>1. d[slot] = [c[slot] EXCEPT !.job = None]
      BY <1>1, <2>2
    <3> QED BY <2>1, <3>1 DEF CacheJobInfo
  <2>3. CASE ~ HasWrongSize(c[slot])
    <3>1. d[slot] = c[slot]
      BY <1>1, <2>3
    <3> QED BY <2>1, <2>3, <3>1 DEF HasWrongSize
  <2> QED BY <2>2, <2>3
<1>3. d \in [Slots(s, e, pre) -> CacheJobInfo]
  BY <1>1, <1>2
<1>4. Fits(d, s, e, pre)
  BY <1>1, <1>2 DEF Fits
<1>5. JobsIn(d) \subseteq JobsIn(c)
  BY <1>1, <1>2 DEF JobsIn
<1> QED BY <1>2, <1>3, <1>4, <1>5 DEF d

\* add_jobs_if_needed gives a new job to each slot of the document that has
\* neither a job nor a surface of the right size.
LEMMA AddJobsFits ==
    ASSUME NEW s, NEW e, NEW pre, IsWindow(s, e, pre), scale \in Scales,
           NEW c \in [Slots(s, e, pre) -> CacheJobInfo], Fits(c, s, e, pre),
           NEW toRender, toRender = SlotsToRender(c, s, e, pre),
           \A slot \in toRender : CanAllocate(PageOf(slot, s, e, pre))
    PROVE  LET d == AddJobs(c, toRender, s, e, pre)
               pushed == {d[slot].job : slot \in toRender}
           IN  /\ d \in [Slots(s, e, pre) -> CacheJobInfo]
               /\ Fits(d, s, e, pre)
               /\ pushed \subseteq Job \ InFlight
               /\ JobsIn(d) = JobsIn(c) \cup pushed
               /\ \A slot \in toRender : d[slot].job # None /\ d[slot].job.scale = scale
               /\ \A slot \in Slots(s, e, pre) \ toRender : d[slot] = c[slot]
<1> DEFINE d == AddJobs(c, toRender, s, e, pre)
           pushed == {d[slot].job : slot \in toRender}
<1>1. /\ DOMAIN c = Slots(s, e, pre) /\ toRender \subseteq Slots(s, e, pre)
      /\ \A slot \in toRender : PageOf(slot, s, e, pre) \in Page /\ c[slot].job = None
  BY DEF SlotsToRender, NeedsJob
<1>2. ASSUME NEW slot \in toRender
      PROVE  /\ NewJob(PageOf(slot, s, e, pre)) \in Job \ InFlight
             /\ NewJob(PageOf(slot, s, e, pre)).page = PageOf(slot, s, e, pre)
             /\ NewJob(PageOf(slot, s, e, pre)).scale = scale
  BY <1>1, NewJobIsNew
<1>3. /\ DOMAIN d = Slots(s, e, pre)
      /\ d = [slot \in Slots(s, e, pre) |-> d[slot]]
      /\ \A slot \in Slots(s, e, pre) \ toRender : d[slot] = c[slot]
      /\ \A slot \in toRender :
            d[slot] = [job |-> NewJob(PageOf(slot, s, e, pre)),
                       surface |-> IF PriorityOf(slot) = LOW THEN None
                                   ELSE c[slot].surface]
  BY <1>1 DEF AddJobs
<1> HIDE DEF d
<1>4. ASSUME NEW slot \in toRender
      PROVE  /\ d[slot] \in CacheJobInfo
             /\ d[slot].job = NewJob(PageOf(slot, s, e, pre))
             /\ d[slot].surface \in {None, c[slot].surface}
  <2>1. c[slot].surface \in Surface \cup {None}
    BY <1>1 DEF CacheJobInfo
  <2>2. PICK surface \in {None, c[slot].surface} :
          d[slot] = [job |-> NewJob(PageOf(slot, s, e, pre)), surface |-> surface]
    BY <1>3
  <2> QED BY <1>2, <2>1, <2>2 DEF CacheJobInfo
<1>5. \A slot \in toRender : d[slot].job # None /\ d[slot].job.scale = scale
  BY <1>2, <1>4, NoneAssumption
<1>6. d \in [Slots(s, e, pre) -> CacheJobInfo]
  <2>1. \A slot \in Slots(s, e, pre) : d[slot] \in CacheJobInfo
    BY <1>3, <1>4
  <2> QED BY <1>3, <2>1
<1>7. Fits(d, s, e, pre)
  <2> SUFFICES ASSUME NEW slot \in Slots(s, e, pre),
                      NEW item \in {d[slot].job, d[slot].surface} \ {None}
               PROVE  item.page = PageOf(slot, s, e, pre) /\ PageOf(slot, s, e, pre) \in Page
    BY <1>3 DEF Fits
  <2>1. CASE slot \in toRender
    BY <1>1, <1>2, <1>4, <2>1 DEF Fits
  <2>2. CASE slot \notin toRender
    BY <1>1, <1>3, <2>2 DEF Fits
  <2> QED BY <2>1, <2>2
<1>8. pushed \subseteq Job \ InFlight
  BY <1>2, <1>4
<1>9. JobsIn(d) = JobsIn(c) \cup pushed
  BY <1>1, <1>3, <1>5 DEF JobsIn
<1> QED BY <1>3, <1>5, <1>6, <1>7, <1>8, <1>9 DEF d

-----------------------------------------------------------------------------
(* The steps of the view *)

\* The parts of IInv that every step has to establish anew for its slots.
LEMMA SlotsOfTheNextState ==
    ASSUME NEW s, NEW e, NEW pre, IsWindow(s, e, pre), pre \in 0 .. MAX_PRELOADED_PAGES,
           start_page' = s, end_page' = e, preload_cache_size' = pre,
           NEW c \in [Slots(s, e, pre) -> CacheJobInfo], cache' = c, Fits(c, s, e, pre)
    PROVE  /\ start_page' \in Page \cup {-1} /\ end_page' \in Page \cup {-1}
           /\ preload_cache_size' \in 0 .. MAX_PRELOADED_PAGES
           /\ cache' \in [Slots(start_page', end_page', preload_cache_size') -> CacheJobInfo]
           /\ SlotHoldsItsPage'
           /\ WindowIsThere'
<1>1. s \in Page /\ s # -1
  BY ParametersAssumption DEF IsWindow, Page
<1>2. c # <<>>
  <2>1. <<"job_list", 0>> \in Slots(s, e, pre)
    BY <1>1, ParametersAssumption DEF IsWindow, Slots, Page
  <2>2. DOMAIN c # {}
    BY <2>1
  <2> QED BY <2>2
<1>3. SlotHoldsItsPage'
  BY DEF SlotHoldsItsPage, CurrentPageOf, Fits
<1>4. WindowIsThere'
  BY <1>1, <1>2 DEF WindowIsThere
<1> QED BY <1>1, <1>3, <1>4 DEF IsWindow

\* The slots and jobs of the window now.
LEMMA SlotsOfThisState ==
    ASSUME IInv, cache # <<>>
    PROVE  /\ IsWindow(start_page, end_page, preload_cache_size)
           /\ preload_cache_size \in 0 .. MAX_PRELOADED_PAGES
           /\ cache \in [Slots(start_page, end_page, preload_cache_size) -> CacheJobInfo]
           /\ Fits(cache, start_page, end_page, preload_cache_size)
BY DEF IInv, TypeOK, WindowIsThere, SlotHoldsItsPage, CurrentPageOf, Fits

\* ev_pixbuf_cache_set_page_range.
LEMMA SetPageRangeKeepsIInv ==
    ASSUME IInv, NEW s, NEW e, NEW pre \in 0 .. MAX_PRELOADED_PAGES,
           IsWindow(s, e, pre), SetPageRange(s, e, pre),
           asked' = TRUE, seen' \in SUBSET Page, UNCHANGED <<max_size, scale, content>>
    PROVE  IInv'
<1> DEFINE same == s = start_page /\ e = end_page /\ pre = preload_cache_size
           moved == IF same THEN cache ELSE Moved(s, e, pre)
           sized == ClearJobSizes(moved)
           toRender == SlotsToRender(sized, s, e, pre)
           new == AddJobs(sized, toRender, s, e, pre)
           pushed == {new[slot].job : slot \in toRender}
           dropped == JobsIn(cache) \ JobsIn(sized)
           requeued == Requeued(NewPriorities(s, e, pre))
           priorities == [j \in pushed |->
                            IF s <= j.page /\ j.page <= e THEN URGENT ELSE LOW]
<1>1. /\ \A slot \in toRender : CanAllocate(PageOf(slot, s, e, pre))
      /\ start_page' = s /\ end_page' = e /\ preload_cache_size' = pre
      /\ cache' = new
      /\ UpdateJobs(requeued, dropped, priorities)
  BY DEF SetPageRange
<1>2. /\ TypeOK /\ SlotHoldsItsPage /\ WindowIsThere /\ FlightIsInOrder /\ scale \in Scales
      /\ connected = JobsIn(cache) /\ connected \subseteq InFlight
      /\ connected \cap cancelled = {} /\ connected \subseteq Job
      /\ \A j \in DOMAIN waiting : waiting[j] \in Entry
  BY DEF IInv, HeardJobsAreInSlots, TypeOK, Entry
<1>3. /\ moved \in [Slots(s, e, pre) -> CacheJobInfo]
      /\ Fits(moved, s, e, pre)
      /\ JobsIn(moved) \subseteq JobsIn(cache)
  <2>1. CASE same
    BY <1>2, <2>1 DEF TypeOK, SlotHoldsItsPage, CurrentPageOf, Fits
  <2>2. CASE ~ same
    BY <1>2, <2>2, MovedFits
  <2> QED BY <2>1, <2>2
<1> HIDE DEF moved
<1>4. /\ sized \in [Slots(s, e, pre) -> CacheJobInfo]
      /\ Fits(sized, s, e, pre)
      /\ JobsIn(sized) \subseteq JobsIn(cache)
      /\ \A slot \in Slots(s, e, pre) :
            sized[slot].job # None => sized[slot].job.scale = scale
  BY <1>3, ClearJobSizesFits
<1> HIDE DEF sized
<1>5. \A slot \in Slots(s, e, pre) \ toRender :
         PageOf(slot, s, e, pre) \in Page => ~ NeedsJob(sized[slot])
  BY <1>4 DEF SlotsToRender
<1>6. toRender = SlotsToRender(sized, s, e, pre)
  OBVIOUS
<1> HIDE DEF toRender
<1>7. /\ new \in [Slots(s, e, pre) -> CacheJobInfo]
      /\ Fits(new, s, e, pre)
      /\ pushed \subseteq Job \ InFlight
      /\ JobsIn(new) = JobsIn(sized) \cup pushed
      /\ \A slot \in toRender : new[slot].job # None /\ new[slot].job.scale = scale
      /\ \A slot \in Slots(s, e, pre) \ toRender : new[slot] = sized[slot]
  BY <1>1, <1>2, <1>4, <1>6, AddJobsFits
<1> HIDE DEF new, pushed
<1>8. DOMAIN priorities = pushed /\ \A j \in DOMAIN priorities : priorities[j] \in {URGENT, LOW}
  OBVIOUS
<1>9. DOMAIN requeued = DOMAIN waiting /\ \A j \in DOMAIN requeued : requeued[j] \in Entry
  <2> DEFINE np == NewPriorities(s, e, pre)
  <2>1. \A j \in DOMAIN np : np[j] \in {URGENT, LOW}
    BY DEF NewPriorities
  <2> HIDE DEF np
  <2>2. DOMAIN Requeued(np) = DOMAIN waiting /\ \A j \in DOMAIN Requeued(np) : Requeued(np)[j] \in Entry
    BY <1>2, <2>1, RequeuedIsTyped
  <2> QED BY <2>2 DEF np
<1> HIDE DEF requeued, priorities
<1>10. dropped \in SUBSET connected
  BY <1>2
<1>11. connected \ dropped = JobsIn(sized)
  BY <1>2, <1>4
<1> HIDE DEF dropped
<1>12. /\ UNCHANGED <<running, rendered, finished>>
       /\ DOMAIN waiting' \subseteq Job
       /\ \A j \in DOMAIN waiting' : waiting'[j] \in Entry
       /\ connected' = (connected \ dropped) \cup pushed
       /\ connected' \subseteq InFlight' /\ connected' \subseteq Job
       /\ connected' \cap cancelled' = {} /\ cancelled' \subseteq Job
       /\ FlightIsInOrder'
       /\ \A j \in connected' :
             j \in DOMAIN finished \/ j = running => j \in connected \ dropped
  BY <1>1, <1>2, <1>7, <1>8, <1>9, <1>10, UpdateJobsKeepsFlight
<1>13. /\ start_page' \in Page \cup {-1} /\ end_page' \in Page \cup {-1}
       /\ preload_cache_size' \in 0 .. MAX_PRELOADED_PAGES
       /\ cache' \in [Slots(start_page', end_page', preload_cache_size') -> CacheJobInfo]
       /\ SlotHoldsItsPage'
       /\ WindowIsThere'
  BY <1>1, <1>7, SlotsOfTheNextState
<1>14. TypeOK'
  BY <1>2, <1>12, <1>13 DEF TypeOK, Entry
<1>15. HeardJobsAreInSlots'
  <2>1. JobsIn(cache)' = JobsIn(new)
    BY <1>1 DEF JobsIn
  <2> QED BY <1>7, <1>11, <1>12, <2>1 DEF HeardJobsAreInSlots
<1>16. DeliveredIsCurrent'
  BY <1>12 DEF IInv, DeliveredIsCurrent
<1>17. \A slot \in Slots(s, e, pre) : new[slot].job # None => new[slot].job.scale = scale
  BY <1>4, <1>7
<1>18. JobsAreOfTheScale'
  BY <1>1, <1>7, <1>17 DEF JobsAreOfTheScale
<1>19. WindowIsCovered'
  <2>1. cache' # <<>>
    <3>1. start_page' # -1
      BY <1>1, ParametersAssumption DEF IsWindow, Page
    <3> QED BY <1>13, <3>1 DEF WindowIsThere
  <2>2. ASSUME NEW slot \in Slots(s, e, pre), slot[1] = "job_list"
        PROVE  \/ new[slot].surface # None /\ new[slot].surface.scale = scale
               \/ new[slot].job # None /\ new[slot].job.scale = scale
    <3>1. CASE slot \in toRender
      BY <1>7, <3>1
    <3>2. CASE slot \notin toRender
      <4>1. PageOf(slot, s, e, pre) \in Page
        BY <2>2, SlotIsOfItsPage
      <4>2. ~ NeedsJob(sized[slot]) /\ new[slot] = sized[slot]
        BY <1>5, <1>7, <3>2, <4>1
      <4> QED BY <1>17, <4>2 DEF NeedsJob
    <3> QED BY <3>1, <3>2
  <2>3. DOMAIN cache' = Slots(s, e, pre)
    BY <1>1, <1>7
  <2> QED BY <1>1, <2>1, <2>2, <2>3 DEF WindowIsCovered, ListSlots, Drawn
<1> QED BY <1>12, <1>13, <1>14, <1>15, <1>16, <1>18, <1>19 DEF IInv

\* The view looks at other pages, or updates the range once more.
LEMMA LookKeepsIInv ==
    ASSUME IInv, NEW first \in Page, NEW last \in first .. NPages - 1, Look(first, last)
    PROVE  IInv'
<1> USE ParametersAssumption DEF Page
<1> DEFINE a == first - PAGE_CACHE_NUMBER
           b == last + PAGE_CACHE_NUMBER
           s == Max({a, 0})
           e == Min({b, NPages - 1})
<1>1. a \in Int /\ b \in Int /\ a <= first /\ last <= b
  OBVIOUS
<1>2. s = IF a >= 0 THEN a ELSE 0
  <2>1. \A m \in {a, 0} : (\A y \in {a, 0} : m >= y) => m = IF a >= 0 THEN a ELSE 0
    BY <1>1
  <2>2. \E m \in {a, 0} : \A y \in {a, 0} : m >= y
    BY <1>1
  <2> HIDE DEF a
  <2> QED BY <2>1, <2>2 DEF Max
<1>3. e = IF b <= NPages - 1 THEN b ELSE NPages - 1
  <2>1. \A m \in {b, NPages - 1} :
           (\A y \in {b, NPages - 1} : m <= y) => m = IF b <= NPages - 1 THEN b ELSE NPages - 1
    BY <1>1
  <2>2. \E m \in {b, NPages - 1} : \A y \in {b, NPages - 1} : m <= y
    BY <1>1
  <2> HIDE DEF b
  <2> QED BY <2>1, <2>2 DEF Min
<1>4. PICK pre \in 0 .. MAX_PRELOADED_PAGES : SetPageRange(s, e, pre)
  BY DEF Look
<1>5. asked' = TRUE /\ seen' = first .. last /\ UNCHANGED <<max_size, scale, content>>
  BY DEF Look
<1> HIDE DEF a, b, s, e
<1>6. IsWindow(s, e, pre)
  BY <1>1, <1>2, <1>3 DEF IsWindow
<1>7. seen' \in SUBSET Page
  BY <1>5
<1> HIDE DEF Page
<1> QED BY <1>4, <1>5, <1>6, <1>7, SetPageRangeKeepsIInv

\* The scale changes; the range is updated later.
LEMMA ZoomKeepsIInv ==
    ASSUME IInv, NEW sc \in Scales, Zoom(sc)
    PROVE  IInv'
<1> USE DEF Zoom, rangeVars, workerVars, jobVars
<1>1. TypeOK'
  BY DEF IInv, TypeOK
<1>2. SlotHoldsItsPage' /\ WindowIsThere'
  BY DEF IInv, SlotHoldsItsPage, CurrentPageOf, WindowIsThere
<1>3. HeardJobsAreInSlots' /\ FlightIsInOrder' /\ DeliveredIsCurrent'
  BY DEF IInv, HeardJobsAreInSlots, JobsIn, InFlight, FlightIsInOrder, DeliveredIsCurrent
<1>4. JobsAreOfTheScale' /\ WindowIsCovered'
  BY DEF JobsAreOfTheScale, WindowIsCovered
<1> QED BY <1>1, <1>2, <1>3, <1>4 DEF IInv

\* When every job is dropped, nobody is heard any more.
LEMMA DroppingAll ==
    ASSUME IInv, UpdateJobs(waiting, JobsIn(cache), <<>>)
    PROVE  /\ UNCHANGED <<running, rendered, finished>>
           /\ DOMAIN waiting' \subseteq Job
           /\ \A j \in DOMAIN waiting' : waiting'[j] \in Entry
           /\ connected' = {}
           /\ cancelled' \subseteq Job
           /\ FlightIsInOrder'
<1> DEFINE none == <<>>
<1>1. DOMAIN none = {}
  OBVIOUS
<1>2. UpdateJobs(waiting, JobsIn(cache), none)
  OBVIOUS
<1> HIDE DEF none
<1>3. /\ TypeOK /\ FlightIsInOrder /\ connected = JobsIn(cache)
      /\ connected \subseteq InFlight /\ connected \cap cancelled = {}
      /\ \A j \in DOMAIN waiting : waiting[j] \in Entry
  BY DEF IInv, HeardJobsAreInSlots, TypeOK, Entry
<1>4. JobsIn(cache) \in SUBSET connected
  BY <1>3
<1>5. DOMAIN none \subseteq Job \ InFlight /\ \A j \in DOMAIN none : none[j] \in {URGENT, LOW}
  BY <1>1
<1>6. /\ UNCHANGED <<running, rendered, finished>>
      /\ DOMAIN waiting' \subseteq Job
      /\ \A j \in DOMAIN waiting' : waiting'[j] \in Entry
      /\ connected' = (connected \ JobsIn(cache)) \cup DOMAIN none
      /\ cancelled' \subseteq Job
      /\ FlightIsInOrder'
  BY <1>2, <1>3, <1>4, <1>5, UpdateJobsKeepsFlight
<1> QED BY <1>1, <1>3, <1>6

\* dispose_cache_job_info for every slot.
LEMMA DropAllKeepsIInv ==
    ASSUME IInv, DropAll, asked' = FALSE, UNCHANGED <<rangeVars, scale, seen>>,
           max_size' \in MaxSizes, content' \in [Page -> Nat]
    PROVE  IInv'
<1> USE DEF rangeVars
<1>1. /\ cache' = [slot \in DOMAIN cache |-> EmptySlot]
      /\ UNCHANGED <<running, rendered, finished>>
      /\ DOMAIN waiting' \subseteq Job
      /\ \A j \in DOMAIN waiting' : waiting'[j] \in Entry
      /\ connected' = {}
      /\ cancelled' \subseteq Job
      /\ FlightIsInOrder'
  BY DroppingAll DEF DropAll
<1>2. EmptySlot \in CacheJobInfo /\ EmptySlot.job = None /\ EmptySlot.surface = None
  BY DEF EmptySlot, CacheJobInfo
<1>3. DOMAIN cache' = DOMAIN cache /\ \A slot \in DOMAIN cache' : cache'[slot] = EmptySlot
  BY <1>1
<1>4. cache' \in [Slots(start_page', end_page', preload_cache_size') -> CacheJobInfo]
  BY <1>1, <1>2 DEF IInv, TypeOK
<1>5. TypeOK'
  BY <1>1, <1>4 DEF IInv, TypeOK, Entry
<1>6. SlotHoldsItsPage' /\ HeardJobsAreInSlots'
  BY <1>1, <1>2, <1>3 DEF SlotHoldsItsPage, HeardJobsAreInSlots, JobsIn
<1>7. WindowIsThere'
  <2>1. CASE cache = <<>>
    <3>1. cache' = <<>>
      BY <1>1, <2>1
    <3> QED BY <2>1, <3>1 DEF IInv, WindowIsThere
  <2>2. CASE cache # <<>>
    <3>1. start_page # -1 /\ IsWindow(start_page, end_page, preload_cache_size)
      BY <2>2 DEF IInv, WindowIsThere
    <3>2. cache \in [Slots(start_page, end_page, preload_cache_size) -> CacheJobInfo]
      BY DEF IInv, TypeOK
    <3>3. <<"job_list", 0>> \in Slots(start_page, end_page, preload_cache_size)
      BY <3>1, ParametersAssumption DEF IsWindow, Slots, Page
    <3>4. cache' # <<>>
      BY <1>3, <3>2, <3>3
    <3> QED BY <3>1, <3>4 DEF WindowIsThere
  <2> QED BY <2>1, <2>2
<1>8. DeliveredIsCurrent' /\ JobsAreOfTheScale' /\ WindowIsCovered'
  BY <1>1 DEF DeliveredIsCurrent, JobsAreOfTheScale, WindowIsCovered
<1> QED BY <1>1, <1>5, <1>6, <1>7, <1>8 DEF IInv

\* An edit counts.
LEMMA EditContentCounts ==
    ASSUME content \in [Page -> Nat], NEW page \in Page, EditContent(page)
    PROVE  /\ content' \in [Page -> Nat]
           /\ \A p \in Page \ {page} : content'[p] = content[p]
<1>1. content' = [content EXCEPT ![page] = @ + 1]
  BY DEF EditContent
<1> QED BY <1>1

LEMMA ClearKeepsIInv == IInv /\ Clear => IInv'
<1> SUFFICES ASSUME IInv, Clear PROVE IInv'
  OBVIOUS
<1>1. content' \in [Page -> Nat] /\ max_size' \in MaxSizes
  BY EditContentCounts DEF Clear, IInv, TypeOK
<1> QED BY <1>1, DropAllKeepsIInv DEF Clear

LEMMA SetMaxSizeKeepsIInv ==
    ASSUME IInv, NEW m \in MaxSizes, SetMaxSize(m)
    PROVE  IInv'
<1>1. CASE max_size > m
  <2>1. DropAll /\ asked' = FALSE /\ max_size' = m /\ UNCHANGED <<rangeVars, scale, seen, content>>
    BY <1>1 DEF SetMaxSize
  <2>2. content' \in [Page -> Nat]
    BY <2>1 DEF IInv, TypeOK
  <2> QED BY <2>1, <2>2, DropAllKeepsIInv
<1>2. CASE ~ (max_size > m)
  <2>1. /\ max_size' = m
        /\ UNCHANGED <<cache, jobVars, workerVars, asked, rangeVars, scale, seen, content>>
    BY <1>2 DEF SetMaxSize
  <2> USE <2>1 DEF rangeVars, workerVars, jobVars
  <2>2. TypeOK'
    BY DEF IInv, TypeOK
  <2>3. SlotHoldsItsPage' /\ WindowIsThere'
    BY DEF IInv, SlotHoldsItsPage, CurrentPageOf, WindowIsThere
  <2>4. HeardJobsAreInSlots' /\ FlightIsInOrder' /\ DeliveredIsCurrent'
    BY DEF IInv, HeardJobsAreInSlots, JobsIn, InFlight, FlightIsInOrder, DeliveredIsCurrent
  <2>5. JobsAreOfTheScale' /\ WindowIsCovered'
    BY DEF IInv, JobsAreOfTheScale, WindowIsCovered, ListSlots, Drawn
  <2> QED BY <2>2, <2>3, <2>4, <2>5 DEF IInv
<1> QED BY <1>1, <1>2

\* The cache of another document.
LEMMA ChangeDocumentKeepsIInv == IInv /\ ChangeDocument => IInv'
<1> SUFFICES ASSUME IInv, ChangeDocument PROVE IInv'
  OBVIOUS
<1>1. /\ start_page' = -1 /\ end_page' = -1 /\ preload_cache_size' = 0
      /\ cache' = <<>> /\ seen' = {} /\ asked' = FALSE
      /\ UNCHANGED <<max_size, scale, content>>
      /\ UpdateJobs(waiting, JobsIn(cache), <<>>)
  BY DEF ChangeDocument
<1>2. /\ UNCHANGED <<running, rendered, finished>>
      /\ DOMAIN waiting' \subseteq Job
      /\ \A j \in DOMAIN waiting' : waiting'[j] \in Entry
      /\ connected' = {}
      /\ cancelled' \subseteq Job
      /\ FlightIsInOrder'
  BY <1>1, DroppingAll
<1>3. DOMAIN cache' = {}
  BY <1>1
<1>4. cache' \in [Slots(start_page', end_page', preload_cache_size') -> CacheJobInfo]
  <2>1. Slots(start_page', end_page', preload_cache_size') = {}
    BY <1>1, NoSlots
  <2> QED BY <1>1, <1>3, <2>1
<1>5. TypeOK'
  <2>1. /\ start_page' = -1 /\ end_page' = -1
        /\ preload_cache_size' \in 0 .. MAX_PRELOADED_PAGES
        /\ seen' \in SUBSET Page
        /\ max_size' = max_size /\ scale' = scale /\ content' = content
    BY <1>1, ParametersAssumption
  <2>2. asked' \in BOOLEAN
    BY <1>1
  <2> QED BY <1>2, <1>4, <2>1, <2>2 DEF IInv, TypeOK, Entry
<1>6. SlotHoldsItsPage' /\ HeardJobsAreInSlots' /\ WindowIsThere'
  BY <1>1, <1>2, <1>3 DEF SlotHoldsItsPage, HeardJobsAreInSlots, JobsIn, WindowIsThere
<1>7. DeliveredIsCurrent' /\ JobsAreOfTheScale' /\ WindowIsCovered'
  BY <1>1, <1>2 DEF DeliveredIsCurrent, JobsAreOfTheScale, WindowIsCovered
<1> QED BY <1>2, <1>5, <1>6, <1>7 DEF IInv

\* A job that is heard is in the slot of its page, and in no other.
LEMMA JobIsInItsSlot ==
    ASSUME IInv, NEW slot \in DOMAIN cache, cache[slot].job # None
    PROVE  LET j == cache[slot].job
           IN  /\ j \in Job /\ j.page \in Page /\ j.page = CurrentPageOf(slot)
               /\ InRange(j.page, start_page, end_page, preload_cache_size)
               /\ SlotOf(j.page, start_page, end_page, preload_cache_size) = slot
               /\ cache # <<>>
<1>1. cache \in [Slots(start_page, end_page, preload_cache_size) -> CacheJobInfo]
  BY DEF IInv, TypeOK
<1>2. slot \in Slots(start_page, end_page, preload_cache_size) /\ cache[slot] \in CacheJobInfo
  BY <1>1
<1>3. cache # <<>>
  OBVIOUS
<1>4. IsWindow(start_page, end_page, preload_cache_size)
  BY <1>3, SlotsOfThisState
<1>5. cache[slot].job \in Job
  BY <1>2 DEF CacheJobInfo
<1>6. cache[slot].job.page = CurrentPageOf(slot) /\ CurrentPageOf(slot) \in Page
  BY DEF IInv, SlotHoldsItsPage
<1>7. /\ InRange(CurrentPageOf(slot), start_page, end_page, preload_cache_size)
      /\ SlotOf(CurrentPageOf(slot), start_page, end_page, preload_cache_size) = slot
  BY <1>2, <1>4, SlotIsOfItsPage DEF CurrentPageOf
<1> QED BY <1>3, <1>5, <1>6, <1>7

\* Filling one slot anew.
LEMMA SlotIsFilled ==
    ASSUME IInv, NEW page \in Page, cache # <<>>,
           InRange(page, start_page, end_page, preload_cache_size),
           NEW slot, slot = SlotOf(page, start_page, end_page, preload_cache_size),
           NEW info \in CacheJobInfo,
           \A item \in {info.job, info.surface} \ {None} : item.page = page,
           cache' = [cache EXCEPT ![slot] = info],
           UNCHANGED rangeVars
    PROVE  /\ slot \in DOMAIN cache /\ cache[slot] \in CacheJobInfo
           /\ start_page' \in Page \cup {-1} /\ end_page' \in Page \cup {-1}
           /\ preload_cache_size' \in 0 .. MAX_PRELOADED_PAGES
           /\ cache' \in [Slots(start_page', end_page', preload_cache_size') -> CacheJobInfo]
           /\ SlotHoldsItsPage'
           /\ WindowIsThere'
           /\ DOMAIN cache' = DOMAIN cache /\ cache'[slot] = info
           /\ \A o \in DOMAIN cache \ {slot} : cache'[o] = cache[o]
           /\ JobsIn(cache') = (JobsIn(cache) \ {cache[slot].job}) \cup ({info.job} \ {None})
           /\ \A j \in JobsIn(cache) \ {cache[slot].job} : j.page # page
<1> DEFINE s == start_page
           e == end_page
           pre == preload_cache_size
<1>1. /\ IsWindow(s, e, pre) /\ pre \in 0 .. MAX_PRELOADED_PAGES
      /\ cache \in [Slots(s, e, pre) -> CacheJobInfo] /\ Fits(cache, s, e, pre)
  BY SlotsOfThisState
<1>2. slot \in Slots(s, e, pre) /\ PageOf(slot, s, e, pre) = page
  BY <1>1, SlotOfIsSlot
<1>3. DOMAIN cache = Slots(s, e, pre) /\ cache[slot] \in CacheJobInfo
  BY <1>1, <1>2
<1>4. PICK c : c = [cache EXCEPT ![slot] = info]
  OBVIOUS
<1>5. /\ c \in [Slots(s, e, pre) -> CacheJobInfo] /\ DOMAIN c = DOMAIN cache
      /\ c[slot] = info /\ \A o \in DOMAIN cache \ {slot} : c[o] = cache[o]
      /\ cache' = c
  BY <1>1, <1>2, <1>3, <1>4
<1>6. Fits(c, s, e, pre)
  BY <1>1, <1>2, <1>5 DEF Fits
<1>7. /\ start_page' = s /\ end_page' = e /\ preload_cache_size' = pre
  BY DEF rangeVars
<1>8. /\ start_page' \in Page \cup {-1} /\ end_page' \in Page \cup {-1}
      /\ preload_cache_size' \in 0 .. MAX_PRELOADED_PAGES
      /\ cache' \in [Slots(start_page', end_page', preload_cache_size') -> CacheJobInfo]
      /\ SlotHoldsItsPage'
      /\ WindowIsThere'
  BY <1>1, <1>5, <1>6, <1>7, SlotsOfTheNextState
<1>9. ASSUME NEW o \in DOMAIN cache \ {slot}, cache[o].job # None
      PROVE  cache[o].job.page # page /\ cache[o].job # cache[slot].job
  <2>1. SlotOf(cache[o].job.page, s, e, pre) = o
    BY <1>9, JobIsInItsSlot
  <2>2. cache[slot].job # None => SlotOf(cache[slot].job.page, s, e, pre) = slot
    BY <1>2, <1>3, JobIsInItsSlot
  <2> QED BY <1>9, <2>1, <2>2
<1>10. JobsIn(c) = (JobsIn(cache) \ {cache[slot].job}) \cup ({info.job} \ {None})
  BY <1>2, <1>3, <1>5, <1>9 DEF JobsIn
<1>11. \A j \in JobsIn(cache) \ {cache[slot].job} : j.page # page
  BY <1>9 DEF JobsIn
<1> QED BY <1>2, <1>3, <1>5, <1>8, <1>10, <1>11

\* A page is edited, and rendered again if the cache has it.
LEMMA EditKeepsIInv ==
    ASSUME IInv, NEW page \in Page, Edit(page)
    PROVE  IInv'
<1>1. /\ EditContent(page)
      /\ UNCHANGED <<rangeVars, max_size, scale, seen, asked>>
  BY DEF Edit
<1>2. content' \in [Page -> Nat] /\ \A p \in Page \ {page} : content'[p] = content[p]
  BY <1>1, EditContentCounts DEF IInv, TypeOK
<1>3. CASE cache # <<>> /\ InRange(page, start_page, end_page, preload_cache_size)
  <2> DEFINE slot == SlotOf(page, start_page, end_page, preload_cache_size)
             fresh_job == NewJob(page)
             info == [cache[slot] EXCEPT !.job = fresh_job]
             new == [j \in {fresh_job} |-> URGENT]
             dropped == {cache[slot].job} \ {None}
  <2>1. CanAllocate(page) /\ ReplaceJob(slot)
    BY <1>3 DEF Edit
  <2>2. slot \in DOMAIN cache /\ cache[slot] \in CacheJobInfo /\ CurrentPageOf(slot) = page
    <3>1. /\ IsWindow(start_page, end_page, preload_cache_size)
          /\ cache \in [Slots(start_page, end_page, preload_cache_size) -> CacheJobInfo]
      BY <1>3, SlotsOfThisState
    <3> QED BY <1>3, <3>1, SlotOfIsSlot DEF CurrentPageOf
  <2>3. fresh_job \in Job \ InFlight /\ fresh_job.page = page /\ fresh_job.scale = scale /\ fresh_job # None
    BY <2>1, NewJobIsNew, NoneAssumption DEF IInv, TypeOK
  <2>4. cache' = [cache EXCEPT ![slot] = info] /\ UpdateJobs(waiting, dropped, new)
    BY <2>1, <2>2 DEF ReplaceJob
  <2>5. /\ info \in CacheJobInfo /\ info.job = fresh_job /\ info.surface = cache[slot].surface
    BY <2>2, <2>3 DEF CacheJobInfo
  <2>6. \A item \in {info.job, info.surface} \ {None} : item.page = page
    BY <2>2, <2>3, <2>5 DEF IInv, SlotHoldsItsPage
  <2>7. DOMAIN new = {fresh_job} /\ \A j \in DOMAIN new : new[j] \in {URGENT, LOW}
    OBVIOUS
  <2>8. dropped \subseteq JobsIn(cache)
    BY <2>2 DEF JobsIn
  <2>9. slot = SlotOf(page, start_page, end_page, preload_cache_size)
    OBVIOUS
  <2> HIDE DEF slot, fresh_job, info, new
  <2>10. /\ start_page' \in Page \cup {-1} /\ end_page' \in Page \cup {-1}
         /\ preload_cache_size' \in 0 .. MAX_PRELOADED_PAGES
         /\ cache' \in [Slots(start_page', end_page', preload_cache_size') -> CacheJobInfo]
         /\ SlotHoldsItsPage'
         /\ WindowIsThere'
         /\ DOMAIN cache' = DOMAIN cache /\ cache'[slot] = info
         /\ \A o \in DOMAIN cache \ {slot} : cache'[o] = cache[o]
         /\ JobsIn(cache') = (JobsIn(cache) \ {cache[slot].job}) \cup ({info.job} \ {None})
         /\ \A j \in JobsIn(cache) \ {cache[slot].job} : j.page # page
    BY <1>1, <1>3, <2>4, <2>5, <2>6, <2>9, SlotIsFilled
  <2>11. /\ TypeOK /\ FlightIsInOrder /\ connected = JobsIn(cache)
         /\ connected \subseteq InFlight /\ connected \cap cancelled = {}
         /\ \A j \in DOMAIN waiting : waiting[j] \in Entry
    BY DEF IInv, HeardJobsAreInSlots, TypeOK, Entry
  <2>12. dropped \in SUBSET connected
    BY <2>8, <2>11
  <2>13. JobsIn(cache') = (connected \ dropped) \cup {fresh_job}
    BY <2>3, <2>5, <2>10, <2>11 DEF JobsIn
  <2> HIDE DEF dropped
  <2>14. DOMAIN new \subseteq Job \ InFlight
    BY <2>3, <2>7
  <2>15. /\ UNCHANGED <<running, rendered, finished>>
         /\ DOMAIN waiting' \subseteq Job
         /\ \A j \in DOMAIN waiting' : waiting'[j] \in Entry
         /\ connected' = (connected \ dropped) \cup DOMAIN new
         /\ connected' \subseteq InFlight' /\ connected' \subseteq Job
         /\ connected' \cap cancelled' = {} /\ cancelled' \subseteq Job
         /\ FlightIsInOrder'
         /\ \A j \in connected' :
               j \in DOMAIN finished \/ j = running => j \in connected \ dropped
    BY <2>4, <2>7, <2>11, <2>12, <2>14, UpdateJobsKeepsFlight
  <2>16. TypeOK'
    BY <1>1, <1>2, <2>10, <2>11, <2>15 DEF TypeOK, Entry
  <2>17. HeardJobsAreInSlots'
    BY <2>7, <2>13, <2>15 DEF HeardJobsAreInSlots
  <2>18. DeliveredIsCurrent'
    <3>1. ASSUME NEW j \in connected', j \in DOMAIN finished \/ j = running
          PROVE  j \in connected /\ j.page \in Page /\ content'[j.page] = content[j.page]
      <4>1. j \in connected /\ j \in JobsIn(cache) \ {cache[slot].job}
        BY <2>11, <2>15, <3>1 DEF dropped, JobsIn
      <4>2. j.page \in Page
        BY <2>11, <4>1 DEF TypeOK, Job
      <4> QED BY <1>2, <2>10, <4>1, <4>2
    <3> QED BY <2>15, <3>1 DEF IInv, DeliveredIsCurrent
  <2>19. JobsAreOfTheScale'
    BY <1>1, <2>3, <2>5, <2>10 DEF IInv, JobsAreOfTheScale
  <2>20. WindowIsCovered'
    <3>1. cache' # <<>>
      BY <1>3, <2>2, <2>9, <2>10 DEF slot
    <3> QED BY <1>1, <2>3, <2>5, <2>10, <3>1 DEF IInv, WindowIsCovered, ListSlots, Drawn
  <2> QED BY <2>10, <2>15, <2>16, <2>17, <2>18, <2>19, <2>20 DEF IInv
<1>4. CASE ~ (cache # <<>> /\ InRange(page, start_page, end_page, preload_cache_size))
  <2>1. UNCHANGED <<cache, jobVars, workerVars>>
    BY <1>4 DEF Edit
  <2> USE <1>1, <1>2, <2>1 DEF rangeVars, workerVars, jobVars
  <2>2. TypeOK'
    BY DEF IInv, TypeOK
  <2>3. SlotHoldsItsPage' /\ WindowIsThere'
    BY DEF IInv, SlotHoldsItsPage, CurrentPageOf, WindowIsThere
  <2>4. HeardJobsAreInSlots' /\ FlightIsInOrder'
    BY DEF IInv, HeardJobsAreInSlots, JobsIn, InFlight, FlightIsInOrder
  <2>5. ASSUME NEW j \in connected
        PROVE  j.page \in Page \ {page}
    <3>1. PICK slot \in DOMAIN cache : cache[slot].job = j /\ j # None
      BY DEF IInv, HeardJobsAreInSlots, JobsIn
    <3> QED BY <1>4, <3>1, JobIsInItsSlot
  <2>6. DeliveredIsCurrent'
    BY <2>5 DEF IInv, DeliveredIsCurrent
  <2>7. JobsAreOfTheScale' /\ WindowIsCovered'
    BY DEF IInv, JobsAreOfTheScale, WindowIsCovered, ListSlots, Drawn
  <2> QED BY <2>2, <2>3, <2>4, <2>6, <2>7 DEF IInv
<1> QED BY <1>3, <1>4

-----------------------------------------------------------------------------
(* The steps of the worker, and the reports *)

\* The worker takes a job, or lets go of a cancelled one.
LEMMA TakeJobKeepsIInv == IInv /\ TakeJob => IInv'
<1> SUFFICES ASSUME IInv, TakeJob PROVE IInv'
  OBVIOUS
<1>1. PICK j \in DOMAIN waiting :
        /\ waiting' = Restrict(waiting, DOMAIN waiting \ {j})
        /\ IF j \in cancelled
           THEN cancelled' = cancelled \ {j} /\ running' = None
           ELSE cancelled' = cancelled /\ running' = j
  BY DEF TakeJob
<1>2. /\ UNCHANGED <<rangeVars, cache, viewVars, rendered, finished, connected, asked>>
      /\ running = None /\ rendered = None
  BY DEF TakeJob, IInv, FlightIsInOrder
<1> USE <1>2 DEF rangeVars, viewVars
<1>3. /\ DOMAIN waiting' = DOMAIN waiting \ {j}
      /\ \A k \in DOMAIN waiting' : waiting'[k] = waiting[k]
  BY <1>1 DEF Restrict
<1>4. j \in Job /\ j # None
  BY NoneAssumption DEF IInv, TypeOK
<1>5. TypeOK'
  BY <1>1, <1>3, <1>4 DEF IInv, TypeOK
<1>6. SlotHoldsItsPage' /\ WindowIsThere'
  BY DEF IInv, SlotHoldsItsPage, CurrentPageOf, WindowIsThere
<1>7. InFlight' = IF j \in cancelled THEN (InFlight \ {j}) \cup DOMAIN finished ELSE InFlight
  BY <1>1, <1>3, <1>4 DEF InFlight
<1>8. HeardJobsAreInSlots' /\ FlightIsInOrder'
  BY <1>1, <1>7 DEF IInv, HeardJobsAreInSlots, JobsIn, FlightIsInOrder
<1>9. DeliveredIsCurrent'
  BY DEF IInv, DeliveredIsCurrent
<1>10. JobsAreOfTheScale' /\ WindowIsCovered'
  BY DEF IInv, JobsAreOfTheScale, WindowIsCovered, ListSlots, Drawn
<1> QED BY <1>5, <1>6, <1>8, <1>9, <1>10 DEF IInv

\* What is rendered is what the page shows at that moment.
LEMMA RenderKeepsIInv == IInv /\ Render => IInv'
<1> SUFFICES ASSUME IInv, Render PROVE IInv'
  OBVIOUS
<1> USE DEF Render, rangeVars, viewVars, jobVars
<1>1. running \in Job /\ content[running.page] \in Nat
  BY DEF IInv, TypeOK, Job
<1>2. TypeOK'
  BY <1>1 DEF IInv, TypeOK
<1>3. SlotHoldsItsPage' /\ WindowIsThere'
  BY DEF IInv, SlotHoldsItsPage, CurrentPageOf, WindowIsThere
<1>4. HeardJobsAreInSlots' /\ FlightIsInOrder'
  BY DEF IInv, HeardJobsAreInSlots, JobsIn, InFlight, FlightIsInOrder
<1>5. DeliveredIsCurrent'
  BY DEF IInv, DeliveredIsCurrent
<1>6. JobsAreOfTheScale' /\ WindowIsCovered'
  BY DEF IInv, JobsAreOfTheScale, WindowIsCovered, ListSlots, Drawn
<1> QED BY <1>2, <1>3, <1>4, <1>5, <1>6 DEF IInv

\* The running job ends: cancelled, or with a report to come.
LEMMA EndJobKeepsIInv == IInv /\ EndJob => IInv'
<1> SUFFICES ASSUME IInv, EndJob PROVE IInv'
  OBVIOUS
<1> USE DEF rangeVars, viewVars
<1>1. /\ rendered # None /\ running' = None /\ rendered' = None
      /\ UNCHANGED <<rangeVars, cache, viewVars, waiting, connected, asked>>
      /\ running # None /\ running \in Job /\ rendered \in Nat
  BY DEF EndJob, IInv, FlightIsInOrder, TypeOK
<1>2. \/ /\ running \in cancelled /\ cancelled' = cancelled \ {running} /\ finished' = finished
      \/ /\ running \notin cancelled /\ cancelled' = cancelled
         /\ DOMAIN finished' = DOMAIN finished \cup {running}
         /\ \A j \in DOMAIN finished' :
               finished'[j] = IF j = running THEN rendered ELSE finished[j]
  BY DEF EndJob
<1>3. InFlight' = DOMAIN waiting \cup DOMAIN finished'
  BY <1>1 DEF InFlight
<1>4. TypeOK'
  BY <1>1, <1>2 DEF IInv, TypeOK
<1>5. SlotHoldsItsPage' /\ WindowIsThere'
  BY <1>1 DEF IInv, SlotHoldsItsPage, CurrentPageOf, WindowIsThere
<1>6. HeardJobsAreInSlots' /\ FlightIsInOrder'
  BY <1>1, <1>2, <1>3
     DEF IInv, HeardJobsAreInSlots, JobsIn, InFlight, FlightIsInOrder
<1>7. DeliveredIsCurrent'
  BY <1>1, <1>2 DEF IInv, DeliveredIsCurrent
<1>8. JobsAreOfTheScale' /\ WindowIsCovered'
  BY <1>1 DEF IInv, JobsAreOfTheScale, WindowIsCovered, ListSlots, Drawn
<1> QED BY <1>4, <1>5, <1>6, <1>7, <1>8 DEF IInv

\* A job reports: its surface goes to the slot it is in, or nobody hears it.
LEMMA EmitFinishedKeepsIInv == IInv /\ EmitFinished => IInv'
<1> SUFFICES ASSUME IInv, EmitFinished PROVE IInv'
  OBVIOUS
<1>1. PICK j \in DOMAIN finished :
        /\ finished' = Restrict(finished, DOMAIN finished \ {j})
        /\ IF j \in connected /\ j \notin cancelled
           THEN JobFinished(j)
           ELSE cancelled' = cancelled \ {j} /\ UNCHANGED <<cache, waiting, connected>>
        /\ UNCHANGED <<rangeVars, viewVars, running, rendered, asked>>
  BY DEF EmitFinished
<1>2. /\ DOMAIN finished' = DOMAIN finished \ {j}
      /\ \A k \in DOMAIN finished' : finished'[k] = finished[k]
  BY <1>1 DEF Restrict
<1>3. /\ TypeOK /\ FlightIsInOrder /\ connected = JobsIn(cache)
      /\ connected \subseteq InFlight /\ connected \cap cancelled = {}
      /\ j \in Job /\ j.page \in Page /\ j.scale \in Scales /\ finished[j] \in Nat
  BY DEF IInv, HeardJobsAreInSlots, TypeOK, Job
<1>4. CASE j \notin connected
  <2>1. /\ cancelled' = cancelled \ {j}
        /\ UNCHANGED <<cache, waiting, connected, rangeVars, viewVars, running, rendered, asked>>
    BY <1>1, <1>4
  <2> USE <2>1 DEF rangeVars, viewVars
  <2>2. TypeOK'
    BY <1>2 DEF IInv, TypeOK
  <2>3. SlotHoldsItsPage' /\ WindowIsThere'
    BY DEF IInv, SlotHoldsItsPage, CurrentPageOf, WindowIsThere
  <2>4. HeardJobsAreInSlots' /\ FlightIsInOrder'
    BY <1>2, <1>4 DEF IInv, HeardJobsAreInSlots, JobsIn, InFlight, FlightIsInOrder
  <2>5. DeliveredIsCurrent'
    BY <1>2 DEF IInv, DeliveredIsCurrent
  <2>6. JobsAreOfTheScale' /\ WindowIsCovered'
    BY DEF IInv, JobsAreOfTheScale, WindowIsCovered, ListSlots, Drawn
  <2> QED BY <2>2, <2>3, <2>4, <2>5, <2>6 DEF IInv
<1>5. CASE j \in connected
  <2> DEFINE surface == [page |-> j.page, scale |-> j.scale, version |-> finished[j]]
             info == [job |-> None, surface |-> surface]
  <2>1. PICK slot \in DOMAIN cache : cache[slot].job = j /\ j # None
    BY <1>3, <1>5 DEF JobsIn
  <2>2. /\ InRange(j.page, start_page, end_page, preload_cache_size)
        /\ SlotOf(j.page, start_page, end_page, preload_cache_size) = slot
        /\ cache # <<>>
    BY <2>1, JobIsInItsSlot
  <2>3. JobFinished(j)
    BY <1>1, <1>3, <1>5
  <2>4. /\ cache' = [cache EXCEPT ![slot] = info]
        /\ waiting' = Dequeued(waiting, {j})
        /\ connected' = connected \ {j}
        /\ cancelled' = (cancelled \cup {j}) \cap InFlight'
    BY <2>1, <2>2, <2>3 DEF JobFinished
  <2>5. /\ info \in CacheJobInfo /\ info.job = None /\ info.surface # None
        /\ info.surface.page = j.page /\ info.surface.scale = j.scale
    BY <1>3, NoneAssumption DEF CacheJobInfo, Surface
  <2> HIDE DEF info
  <2>6. \A item \in {info.job, info.surface} \ {None} : item.page = j.page
    BY <2>5
  <2>7. UNCHANGED rangeVars /\ UNCHANGED <<max_size, scale, seen, content, running, rendered, asked>>
    BY <1>1 DEF viewVars
  <2>8. /\ start_page' \in Page \cup {-1} /\ end_page' \in Page \cup {-1}
        /\ preload_cache_size' \in 0 .. MAX_PRELOADED_PAGES
        /\ cache' \in [Slots(start_page', end_page', preload_cache_size') -> CacheJobInfo]
        /\ SlotHoldsItsPage'
        /\ WindowIsThere'
        /\ DOMAIN cache' = DOMAIN cache /\ cache'[slot] = info
        /\ \A o \in DOMAIN cache \ {slot} : cache'[o] = cache[o]
        /\ JobsIn(cache') = (JobsIn(cache) \ {cache[slot].job}) \cup ({info.job} \ {None})
    <3>1. PICK page \in Page : page = j.page
      BY <1>3
    <3>2. slot = SlotOf(page, start_page, end_page, preload_cache_size)
          /\ InRange(page, start_page, end_page, preload_cache_size) /\ cache # <<>>
      BY <2>2, <3>1
    <3>3. \A item \in {info.job, info.surface} \ {None} : item.page = page
      BY <2>6, <3>1
    <3>4. cache' = [cache EXCEPT ![slot] = info] /\ UNCHANGED rangeVars /\ info \in CacheJobInfo
      BY <2>4, <2>5, <2>7
    <3> QED BY <3>2, <3>3, <3>4, SlotIsFilled
  <2>9. JobsIn(cache') = connected'
    BY <1>3, <2>1, <2>4, <2>5, <2>8
  <2>10. /\ DOMAIN waiting' \subseteq DOMAIN waiting
         /\ DOMAIN waiting \ {j} \subseteq DOMAIN waiting'
         /\ \A k \in DOMAIN waiting' : waiting'[k] = waiting[k]
    BY <2>4 DEF Dequeued, Restrict
  <2>11. connected' \subseteq InFlight' /\ connected' \cap cancelled' = {}
    BY <1>2, <1>3, <2>4, <2>7, <2>10 DEF InFlight
  <2>12. TypeOK'
    BY <1>2, <1>3, <2>4, <2>7, <2>8, <2>10 DEF TypeOK
  <2>13. HeardJobsAreInSlots' /\ FlightIsInOrder'
    BY <1>3, <2>4, <2>7, <2>9, <2>11 DEF HeardJobsAreInSlots, FlightIsInOrder
  <2>14. DeliveredIsCurrent'
    BY <1>2, <2>4, <2>7 DEF IInv, DeliveredIsCurrent
  <2>15. JobsAreOfTheScale'
    BY <2>5, <2>7, <2>8 DEF IInv, JobsAreOfTheScale
  <2>16. WindowIsCovered'
    <3>1. cache' # <<>>
      BY <2>1, <2>8
    <3>2. asked => j.scale = scale
      BY <2>1 DEF IInv, JobsAreOfTheScale
    <3> QED BY <2>5, <2>7, <2>8, <3>1, <3>2 DEF IInv, WindowIsCovered, ListSlots, Drawn
  <2> QED BY <2>8, <2>12, <2>13, <2>14, <2>15, <2>16 DEF IInv
<1> QED BY <1>4, <1>5

-----------------------------------------------------------------------------
(* Theorems *)

\* Every step preserves IInv.
LEMMA NextKeepsIInv == IInv /\ [Next]_vars => IInv'
<1> SUFFICES ASSUME IInv, [Next]_vars PROVE IInv'
  OBVIOUS
<1>1. ASSUME NEW first \in Page, NEW last \in first .. NPages - 1, Look(first, last)
      PROVE  IInv'
  BY <1>1, LookKeepsIInv
<1>2. ASSUME NEW sc \in Scales, Zoom(sc) PROVE IInv'
  BY <1>2, ZoomKeepsIInv
<1>3. CASE Clear
  BY <1>3, ClearKeepsIInv
<1>4. ASSUME NEW m \in MaxSizes, SetMaxSize(m) PROVE IInv'
  BY <1>4, SetMaxSizeKeepsIInv
<1>5. CASE ChangeDocument
  BY <1>5, ChangeDocumentKeepsIInv
<1>6. ASSUME NEW page \in Page, Edit(page) PROVE IInv'
  BY <1>6, EditKeepsIInv
<1>7. CASE Worker
  BY <1>7, TakeJobKeepsIInv, RenderKeepsIInv, EndJobKeepsIInv DEF Worker
<1>8. CASE EmitFinished
  BY <1>8, EmitFinishedKeepsIInv
<1>9. CASE UNCHANGED vars
  <2> USE <1>9 DEF vars, rangeVars, viewVars, workerVars, jobVars
  <2>1. TypeOK'
    BY DEF IInv, TypeOK
  <2>2. SlotHoldsItsPage' /\ WindowIsThere'
    BY DEF IInv, SlotHoldsItsPage, CurrentPageOf, WindowIsThere
  <2>3. HeardJobsAreInSlots' /\ FlightIsInOrder' /\ DeliveredIsCurrent'
    BY DEF IInv, HeardJobsAreInSlots, JobsIn, InFlight, FlightIsInOrder, DeliveredIsCurrent
  <2>4. JobsAreOfTheScale' /\ WindowIsCovered'
    BY DEF IInv, JobsAreOfTheScale, WindowIsCovered, ListSlots, Drawn
  <2> QED BY <2>1, <2>2, <2>3, <2>4 DEF IInv
<1> QED BY <1>1, <1>2, <1>3, <1>4, <1>5, <1>6, <1>7, <1>8, <1>9 DEF Next, ViewStep

LEMMA AlwaysIInv == Spec => []IInv
<1>1. Init => IInv
  BY InitIInv
<1>2. IInv /\ [Next]_vars => IInv'
  BY NextKeepsIInv
<1> QED BY <1>1, <1>2, PTL DEF Spec

\* For every document and cache: what is in a slot belongs to its page, and the
\* cache hears exactly of the jobs in its slots, none of them lost or cancelled.
THEOREM SlotsAreAlwaysInOrder == Spec => []SlotsAreInOrder
<1>1. IInv => SlotsAreInOrder
  BY DEF IInv, SlotsAreInOrder
<1> QED BY <1>1, AlwaysIInv, PTL

\* No render from before an edit of its page is on the way to a slot.
THEOREM DeliveredIsAlwaysCurrent == Spec => []DeliveredIsCurrent
<1>1. IInv => DeliveredIsCurrent
  BY DEF IInv
<1> QED BY <1>1, AlwaysIInv, PTL

\* After a range update each page of the window has a surface of the right size
\* or a job for one.
THEOREM WindowIsAlwaysCovered == Spec => []WindowIsCovered
<1>1. IInv => WindowIsCovered
  BY DEF IInv
<1> QED BY <1>1, AlwaysIInv, PTL

-----------------------------------------------------------------------------
(* PageCache: the inductive invariant *)

\* What the cache has of a page, and what a job is.
PageData ==
    [job : PC!Job \cup {Null}, done : BOOLEAN, dirty : BOOLEAN, asked : BOOLEAN,
     mapping : [PC!Kinds -> PC!Mapping]]

DataJob ==
    [flags : SUBSET PC!Kinds, read : [PC!Kinds -> PC!Mapping], cancelled : BOOLEAN]

\* A page holds a job of its own, and none that is cancelled.
HeldIsOfItsPage ==
    \A p \in PC!Page : page_list[p].job # Null =>
        /\ PC!PageOf(page_list[p].job) = p
        /\ ~ job[page_list[p].job].cancelled
        /\ page_list[p].asked

HeardIsHeld ==
    \A j \in DOMAIN job : ~ job[j].cancelled => page_list[PC!PageOf(j)].job = j

\* A job is queued, taken or about to report, and cancelled only when taken.
JobsAreInOnePlace ==
    /\ reading \notin ToSet(queued) \cup reports
    /\ ToSet(queued) \cap reports = {}
    /\ \A j \in ToSet(queued) \cup reports : ~ job[j].cancelled

\* What a job has read is on its way to the page.
UnreportedIsUnread ==
    \A j \in DOMAIN job :
        ~ job[j].cancelled => j \in reports \/ job[j].read = PC!NoMappings

\* A page has a job only when there is something to read, and the job reads all
\* that the page has not.
JobsReadWhatIsMissing ==
    \A j \in DOMAIN job : ~ job[j].cancelled =>
        LET data == page_list[PC!PageOf(j)]
        IN  /\ data.dirty \/ ~ data.done
            /\ \A kind \in PC!Kinds : data.mapping[kind] = Null => kind \in job[j].flags

\* What a page has that is in order in itself.
DataIsInOrder(data) ==
    /\ data.dirty => data.mapping["annots"] = Null
    /\ ~ data.done => data.mapping = PC!NoMappings
    /\ data.done => data.asked

\* A list that somebody has is listed.
ListsAreListed(list, jobs, counts, drawn) ==
    /\ \A p \in PC!Page : list[p].mapping["annots"] = "the list" => counts[p] > 0
    /\ \A j \in DOMAIN jobs :
         jobs[j].read["annots"] = "the list" => counts[PC!PageOf(j)] > 0
    /\ drawn # Null => counts[drawn] > 0

\* What the document has of a page.
Annotations(count) == IF count > 0 THEN "the list" ELSE Null

Links(p) == IF p \in HasLinks THEN "the links" ELSE Null

\* What a page has against what its document has, given how many annotations
\* that has and whether edits were missed.
IsCurrent(p, data, count, missed) ==
    /\ data.mapping["links"] \in {Null, Links(p)}
    /\ data.done /\ ~ data.dirty =>
         /\ data.mapping["links"] = Links(p)
         /\ ~ missed => data.mapping["annots"] = Annotations(count)

HasReadTheCurrent(p, data, count, missed) ==
    /\ "links" \in data.flags => data.read["links"] = Links(p)
    /\ "annots" \in data.flags /\ ~ missed => data.read["annots"] = Annotations(count)

\* The inductive invariant.
PageInv ==
    /\ PC!ParametersAssumption
    /\ PC!TypeOK
    /\ first_page \in PC!Page /\ last_page \in PC!Page
    /\ HeldIsOfItsPage /\ HeardIsHeld /\ JobsAreInOnePlace
    /\ UnreportedIsUnread /\ JobsReadWhatIsMissing
    /\ \A p \in PC!Page : DataIsInOrder(page_list[p])
    /\ ListsAreListed(page_list, job, listed, adding)
    /\ \A p \in PC!Page :
         IsCurrent(p, page_list[p], annots[p], p \in misdirected)
    /\ \A j \in reports :
         LET p == PC!PageOf(j)
         IN  HasReadTheCurrent(p, job[j], annots[p], p \in misdirected)

\* The operators of the page cache's libraries are those of the lemmas.
LEMMA SameOperators ==
    /\ \A q : PC!ToSet(q) = ToSet(q)
    /\ \A q : PC!IsInjective(q) = IsInjective(q)
    /\ \A q, gone : PC!Removing(q, gone) = Removing(q, gone)
BY DEF PC!ToSet, ToSet, PC!IsInjective, IsInjective, PC!Removing, Removing

\* A set of numbers has the least element that Min chooses.
LEMMA LeastIs ==
    ASSUME NEW S \in SUBSET Nat, S # {}
    PROVE  PC!Min(S) \in S /\ \A n \in S : PC!Min(S) <= n
<1>1. \E m \in S : \A n \in S : m <= n
  BY LeastNumber
<1> QED BY <1>1 DEF PC!Min

\* The types, unfolded.
LEMMA PageTypes ==
    ASSUME PageInv
    PROVE  /\ PageCount \in Nat \ {0} /\ PagesAround \in Nat
           /\ JobSerials \subseteq Nat /\ JobSerials # {} /\ Null \notin PC!Job
           /\ page_list \in [PC!Page -> PageData]
           /\ job \in [DOMAIN job -> DataJob]
           /\ DOMAIN job = PC!Alive \ {Null} /\ DOMAIN job \subseteq PC!Job
           /\ queued \in Seq(PC!Job) /\ IsInjective(queued)
           /\ reading \in PC!Job \cup {Null} /\ reports \subseteq PC!Job
           /\ ToSet(queued) \subseteq DOMAIN job
           /\ reports \subseteq DOMAIN job
           /\ reading # Null => reading \in DOMAIN job
           /\ \A p \in PC!Page : page_list[p].job # Null => page_list[p].job \in DOMAIN job
           /\ \A j \in PC!Job : PC!PageOf(j) \in PC!Page
<1>1. /\ PageCount \in Nat \ {0} /\ PagesAround \in Nat
      /\ JobSerials \subseteq Nat /\ JobSerials # {} /\ Null \notin PC!Job
  BY DEF PageInv, PC!ParametersAssumption, PC!Job
<1>2. /\ page_list \in [PC!Page -> PageData]
      /\ job \in [DOMAIN job -> DataJob]
      /\ DOMAIN job = PC!Alive \ {Null} /\ DOMAIN job \subseteq PC!Job
      /\ queued \in Seq(PC!Job)
      /\ reading \in PC!Job \cup {Null} /\ reports \subseteq PC!Job
  BY DEF PageInv, PC!TypeOK, PageData, DataJob
<1>3. IsInjective(queued) /\ ToSet(queued) = PC!ToSet(queued)
  BY SameOperators DEF PageInv, PC!TypeOK
<1>4. \A j \in ToSet(queued) : j \in PC!Job
  BY <1>2 DEF ToSet
<1>5. PC!Alive = {page_list[p].job : p \in PC!Page} \cup ToSet(queued)
                   \cup {reading} \cup reports
  BY <1>3 DEF PC!Alive, PC!Referenced
<1>6. \A j \in PC!Job : PC!PageOf(j) \in PC!Page
  BY DEF PC!Job, PC!PageOf
<1> QED BY <1>1, <1>2, <1>3, <1>4, <1>5, <1>6

-----------------------------------------------------------------------------
(* PageCache: the range *)

\* What is given to ev_page_cache_set_page_range in place of the cache's data:
\* the same jobs, with mappings and marks that an edit may have changed.
IsGiven(list, jobs) ==
    /\ list \in [PC!Page -> PageData]
    /\ \A p \in PC!Page : /\ list[p].job = page_list[p].job
                          /\ list[p].asked = page_list[p].asked
    /\ jobs \in [DOMAIN job -> DataJob]
    /\ \A j \in DOMAIN job : /\ jobs[j].cancelled = job[j].cancelled
                             /\ jobs[j].flags = job[j].flags

\* The pages of the range that need a job.
Redone(start, end, list) == {p \in start .. end : PC!NeedsJob(list[p])}

\* What it does: the pages that need it get a new job each, and the jobs they had
\* are cancelled, which leaves those only to the worker if it has taken one.
Renewed(start, end, list, jobs, fresh) ==
    LET redo == Redone(start, end, list)
        old == {list[p].job : p \in redo} \ {Null}
    IN  /\ fresh \in [redo -> PC!Job]
        /\ \A p \in redo : PC!PageOf(fresh[p]) = p /\ fresh[p] \notin PC!Alive
        /\ first_page' = start /\ last_page' = end /\ reading' = reading
        /\ reports' = reports \ old
        /\ page_list' \in [PC!Page -> PageData]
        /\ \A p \in redo : /\ page_list'[p].job = fresh[p]
                           /\ page_list'[p].asked = TRUE
                           /\ page_list'[p].done = list[p].done
                           /\ page_list'[p].dirty = list[p].dirty
                           /\ page_list'[p].mapping = list[p].mapping
        /\ \A p \in PC!Page \ redo : page_list'[p] = list[p]
        /\ queued' \in Seq(PC!Job) /\ IsInjective(queued')
        /\ ToSet(queued') = (ToSet(queued) \ old) \cup {fresh[p] : p \in redo}
        /\ DOMAIN job' = PC!Alive' \ {Null} /\ job' = [j \in DOMAIN job' |-> job'[j]]
        /\ DOMAIN job' \subseteq (DOMAIN job) \cup {fresh[p] : p \in redo}
        /\ \A p \in redo : /\ fresh[p] \in DOMAIN job'
                           /\ job'[fresh[p]] = PC!Unread(PC!FlagsFor(list[p]))
        /\ \A j \in DOMAIN job' \ {fresh[p] : p \in redo} :
             job'[j] = IF j \in old THEN [jobs[j] EXCEPT !.cancelled = TRUE]
                       ELSE jobs[j]

\* The pages of a range, and the jobs of pages that are in order.
InOrder(start, end) == [i \in 1 .. end - start + 1 |-> start + i - 1]

JobsOf(pages, fresh) == [i \in DOMAIN pages |-> fresh[pages[i]]]

\* The new jobs in the order of their pages.
LEMMA FreshInOrder ==
    ASSUME NEW start \in PC!Page, NEW end \in PC!Page, start <= end,
           PageCount \in Nat, NEW redo \in SUBSET (start .. end),
           NEW fresh \in [redo -> PC!Job],
           \A p \in redo : PC!PageOf(fresh[p]) = p,
           NEW pages,
           pages = PC!Removing(InOrder(start, end), PC!Page \ redo)
    PROVE  /\ JobsOf(pages, fresh) \in Seq(PC!Job)
           /\ ToSet(JobsOf(pages, fresh)) = {fresh[p] : p \in redo}
           /\ IsInjective(JobsOf(pages, fresh))
<1> DEFINE n == end - start + 1
           range == InOrder(start, end)
           news == JobsOf(pages, fresh)
<1>1. /\ start \in Int /\ end \in Int /\ n \in Nat
      /\ start .. end \subseteq PC!Page
  BY DEF PC!Page
<1>2. range \in Seq(PC!Page)
  <2>1. \A i \in 1 .. n : start + i - 1 \in start .. end
    BY <1>1
  <2>2. \A i \in 1 .. n : start + i - 1 \in PC!Page
    BY <1>1, <2>1
  <2> HIDE DEF n
  <2> QED BY <1>1, <2>2, n = end - start + 1 DEF InOrder, n
<1>3. DOMAIN range = 1 .. n /\ \A i \in 1 .. n : range[i] = start + i - 1
  BY DEF InOrder
<1> HIDE DEF range
<1>4. ToSet(range) = start .. end
  <2>1. \A p \in start .. end : p - start + 1 \in 1 .. n /\ start + (p - start + 1) - 1 = p
    BY <1>1
  <2>2. \A p \in start .. end : p \in ToSet(range)
    BY <1>3, <2>1 DEF ToSet
  <2>3. \A i \in 1 .. n : range[i] \in start .. end
    BY <1>1, <1>3
  <2> QED BY <1>3, <2>2, <2>3 DEF ToSet
<1>5. IsInjective(range)
  BY <1>1, <1>3 DEF IsInjective
<1>6. pages = Removing(range, PC!Page \ redo)
  BY SameOperators DEF range
<1>7. /\ pages \in Seq(PC!Page) /\ IsInjective(pages)
      /\ ToSet(pages) = (start .. end) \ (PC!Page \ redo)
  <2> DEFINE gone == PC!Page \ redo
  <2> HIDE DEF gone
  <2>1. /\ Removing(range, gone) \in Seq(PC!Page)
        /\ ToSet(Removing(range, gone)) = ToSet(range) \ gone
        /\ IsInjective(range) => IsInjective(Removing(range, gone))
    BY <1>2, RemovingDrops
  <2>2. pages = Removing(range, gone)
    BY <1>6 DEF gone
  <2>3. /\ pages \in Seq(PC!Page) /\ IsInjective(pages)
        /\ ToSet(pages) = (start .. end) \ gone
    BY <1>4, <1>5, <2>1, <2>2
  <2> QED BY <2>3 DEF gone
<1>8. ToSet(pages) = redo
  BY <1>1, <1>7
<1>9. DOMAIN pages = 1 .. Len(pages) /\ Len(pages) \in Nat
  BY <1>7
<1>10. \A i \in DOMAIN pages : pages[i] \in redo
  BY <1>8 DEF ToSet
<1>11. /\ news \in Seq(PC!Job) /\ DOMAIN news = DOMAIN pages
       /\ \A i \in DOMAIN pages : news[i] = fresh[pages[i]]
  <2>1. \A i \in 1 .. Len(pages) : fresh[pages[i]] \in PC!Job
    BY <1>9, <1>10
  <2>2. /\ news \in [1 .. Len(pages) -> PC!Job] /\ DOMAIN news = DOMAIN pages
        /\ \A i \in DOMAIN pages : news[i] = fresh[pages[i]]
    BY <1>9, <2>1 DEF JobsOf
  <2> HIDE DEF news
  <2>3. news \in Seq(PC!Job)
    BY <1>9, <2>2, FunctionsAreSequences
  <2> QED BY <2>2, <2>3
<1> HIDE DEF news
<1>12. IsInjective(news)
  <2> SUFFICES ASSUME NEW i \in DOMAIN pages, NEW k \in DOMAIN pages, news[i] = news[k]
               PROVE  i = k
    BY <1>11 DEF IsInjective
  <2>1. pages[i] \in redo /\ pages[k] \in redo
    BY <1>10
  <2>2. fresh[pages[i]] = fresh[pages[k]]
    BY <1>11
  <2>3. pages[i] = PC!PageOf(fresh[pages[i]]) /\ pages[k] = PC!PageOf(fresh[pages[k]])
    BY <2>1
  <2>4. pages[i] = pages[k]
    BY <2>2, <2>3
  <2> QED BY <1>7, <2>4 DEF IsInjective
<1>13. ToSet(news) = {fresh[p] : p \in redo}
  <2>1. \A p \in redo : \E i \in DOMAIN pages : pages[i] = p
    BY <1>8 DEF ToSet
  <2>2. \A p \in redo : fresh[p] \in ToSet(news)
    <3> SUFFICES ASSUME NEW p \in redo PROVE fresh[p] \in ToSet(news)
      OBVIOUS
    <3>1. PICK i \in DOMAIN pages : pages[i] = p
      BY <2>1
    <3>2. i \in DOMAIN news /\ news[i] = fresh[p]
      BY <1>11, <3>1
    <3> QED BY <3>2 DEF ToSet
  <2>3. \A i \in DOMAIN news : news[i] \in {fresh[p] : p \in redo}
    BY <1>10, <1>11
  <2> QED BY <2>2, <2>3 DEF ToSet
<1> QED BY <1>11, <1>12, <1>13 DEF news

\* ev_page_cache_set_page_range does that, with some choice of new jobs.
LEMMA SetPageRangeRenews ==
    ASSUME PageInv, NEW start \in PC!Page, NEW end \in PC!Page, start <= end,
           NEW list, NEW jobs, IsGiven(list, jobs),
           PC!SetPageRange(start, end, list, jobs)
    PROVE  \E fresh : Renewed(start, end, list, jobs, fresh)
<1> DEFINE redo == Redone(start, end, list)
           old == {list[p].job : p \in redo} \ {Null}
           free(p) == {n \in JobSerials : <<p, n>> \notin PC!Alive}
           fresh == [p \in redo |-> <<p, PC!Min(free(p))>>]
           pages == PC!Removing(InOrder(start, end), PC!Page \ redo)
           news == JobsOf(pages, fresh)
           renewed == [j \in PC!Range(fresh) \cup DOMAIN jobs |->
                IF j \in PC!Range(fresh)
                THEN PC!Unread(PC!FlagsFor(list[PC!PageOf(j)]))
                ELSE IF j \in old THEN [jobs[j] EXCEPT !.cancelled = TRUE]
                ELSE jobs[j]]
<1>1. /\ \A p \in redo : free(p) # {}
      /\ first_page' = start
      /\ last_page' = end
      /\ page_list' = [p \in PC!Page |->
                IF p \in redo
                THEN [list[p] EXCEPT !.job = fresh[p], !.asked = TRUE]
                ELSE list[p]]
      /\ queued' = PC!Removing(queued, old) \o news
      /\ reports' = reports \ old
      /\ reading' = reading
      /\ job' = [j \in PC!Alive' \ {Null} |-> renewed[j]]
  BY DEF PC!SetPageRange, PC!Outdated, Redone, PC!Unref, PC!Alive, PC!Referenced, InOrder, JobsOf
<1>2. /\ redo \subseteq start .. end /\ redo \subseteq PC!Page
      /\ PageCount \in Nat
  BY PageTypes DEF Redone, PC!Page
<1>3. \A p \in redo : PC!Min(free(p)) \in free(p)
  BY <1>1, PageTypes, LeastIs
<1>4. /\ fresh \in [redo -> PC!Job]
      /\ \A p \in redo : PC!PageOf(fresh[p]) = p /\ fresh[p] \notin PC!Alive
  BY <1>2, <1>3 DEF PC!Job, PC!PageOf
<1>5. PC!Range(fresh) = {fresh[p] : p \in redo}
  BY <1>4 DEF PC!Range
<1> HIDE DEF fresh, redo
<1>6. /\ news \in Seq(PC!Job)
      /\ ToSet(news) = {fresh[p] : p \in redo}
      /\ IsInjective(news)
  <2>1. \A p \in redo : PC!PageOf(fresh[p]) = p
    BY <1>4
  <2>2. fresh \in [redo -> PC!Job] /\ redo \in SUBSET (start .. end)
    BY <1>2, <1>4
  <2> QED BY <1>2, <2>1, <2>2, FreshInOrder
<1> HIDE DEF news
<1>7. /\ queued' \in Seq(PC!Job) /\ IsInjective(queued')
      /\ ToSet(queued') = (ToSet(queued) \ old) \cup {fresh[p] : p \in redo}
  <2>1. ToSet(queued) \cap ToSet(news) = {}
    BY <1>4, <1>6, PageTypes
  <2>2. queued' = Removing(queued, old) \o news
    BY <1>1, SameOperators
  <2> HIDE DEF old
  <2> QED BY <1>6, <2>1, <2>2, PageTypes, QueueRenewed
<1>8. /\ page_list' \in [PC!Page -> PageData]
      /\ \A p \in redo : /\ page_list'[p].job = fresh[p]
                         /\ page_list'[p].asked = TRUE
                         /\ page_list'[p].done = list[p].done
                         /\ page_list'[p].dirty = list[p].dirty
                         /\ page_list'[p].mapping = list[p].mapping
      /\ \A p \in PC!Page \ redo : page_list'[p] = list[p]
  <2>1. \A p \in PC!Page : list[p] \in PageData
    BY DEF IsGiven
  <2>2. \A p \in redo : fresh[p] \in PC!Job
    BY <1>4
  <2> QED BY <1>1, <1>2, <2>1, <2>2 DEF PageData
<1>9. PC!Alive' \ {Null} \subseteq (DOMAIN job) \cup {fresh[p] : p \in redo}
  <2>1. PC!Alive' = {page_list'[p].job : p \in PC!Page} \cup ToSet(queued')
                      \cup {reading'} \cup reports'
    BY SameOperators DEF PC!Alive, PC!Referenced
  <2>2. \A p \in PC!Page \ redo : page_list'[p].job = page_list[p].job
    BY <1>8 DEF IsGiven
  <2>3. \A p \in PC!Page :
          page_list'[p].job \in (DOMAIN job) \cup {Null} \cup {fresh[x] : x \in redo}
    BY <1>8, <2>2, PageTypes
  <2>4. /\ ToSet(queued') \subseteq (DOMAIN job) \cup {fresh[p] : p \in redo}
        /\ reading' \in (DOMAIN job) \cup {Null}
        /\ reports' \subseteq DOMAIN job
    <3> HIDE DEF old
    <3> QED BY <1>1, <1>7, PageTypes
  <2>5. {page_list'[p].job : p \in PC!Page}
          \subseteq (DOMAIN job) \cup {Null} \cup {fresh[x] : x \in redo}
    BY <2>3
  <2> QED BY <2>1, <2>4, <2>5
<1>10. DOMAIN jobs = DOMAIN job
  BY DEF IsGiven
<1>11. DOMAIN job' = PC!Alive' \ {Null} /\ job' = [j \in DOMAIN job' |-> job'[j]]
  <2>1. job' = [j \in PC!Alive' \ {Null} |-> renewed[j]]
    BY <1>1
  <2> HIDE DEF renewed
  <2> QED BY <2>1
<1>12. \A j \in DOMAIN job' : job'[j] = renewed[j]
  BY <1>1
<1>13. \A p \in redo : fresh[p] \in DOMAIN job'
  <2>1. \A p \in redo : fresh[p] \in ToSet(queued')
    BY <1>7
  <2>2. \A p \in redo : fresh[p] # Null
    BY <1>4, PageTypes
  <2> QED BY <1>11, <2>1, <2>2, SameOperators DEF PC!Alive, PC!Referenced
<1>14. \A p \in redo : job'[fresh[p]] = PC!Unread(PC!FlagsFor(list[p]))
  BY <1>4, <1>5, <1>12, <1>13
<1>15. \A j \in DOMAIN job' \ {fresh[p] : p \in redo} :
         job'[j] = IF j \in old THEN [jobs[j] EXCEPT !.cancelled = TRUE] ELSE jobs[j]
  BY <1>5, <1>9, <1>10, <1>11, <1>12
<1>16. Renewed(start, end, list, jobs, fresh)
  <2>1. redo = Redone(start, end, list)
    BY DEF redo
  <2> HIDE DEF renewed
  <2> QED BY <1>1, <1>4, <1>7, <1>8, <1>9, <1>11, <1>13, <1>14, <1>15, <2>1 DEF Renewed
<1> QED BY <1>16

\* What the caller has to leave in order for that.
LeftInOrder(start, end, list, jobs) ==
    /\ annots' \in [PC!Page -> 0 .. MaxAnnots]
    /\ listed' \in [PC!Page -> 0 .. MaxAnnots]
    /\ \A p \in PC!Page : listed'[p] <= annots'[p]
    /\ current_page' \in start .. end
    /\ adding' \in PC!Page \cup {Null}
    /\ misdirected' \subseteq PC!Page
    /\ \A p \in PC!Page : DataIsInOrder(list[p])
    /\ ListsAreListed(list, jobs, listed', adding')
    /\ \A p \in PC!Page : IsCurrent(p, list[p], annots'[p], p \in misdirected')
    /\ \A j \in DOMAIN job :
         LET p == PC!PageOf(j)
         IN  ~ job[j].cancelled /\ p \notin Redone(start, end, list) =>
               /\ j \in reports =>
                    HasReadTheCurrent(p, jobs[j], annots'[p], p \in misdirected')
               /\ j \in reports \/ jobs[j].read = PC!NoMappings
               /\ list[p].dirty \/ ~ list[p].done
               /\ \A kind \in PC!Kinds :
                    list[p].mapping[kind] = Null => kind \in jobs[j].flags

\* The jobs after ev_page_cache_set_page_range: one of a page that was redone, or
\* the one there was, which is live as long as its page keeps it.
LEMMA RenewedJobs ==
    ASSUME PageInv, NEW start, NEW end, NEW list, NEW jobs, NEW fresh,
           Redone(start, end, list) \subseteq PC!Page,
           IsGiven(list, jobs), Renewed(start, end, list, jobs, fresh)
    PROVE  LET redo == Redone(start, end, list)
           IN  /\ \A j \in DOMAIN job' :
                    \/ \E p \in redo :
                         /\ j = fresh[p] /\ PC!PageOf(j) = p
                         /\ page_list'[p].job = j /\ p \in PC!Page
                         /\ job'[j] = PC!Unread(PC!FlagsFor(list[p]))
                    \/ /\ j \in DOMAIN job /\ job'[j] \in DataJob
                       /\ job'[j].flags = job[j].flags
                       /\ job'[j].read = jobs[j].read
                       /\ ~ job'[j].cancelled =>
                            /\ job'[j] = jobs[j]
                            /\ ~ job[j].cancelled
                            /\ PC!PageOf(j) \in PC!Page \ redo
                            /\ page_list[PC!PageOf(j)].job = j
               /\ \A j \in DOMAIN job \cap DOMAIN job' :
                    ~ job[j].cancelled /\ PC!PageOf(j) \notin redo => job'[j] = jobs[j]
<1> DEFINE redo == Redone(start, end, list)
           old == {list[p].job : p \in redo} \ {Null}
<1>1. /\ fresh \in [redo -> PC!Job]
      /\ \A p \in redo : PC!PageOf(fresh[p]) = p /\ fresh[p] \notin PC!Alive
      /\ \A p \in redo : page_list'[p].job = fresh[p]
      /\ DOMAIN job' = PC!Alive' \ {Null}
      /\ DOMAIN job' \subseteq (DOMAIN job) \cup {fresh[p] : p \in redo}
      /\ \A p \in redo : /\ fresh[p] \in DOMAIN job'
                         /\ job'[fresh[p]] = PC!Unread(PC!FlagsFor(list[p]))
      /\ \A j \in DOMAIN job' \ {fresh[p] : p \in redo} :
           job'[j] = IF j \in old THEN [jobs[j] EXCEPT !.cancelled = TRUE]
                     ELSE jobs[j]
  BY DEF Renewed
<1>2. \A j \in DOMAIN job : /\ jobs[j] \in DataJob /\ job[j] \in DataJob
                            /\ jobs[j].cancelled = job[j].cancelled
                            /\ jobs[j].flags = job[j].flags
  BY PageTypes DEF IsGiven
<1>3. \A p \in redo : fresh[p] \notin DOMAIN job
  BY <1>1, PageTypes
<1>4. \A j \in DOMAIN job : ~ job[j].cancelled =>
        page_list[PC!PageOf(j)].job = j /\ (PC!PageOf(j) \in redo => j \in old)
  BY PageTypes DEF PageInv, HeardIsHeld, IsGiven
<1>5. \A j \in old : PC!PageOf(j) \in redo
  BY DEF PageInv, HeldIsOfItsPage, IsGiven
<1> HIDE DEF old, redo
<1>6. ASSUME NEW j \in DOMAIN job', j \notin {fresh[p] : p \in redo}
      PROVE  /\ j \in DOMAIN job /\ job'[j] \in DataJob
             /\ job'[j].flags = job[j].flags
             /\ job'[j].read = jobs[j].read
             /\ ~ job'[j].cancelled =>
                  /\ job'[j] = jobs[j]
                  /\ ~ job[j].cancelled
                  /\ PC!PageOf(j) \in PC!Page \ redo
                  /\ page_list[PC!PageOf(j)].job = j
  <2>1. j \in DOMAIN job /\ PC!PageOf(j) \in PC!Page
    BY <1>1, <1>6, PageTypes
  <2>2. CASE j \in old
    <3>1. job'[j] = [jobs[j] EXCEPT !.cancelled = TRUE]
      BY <1>1, <1>6, <2>2
    <3> QED BY <1>2, <2>1, <3>1 DEF DataJob
  <2>3. CASE j \notin old
    <3>1. job'[j] = jobs[j]
      BY <1>1, <1>6, <2>3
    <3> QED BY <1>2, <1>4, <2>1, <2>3, <3>1
  <2> QED BY <2>2, <2>3
<1>7. ASSUME NEW j \in DOMAIN job \cap DOMAIN job', PC!PageOf(j) \notin redo
      PROVE  job'[j] = jobs[j]
  <2>1. j \notin {fresh[p] : p \in redo}
    BY <1>3
  <2> QED BY <1>1, <1>5, <1>7, <2>1
<1>8. ASSUME NEW p \in redo
      PROVE  /\ PC!PageOf(fresh[p]) = p /\ p \in PC!Page
             /\ page_list'[p].job = fresh[p]
             /\ job'[fresh[p]] = PC!Unread(PC!FlagsFor(list[p]))
  BY <1>1 DEF redo
<1>9. \A j \in DOMAIN job' :
        \/ \E p \in redo : j = fresh[p]
        \/ j \notin {fresh[p] : p \in redo}
  OBVIOUS
<1> QED BY <1>6, <1>7, <1>8, <1>9 DEF redo

\* ev_page_cache_set_page_range leaves the cache in order if its caller does.
LEMMA RangeKeeps ==
    ASSUME PageInv, NEW start \in PC!Page, NEW end \in PC!Page, start <= end,
           NEW list, NEW jobs, IsGiven(list, jobs),
           PC!SetPageRange(start, end, list, jobs),
           LeftInOrder(start, end, list, jobs)
    PROVE  PageInv'
<1> DEFINE redo == Redone(start, end, list)
           old == {list[p].job : p \in redo} \ {Null}
<1>0. PICK fresh : Renewed(start, end, list, jobs, fresh)
  BY SetPageRangeRenews
<1>1. /\ redo \subseteq PC!Page
      /\ \A p \in redo : PC!NeedsJob(list[p])
  BY PageTypes DEF Redone, PC!Page
<1>2. /\ fresh \in [redo -> PC!Job]
      /\ \A p \in redo : PC!PageOf(fresh[p]) = p /\ fresh[p] \notin PC!Alive
      /\ first_page' = start /\ last_page' = end /\ reading' = reading
      /\ reports' = reports \ old
      /\ page_list' \in [PC!Page -> PageData]
      /\ \A p \in redo : /\ page_list'[p].job = fresh[p]
                         /\ page_list'[p].asked = TRUE
                         /\ page_list'[p].done = list[p].done
                         /\ page_list'[p].dirty = list[p].dirty
                         /\ page_list'[p].mapping = list[p].mapping
      /\ \A p \in PC!Page \ redo : page_list'[p] = list[p]
      /\ queued' \in Seq(PC!Job) /\ IsInjective(queued')
      /\ ToSet(queued') = (ToSet(queued) \ old) \cup {fresh[p] : p \in redo}
      /\ DOMAIN job' = PC!Alive' \ {Null}
      /\ DOMAIN job' \subseteq (DOMAIN job) \cup {fresh[p] : p \in redo}
      /\ \A p \in redo : /\ fresh[p] \in DOMAIN job'
                         /\ job'[fresh[p]] = PC!Unread(PC!FlagsFor(list[p]))
  BY <1>0 DEF Renewed
<1>3. \A j \in DOMAIN job' :
        \/ \E p \in redo :
             /\ j = fresh[p] /\ PC!PageOf(j) = p
             /\ page_list'[p].job = j /\ p \in PC!Page
             /\ job'[j] = PC!Unread(PC!FlagsFor(list[p]))
        \/ /\ j \in DOMAIN job /\ job'[j] \in DataJob
           /\ job'[j].flags = job[j].flags
           /\ job'[j].read = jobs[j].read
           /\ ~ job'[j].cancelled =>
                /\ job'[j] = jobs[j]
                /\ ~ job[j].cancelled
                /\ PC!PageOf(j) \in PC!Page \ redo
                /\ page_list[PC!PageOf(j)].job = j
  BY <1>0, <1>1, RenewedJobs
<1>4. \A j \in DOMAIN job \cap DOMAIN job' :
        ~ job[j].cancelled /\ PC!PageOf(j) \notin redo => job'[j] = jobs[j]
  BY <1>0, <1>1, RenewedJobs
<1>5. \A p \in PC!Page : /\ list[p].job = page_list[p].job
                         /\ list[p].asked = page_list[p].asked
                         /\ list[p] \in PageData
  BY DEF IsGiven
<1>6. \A j \in old : PC!PageOf(j) \in redo
  BY <1>1, <1>5 DEF PageInv, HeldIsOfItsPage
<1>7. \A j \in DOMAIN job :
        ~ job[j].cancelled /\ j \notin old => PC!PageOf(j) \notin redo
  BY <1>1, <1>5, PageTypes DEF PageInv, HeardIsHeld
<1>8. \A flags \in SUBSET PC!Kinds : PC!Unread(flags) \in DataJob
  BY DEF PC!Unread, DataJob, PC!NoMappings, PC!Mapping
<1>9. /\ \A p \in PC!Page : PC!FlagsFor(list[p]) \subseteq PC!Kinds
      /\ \A flags : PC!Unread(flags).cancelled = FALSE
  BY DEF PC!FlagsFor, PC!Unread
<1>10. /\ \A j \in ToSet(queued') : j \in DOMAIN job'
       /\ reports' \subseteq DOMAIN job'
       /\ \A p \in PC!Page : page_list'[p].job # Null => page_list'[p].job \in DOMAIN job'
  <2>1. PC!Alive' = {page_list'[p].job : p \in PC!Page} \cup ToSet(queued')
                      \cup {reading'} \cup reports'
    BY SameOperators DEF PC!Alive, PC!Referenced
  <2>2. \A j \in ToSet(queued') : j # Null
    BY <1>2, PageTypes DEF ToSet
  <2>3. \A j \in reports' : j # Null
    BY <1>2, PageTypes
  <2> QED BY <1>2, <2>1, <2>2, <2>3
<1> HIDE DEF redo, old
<1>11. PC!TypeOK'
  <2>1. job' \in [DOMAIN job' -> DataJob]
    <3>1. job' = [j \in DOMAIN job' |-> job'[j]]
      BY <1>0 DEF Renewed
    <3>2. \A j \in DOMAIN job' : job'[j] \in DataJob
      BY <1>3, <1>8, <1>9
    <3> QED BY <3>1, <3>2
  <2>2. DOMAIN job' \subseteq PC!Job
    BY <1>2, PageTypes
  <2>3. reading' \in PC!Job \cup {Null} /\ reports' \subseteq PC!Job
    BY <1>2, PageTypes
  <2>4. PC!IsInjective(queued')
    BY <1>2, SameOperators
  <2> QED BY <1>2, <2>1, <2>2, <2>3, <2>4 DEF PC!TypeOK, LeftInOrder, PageData, DataJob
<1>12. HeldIsOfItsPage'
  <2> SUFFICES ASSUME NEW p \in PC!Page, page_list'[p].job # Null
               PROVE  /\ PC!PageOf(page_list'[p].job) = p
                      /\ ~ job'[page_list'[p].job].cancelled
                      /\ page_list'[p].asked
    BY DEF HeldIsOfItsPage
  <2>1. CASE p \in redo
    BY <1>2, <1>9, <2>1
  <2>2. CASE p \notin redo
    <3> DEFINE j == page_list[p].job
    <3>1. /\ page_list'[p] = list[p] /\ page_list'[p].job = j
          /\ page_list'[p].asked = page_list[p].asked
      BY <1>2, <1>5, <2>2
    <3>2. /\ j \in DOMAIN job /\ PC!PageOf(j) = p /\ ~ job[j].cancelled
          /\ page_list[p].asked
      BY <3>1, PageTypes DEF PageInv, HeldIsOfItsPage
    <3>3. j \in DOMAIN job'
      BY <1>10, <3>1
    <3>4. job'[j] = jobs[j] /\ ~ jobs[j].cancelled
      BY <1>4, <2>2, <3>2, <3>3 DEF IsGiven
    <3> HIDE DEF j
    <3> QED BY <3>1, <3>2, <3>4
  <2> QED BY <2>1, <2>2
<1>13. HeardIsHeld'
  <2> SUFFICES ASSUME NEW j \in DOMAIN job', ~ job'[j].cancelled
               PROVE  page_list'[PC!PageOf(j)].job = j
    BY DEF HeardIsHeld
  <2> QED BY <1>2, <1>3, <1>5
<1>14. JobsAreInOnePlace'
  <2>1. /\ reading \notin ToSet(queued) \cup reports
        /\ ToSet(queued) \cap reports = {}
        /\ \A j \in ToSet(queued) \cup reports : ~ job[j].cancelled
    BY DEF PageInv, JobsAreInOnePlace
  <2>2. \A p \in redo : fresh[p] # reading /\ fresh[p] \notin reports
    BY <1>2 DEF PC!Alive, PC!Referenced
  <2>3. /\ reading' \notin ToSet(queued') \cup reports'
        /\ ToSet(queued') \cap reports' = {}
    BY <1>2, <2>1, <2>2
  <2>4. \A p \in redo : ~ job'[fresh[p]].cancelled
    BY <1>2, <1>9
  <2>5. \A j \in (ToSet(queued) \cup reports) \ old :
          j \in DOMAIN job' => ~ job'[j].cancelled
    BY <1>4, <1>7, <2>1, PageTypes DEF IsGiven
  <2>6. \A j \in ToSet(queued') \cup reports' :
          j \in DOMAIN job' /\
            (j \in (ToSet(queued) \cup reports) \ old \/ \E p \in redo : j = fresh[p])
    BY <1>2, <1>10
  <2> QED BY <2>3, <2>4, <2>5, <2>6 DEF JobsAreInOnePlace
<1>15. UnreportedIsUnread'
  <2> SUFFICES ASSUME NEW j \in DOMAIN job', ~ job'[j].cancelled
               PROVE  j \in reports' \/ job'[j].read = PC!NoMappings
    BY DEF UnreportedIsUnread
  <2>1. CASE \E p \in redo : job'[j] = PC!Unread(PC!FlagsFor(list[p]))
    BY <2>1 DEF PC!Unread
  <2>2. CASE /\ j \in DOMAIN job /\ job'[j] = jobs[j] /\ ~ job[j].cancelled
             /\ PC!PageOf(j) \in PC!Page \ redo
    BY <1>2, <1>6, <2>2 DEF LeftInOrder, redo
  <2> QED BY <1>3, <2>1, <2>2
<1>16. JobsReadWhatIsMissing'
  <2> SUFFICES ASSUME NEW j \in DOMAIN job', ~ job'[j].cancelled
               PROVE  LET data == page_list'[PC!PageOf(j)]
                      IN  /\ data.dirty \/ ~ data.done
                          /\ \A kind \in PC!Kinds :
                               data.mapping[kind] = Null => kind \in job'[j].flags
    BY DEF JobsReadWhatIsMissing
  <2>1. ASSUME NEW p \in redo, p \in PC!Page, PC!PageOf(j) = p,
               job'[j] = PC!Unread(PC!FlagsFor(list[p]))
        PROVE  LET data == page_list'[PC!PageOf(j)]
               IN  /\ data.dirty \/ ~ data.done
                   /\ \A kind \in PC!Kinds :
                        data.mapping[kind] = Null => kind \in job'[j].flags
    <3>1. list[p].dirty \/ ~ list[p].done
      BY <1>1, <1>5, <2>1 DEF PC!NeedsJob, LeftInOrder, DataIsInOrder, PageData
    <3>2. \A kind \in PC!Kinds :
            list[p].mapping[kind] = Null => kind \in PC!FlagsFor(list[p])
      BY DEF PC!FlagsFor
    <3> QED BY <1>2, <2>1, <3>1, <3>2 DEF PC!Unread
  <2>2. CASE /\ j \in DOMAIN job /\ job'[j] = jobs[j] /\ ~ job[j].cancelled
             /\ PC!PageOf(j) \in PC!Page \ redo
    BY <1>2, <2>2 DEF LeftInOrder, redo
  <2> QED BY <1>3, <2>1, <2>2
<1>17. \A p \in PC!Page : DataIsInOrder(page_list'[p])
  <2> SUFFICES ASSUME NEW p \in PC!Page PROVE DataIsInOrder(page_list'[p])
    OBVIOUS
  <2>1. DataIsInOrder(list[p])
    BY DEF LeftInOrder
  <2> QED BY <1>2, <2>1 DEF DataIsInOrder
<1>18. ListsAreListed(page_list, job, listed, adding)'
  <2>1. ListsAreListed(list, jobs, listed', adding')
    BY DEF LeftInOrder
  <2>2. \A p \in PC!Page : page_list'[p].mapping = list[p].mapping
    BY <1>2
  <2>3. \A j \in DOMAIN job' :
          \/ job'[j].read = PC!NoMappings
          \/ j \in DOMAIN jobs /\ job'[j].read = jobs[j].read
    BY <1>3 DEF PC!Unread, IsGiven
  <2>4. PC!NoMappings["annots"] # "the list"
    BY DEF PC!NoMappings, PC!Kinds, PageInv, PC!ParametersAssumption, PC!Lists
  <2>5. \A j \in DOMAIN job' :
          job'[j].read["annots"] = "the list" => listed'[PC!PageOf(j)] > 0
    BY <2>1, <2>3, <2>4 DEF ListsAreListed
  <2> QED BY <2>1, <2>2, <2>5 DEF ListsAreListed
<1>19. \A p \in PC!Page :
         IsCurrent(p, page_list'[p], annots'[p], p \in misdirected')
  <2> SUFFICES ASSUME NEW p \in PC!Page
               PROVE  IsCurrent(p, page_list'[p], annots'[p], p \in misdirected')
    OBVIOUS
  <2>1. IsCurrent(p, list[p], annots'[p], p \in misdirected')
    BY DEF LeftInOrder
  <2>2. /\ page_list'[p].done = list[p].done /\ page_list'[p].dirty = list[p].dirty
        /\ page_list'[p].mapping = list[p].mapping
    BY <1>2
  <2> QED BY <2>1, <2>2 DEF IsCurrent
<1>20. \A j \in reports' :
         LET p == PC!PageOf(j)
         IN  HasReadTheCurrent(p, job'[j], annots'[p], p \in misdirected')
  <2> SUFFICES ASSUME NEW j \in reports'
               PROVE  HasReadTheCurrent(PC!PageOf(j), job'[j], annots'[PC!PageOf(j)],
                                        PC!PageOf(j) \in misdirected')
    OBVIOUS
  <2>1. j \in reports /\ j \notin old /\ j \in DOMAIN job /\ j \in DOMAIN job'
    BY <1>2, <1>10, PageTypes
  <2>2. ~ job[j].cancelled
    BY <2>1 DEF PageInv, JobsAreInOnePlace
  <2>3. PC!PageOf(j) \notin redo
    BY <1>7, <2>1, <2>2
  <2>4. job'[j] = jobs[j]
    BY <1>4, <2>1, <2>2, <2>3
  <2> QED BY <2>1, <2>2, <2>3, <2>4 DEF LeftInOrder, redo
<1>21. PC!ParametersAssumption'
  BY DEF PageInv, PC!ParametersAssumption
<1>22. first_page' \in PC!Page /\ last_page' \in PC!Page
  BY <1>2
<1> QED BY <1>11, <1>12, <1>13, <1>14, <1>15, <1>16, <1>17, <1>18, <1>19, <1>20, <1>21,
           <1>22
        DEF PageInv

-----------------------------------------------------------------------------
(* PageCache: what the view does *)

\* The range of the cache that view_update_range_and_current_page asks for.
LEMMA RangeAround ==
    ASSUME PageCount \in Nat, PagesAround \in Nat,
           NEW page \in PC!Page, NEW start \in PC!Page, NEW end \in PC!Page,
           page \in start .. end
    PROVE  LET from == PC!Max({start - PagesAround, 0})
               to == PC!Min({end + PagesAround, PageCount - 1})
           IN  from \in PC!Page /\ to \in PC!Page /\ from <= to /\ page \in from .. to
<1>1. /\ start \in Int /\ end \in Int /\ 0 <= start /\ end <= PageCount - 1
      /\ page \in Int /\ start <= page /\ page <= end
      /\ PageCount \in Int /\ PagesAround \in Int /\ 0 <= PagesAround
  BY DEF PC!Page
<1>2. \A a \in Int : PC!Max({a, 0}) \in {a, 0} /\ PC!Max({a, 0}) >= a /\ PC!Max({a, 0}) >= 0
  <2> SUFFICES ASSUME NEW a \in Int
               PROVE  PC!Max({a, 0}) \in {a, 0} /\ PC!Max({a, 0}) >= a /\ PC!Max({a, 0}) >= 0
    OBVIOUS
  <2>1. \E m \in {a, 0} : \A x \in {a, 0} : m >= x
    OBVIOUS
  <2> QED BY <2>1 DEF PC!Max
<1>3. \A a, b \in Int : PC!Min({a, b}) \in {a, b} /\ PC!Min({a, b}) <= a /\ PC!Min({a, b}) <= b
  <2> SUFFICES ASSUME NEW a \in Int, NEW b \in Int
               PROVE  PC!Min({a, b}) \in {a, b} /\ PC!Min({a, b}) <= a /\ PC!Min({a, b}) <= b
    OBVIOUS
  <2>1. \E m \in {a, b} : \A x \in {a, b} : m <= x
    OBVIOUS
  <2> QED BY <2>1 DEF PC!Min
<1> DEFINE from == PC!Max({start - PagesAround, 0})
           to == PC!Min({end + PagesAround, PageCount - 1})
<1>4. from \in {start - PagesAround, 0} /\ from >= 0
  BY <1>1, <1>2
<1>5. /\ to \in {end + PagesAround, PageCount - 1} /\ to <= PageCount - 1
  <2>1. end + PagesAround \in Int /\ PageCount - 1 \in Int
    BY <1>1
  <2> QED BY <1>3, <2>1
<1> HIDE DEF from, to
<1>6. /\ from \in Int /\ to \in Int /\ 0 <= from /\ from <= start
      /\ end <= to /\ to <= PageCount - 1
  BY <1>1, <1>4, <1>5
<1>7. from \in PC!Page /\ to \in PC!Page /\ from <= to /\ page \in from .. to
  BY <1>1, <1>6 DEF PC!Page
<1> QED BY <1>7 DEF from, to

\* A movement gives the cache's own data.
LEMMA ItselfIsGiven ==
    ASSUME PageInv
    PROVE  IsGiven(page_list, job)
BY PageTypes DEF IsGiven

\* What a job that is not cancelled is about.
LEMMA LiveJobs ==
    ASSUME PageInv, NEW j \in DOMAIN job, ~ job[j].cancelled
    PROVE  LET p == PC!PageOf(j)
           IN  /\ p \in PC!Page /\ page_list[p].job = j
               /\ j \in reports =>
                    HasReadTheCurrent(p, job[j], annots[p], p \in misdirected)
               /\ j \in reports \/ job[j].read = PC!NoMappings
               /\ page_list[p].dirty \/ ~ page_list[p].done
               /\ \A kind \in PC!Kinds :
                    page_list[p].mapping[kind] = Null => kind \in job[j].flags
<1>1. PC!PageOf(j) \in PC!Page
  BY PageTypes
<1> QED BY <1>1 DEF PageInv, HeardIsHeld, UnreportedIsUnread, JobsReadWhatIsMissing

\* The user moves.
LEMMA ScrollKeeps ==
    ASSUME PageInv, NEW page \in PC!Page, NEW start \in PC!Page, NEW end \in PC!Page,
           PC!Scroll(page, start, end)
    PROVE  PageInv'
<1> DEFINE from == PC!Max({start - PagesAround, 0})
           to == PC!Min({end + PagesAround, PageCount - 1})
<1>1. /\ page \in start .. end /\ current_page' = page
      /\ PC!SetPageRange(from, to, page_list, job)
      /\ annots' = annots /\ listed' = listed /\ adding' = adding
      /\ misdirected' = misdirected
  BY DEF PC!Scroll
<1>2. from \in PC!Page /\ to \in PC!Page /\ from <= to /\ page \in from .. to
  BY <1>1, PageTypes, RangeAround
<1> HIDE DEF from, to
<1>3. LeftInOrder(from, to, page_list, job)
  <2>1. /\ annots' \in [PC!Page -> 0 .. MaxAnnots]
        /\ listed' \in [PC!Page -> 0 .. MaxAnnots]
        /\ \A p \in PC!Page : listed'[p] <= annots'[p]
        /\ current_page' \in from .. to
        /\ adding' \in PC!Page \cup {Null}
        /\ misdirected' \subseteq PC!Page
    BY <1>1, <1>2 DEF PageInv, PC!TypeOK
  <2>2. /\ \A p \in PC!Page : DataIsInOrder(page_list[p])
        /\ ListsAreListed(page_list, job, listed', adding')
        /\ \A p \in PC!Page :
             IsCurrent(p, page_list[p], annots'[p], p \in misdirected')
    BY <1>1 DEF PageInv
  <2> QED BY <1>1, <2>1, <2>2, LiveJobs DEF LeftInOrder
<1> QED BY <1>1, <1>2, <1>3, ItselfIsGiven, RangeKeeps

\* ev_page_cache_mark_dirty on the data of the pages.
Marked(list, p) == [list EXCEPT ![p].dirty = TRUE, ![p].mapping["annots"] = Null]

\* A page of the range that is marked is one that is redone.
LEMMA MarkedIsRedone ==
    ASSUME NEW start, NEW end, NEW page \in PC!Page, page \in start .. end,
           NEW list \in [PC!Page -> PageData]
    PROVE  /\ Marked(list, page) \in [PC!Page -> PageData]
           /\ Marked(list, page)[page].dirty = TRUE
           /\ Marked(list, page)[page].job = list[page].job
           /\ Marked(list, page)[page].asked = list[page].asked
           /\ Marked(list, page)[page].done = list[page].done
           /\ Marked(list, page)[page].mapping
                = [list[page].mapping EXCEPT !["annots"] = Null]
           /\ \A p \in PC!Page : p # page => Marked(list, page)[p] = list[p]
           /\ page \in Redone(start, end, Marked(list, page))
<1>1. list[page] \in PageData
  OBVIOUS
<1>2. list[page].mapping \in [PC!Kinds -> PC!Mapping]
  BY <1>1 DEF PageData
<1>3. [list[page].mapping EXCEPT !["annots"] = Null] \in [PC!Kinds -> PC!Mapping]
  BY <1>2 DEF PC!Mapping
<1> DEFINE dirty == [list EXCEPT ![page].dirty = TRUE]
           mapping == [list[page].mapping EXCEPT !["annots"] = Null]
<1>4. /\ dirty \in [PC!Page -> PageData]
      /\ dirty[page] \in PageData
      /\ dirty[page].dirty = TRUE
      /\ dirty[page].job = list[page].job
      /\ dirty[page].asked = list[page].asked
      /\ dirty[page].done = list[page].done
      /\ dirty[page].mapping = list[page].mapping
      /\ \A p \in PC!Page : p # page => dirty[p] = list[p]
  BY <1>1 DEF PageData
<1>5. Marked(list, page) = [dirty EXCEPT ![page].mapping["annots"] = Null]
  BY DEF Marked
<1> HIDE DEF dirty
<1>6. Marked(list, page) = [dirty EXCEPT ![page].mapping = mapping]
  BY <1>4, <1>5
<1>0. mapping \in [PC!Kinds -> PC!Mapping]
  BY <1>3
<1> HIDE DEF mapping
<1>7. /\ Marked(list, page) \in [PC!Page -> PageData]
      /\ Marked(list, page)[page].dirty = TRUE
      /\ Marked(list, page)[page].job = list[page].job
      /\ Marked(list, page)[page].asked = list[page].asked
      /\ Marked(list, page)[page].done = list[page].done
      /\ Marked(list, page)[page].mapping = mapping
      /\ \A p \in PC!Page : p # page => Marked(list, page)[p] = list[p]
  <2> DEFINE data == [dirty[page] EXCEPT !.mapping = mapping]
  <2>1. /\ data \in PageData
        /\ data.dirty = TRUE
        /\ data.job = list[page].job
        /\ data.asked = list[page].asked
        /\ data.done = list[page].done
        /\ data.mapping = mapping
    BY <1>0, <1>4 DEF PageData
  <2>2. Marked(list, page) = [dirty EXCEPT ![page] = data]
    BY <1>4, <1>6
  <2> HIDE DEF data
  <2> QED BY <1>4, <2>1, <2>2
<1>8. page \in Redone(start, end, Marked(list, page))
  BY <1>7 DEF Redone, PC!NeedsJob
<1> QED BY <1>7, <1>8 DEF mapping

\* A step that leaves the cache and its jobs alone.
LEMMA UserAloneKeeps ==
    ASSUME PageInv,
           UNCHANGED <<first_page, last_page, page_list, job, queued, reading, reports>>,
           annots' \in [PC!Page -> 0 .. MaxAnnots],
           listed' \in [PC!Page -> 0 .. MaxAnnots],
           \A p \in PC!Page : listed'[p] <= annots'[p],
           current_page' \in first_page .. last_page,
           adding' \in PC!Page \cup {Null},
           misdirected' \subseteq PC!Page,
           ListsAreListed(page_list, job, listed', adding'),
           \A p \in PC!Page :
             IsCurrent(p, page_list[p], annots'[p], p \in misdirected'),
           \A j \in reports :
             LET p == PC!PageOf(j)
             IN  HasReadTheCurrent(p, job[j], annots'[p], p \in misdirected')
    PROVE  PageInv'
<1>1. PC!Alive' = PC!Alive
  BY DEF PC!Alive, PC!Referenced, PC!ToSet
<1>2. PC!TypeOK'
  BY <1>1 DEF PageInv, PC!TypeOK, PC!IsInjective
<1>3. (/\ HeldIsOfItsPage /\ HeardIsHeld /\ JobsAreInOnePlace
       /\ UnreportedIsUnread /\ JobsReadWhatIsMissing
       /\ \A p \in PC!Page : DataIsInOrder(page_list[p]))'
  BY DEF PageInv, HeldIsOfItsPage, HeardIsHeld, JobsAreInOnePlace, UnreportedIsUnread,
         JobsReadWhatIsMissing, ToSet
<1>4. ListsAreListed(page_list, job, listed, adding)'
  BY DEF ListsAreListed
<1> QED BY <1>2, <1>3, <1>4 DEF PageInv, PC!ParametersAssumption

\* The user starts an annotation.
LEMMA PressKeeps ==
    ASSUME PageInv, PC!Press
    PROVE  PageInv'
<1> DEFINE cp == current_page
<1>1. /\ adding = Null /\ adding' = cp /\ annots[cp] < MaxAnnots
      /\ annots' = [annots EXCEPT ![cp] = @ + 1]
      /\ listed' = [listed EXCEPT ![cp] = @ + 1]
      /\ current_page' = cp /\ misdirected' = misdirected
  BY DEF PC!Press
<1>2. /\ annots \in [PC!Page -> 0 .. MaxAnnots] /\ listed \in [PC!Page -> 0 .. MaxAnnots]
      /\ \A p \in PC!Page : listed[p] <= annots[p]
      /\ cp \in first_page .. last_page /\ first_page \in PC!Page /\ last_page \in PC!Page
      /\ misdirected \subseteq PC!Page
      /\ MaxAnnots \in Nat
  BY DEF PageInv, PC!TypeOK, PC!ParametersAssumption
<1>3. cp \in PC!Page /\ first_page <= last_page
  BY <1>2, PageTypes DEF PC!Page
<1>4. /\ annots' \in [PC!Page -> 0 .. MaxAnnots]
      /\ listed' \in [PC!Page -> 0 .. MaxAnnots]
      /\ \A p \in PC!Page : listed'[p] <= annots'[p]
      /\ \A p \in PC!Page : listed[p] > 0 => listed'[p] > 0
      /\ \A p \in PC!Page : annots[p] > 0 => annots'[p] > 0
      /\ listed'[cp] > 0
      /\ \A p \in PC!Page : p # cp => annots'[p] = annots[p]
  BY <1>1, <1>2, <1>3
<1>5. adding' \in PC!Page \cup {Null}
  BY <1>1, <1>3
<1>6. ListsAreListed(page_list, job, listed', adding')
  BY <1>1, <1>4, PageTypes DEF PageInv, ListsAreListed
<1>7. CASE PC!GetAnnotMapping(cp) = Null
  <2> DEFINE list == Marked(page_list, cp)
  <2>1. PC!SetPageRange(first_page, last_page, list, job)
    BY <1>7 DEF PC!Press, PC!MarkDirty, Marked
  <2>2. /\ list \in [PC!Page -> PageData]
        /\ list[cp].dirty = TRUE
        /\ list[cp].job = page_list[cp].job
        /\ list[cp].asked = page_list[cp].asked
        /\ list[cp].done = page_list[cp].done
        /\ list[cp].mapping = [page_list[cp].mapping EXCEPT !["annots"] = Null]
        /\ \A p \in PC!Page : p # cp => list[p] = page_list[p]
        /\ cp \in Redone(first_page, last_page, list)
    BY <1>2, <1>3, PageTypes, MarkedIsRedone
  <2> HIDE DEF list
  <2>3. page_list[cp].mapping \in [PC!Kinds -> PC!Mapping]
    BY <1>3, PageTypes DEF PageData
  <2>4. /\ list[cp].mapping["annots"] = Null
        /\ list[cp].mapping["links"] = page_list[cp].mapping["links"]
        /\ page_list[cp].mapping = PC!NoMappings => list[cp].mapping = PC!NoMappings
    BY <2>2, <2>3 DEF PC!NoMappings, PC!Kinds
  <2>5. \A p \in PC!Page : DataIsInOrder(list[p])
    BY <2>2, <2>4 DEF PageInv, DataIsInOrder
  <2>6. \A p \in PC!Page : IsCurrent(p, list[p], annots'[p], p \in misdirected')
    BY <1>1, <1>4, <2>2, <2>4 DEF PageInv, IsCurrent
  <2>7. ListsAreListed(list, job, listed', adding')
    <3>1. Null # "the list"
      BY DEF PageInv, PC!ParametersAssumption, PC!Lists
    <3> QED BY <1>6, <2>2, <2>4, <3>1 DEF ListsAreListed
  <2>8. \A j \in DOMAIN job :
         LET p == PC!PageOf(j)
         IN  ~ job[j].cancelled /\ p \notin Redone(first_page, last_page, list) =>
               /\ j \in reports =>
                    HasReadTheCurrent(p, job[j], annots'[p], p \in misdirected')
               /\ j \in reports \/ job[j].read = PC!NoMappings
               /\ list[p].dirty \/ ~ list[p].done
               /\ \A kind \in PC!Kinds :
                    list[p].mapping[kind] = Null => kind \in job[j].flags
    BY <1>1, <1>4, <2>2, LiveJobs
  <2>9. LeftInOrder(first_page, last_page, list, job)
    BY <1>1, <1>2, <1>4, <1>5, <2>5, <2>6, <2>7, <2>8 DEF LeftInOrder
  <2>10. IsGiven(list, job)
    BY <2>2, PageTypes DEF IsGiven
  <2> QED BY <1>2, <1>3, <2>1, <2>9, <2>10, RangeKeeps
<1>8. CASE PC!GetAnnotMapping(cp) # Null
  <2>1. UNCHANGED <<first_page, last_page, page_list, job, queued, reading, reports>>
    BY <1>8 DEF PC!Press, PC!cacheVars
  <2>2. page_list[cp].done => page_list[cp].mapping["annots"] # Null
    BY <1>8 DEF PC!GetAnnotMapping
  <2>3. page_list[cp].done /\ ~ page_list[cp].dirty /\ cp \notin misdirected =>
          annots[cp] > 0
    BY <1>3, <2>2 DEF PageInv, IsCurrent, Annotations
  <2>4. \A p \in PC!Page :
          IsCurrent(p, page_list[p], annots'[p], p \in misdirected')
    BY <1>1, <1>4, <2>3 DEF PageInv, IsCurrent, Annotations
  <2>5. ASSUME NEW j \in reports
        PROVE  LET p == PC!PageOf(j)
               IN  HasReadTheCurrent(p, job[j], annots'[p], p \in misdirected')
    <3>1. /\ j \in DOMAIN job /\ ~ job[j].cancelled
          /\ PC!PageOf(j) \in PC!Page
      BY PageTypes DEF PageInv, JobsAreInOnePlace
    <3>2. HasReadTheCurrent(PC!PageOf(j), job[j], annots[PC!PageOf(j)],
                            PC!PageOf(j) \in misdirected)
      BY <3>1, LiveJobs
    <3>3. CASE PC!PageOf(j) # cp
      BY <1>1, <1>4, <3>1, <3>2, <3>3
    <3>4. CASE PC!PageOf(j) = cp
      <4>1. page_list[cp].job = j /\ (page_list[cp].dirty \/ ~ page_list[cp].done)
        BY <3>1, <3>4, LiveJobs
      <4>2. ~ page_list[cp].done
        BY <1>3, <2>2, <4>1 DEF PageInv, DataIsInOrder
      <4>3. j # Null
        BY PageTypes
      <4>4. job[j].read["annots"] # Null
        BY <1>8, <4>1, <4>2, <4>3 DEF PC!GetAnnotMapping
      <4>5. cp \notin misdirected /\ "annots" \in job[j].flags => annots[cp] > 0
        BY <3>2, <3>4, <4>4 DEF HasReadTheCurrent, Annotations
      <4> QED BY <1>1, <1>3, <1>4, <3>2, <3>4, <4>5 DEF HasReadTheCurrent, Annotations
    <3> QED BY <3>3, <3>4
  <2> QED BY <1>1, <1>2, <1>4, <1>5, <1>6, <2>1, <2>4, <2>5, UserAloneKeeps
<1> QED BY <1>7, <1>8

\* A mapping once the document has dropped the list, if that was its last.
LeftOf(mapping, last) ==
    IF last /\ mapping["annots"] = "the list"
    THEN [mapping EXCEPT !["annots"] = "detached"] ELSE mapping

LEMMA WhatIsLeft ==
    ASSUME NEW mapping \in [PC!Kinds -> PC!Mapping], NEW last \in BOOLEAN,
           Null \notin PC!Lists
    PROVE  LET left == LeftOf(mapping, last)
           IN  /\ left \in [PC!Kinds -> PC!Mapping]
               /\ left["links"] = mapping["links"]
               /\ mapping = PC!NoMappings => left = PC!NoMappings
               /\ mapping["annots"] = Null => left["annots"] = Null
               /\ left["annots"] = Null => mapping["annots"] = Null
               /\ left["annots"] = "the list" => mapping["annots"] = "the list" /\ ~ last
<1>1. Null # "the list" /\ Null # "detached" /\ "the list" # "detached"
  BY DEF PC!Lists
<1>2. [mapping EXCEPT !["annots"] = "detached"] \in [PC!Kinds -> PC!Mapping]
  BY DEF PC!Mapping, PC!Lists
<1>3. /\ [mapping EXCEPT !["annots"] = "detached"]["links"] = mapping["links"]
      /\ [mapping EXCEPT !["annots"] = "detached"]["annots"] = "detached"
      /\ PC!NoMappings["annots"] = Null
  BY DEF PC!Kinds, PC!NoMappings
<1> QED BY <1>1, <1>2, <1>3 DEF LeftOf

\* An annotation is taken back or removed, and the page in sight is marked.
LEMMA RemoveKeeps ==
    ASSUME PageInv, NEW page \in PC!Page, listed[page] > 0,
           PC!RemoveAnnotation(page, current_page),
           current_page' = current_page, adding' = Null,
           misdirected' = IF current_page = page THEN misdirected
                          ELSE misdirected \cup {page}
    PROVE  PageInv'
<1> DEFINE cp == current_page
           last == listed[page] = 1
           left == [page_list EXCEPT ![page].mapping = LeftOf(@, last)]
           jobs == [j \in DOMAIN job |->
                       IF PC!PageOf(j) = page
                       THEN [job[j] EXCEPT !.read = LeftOf(@, last)] ELSE job[j]]
           list == Marked(left, cp)
<1>1. /\ annots' = [annots EXCEPT ![page] = @ - 1]
      /\ listed' = [listed EXCEPT ![page] = @ - 1]
      /\ PC!SetPageRange(first_page, last_page, list, jobs)
  BY DEF PC!RemoveAnnotation, PC!MarkDirty, Marked, LeftOf
<1>2. /\ annots \in [PC!Page -> 0 .. MaxAnnots] /\ listed \in [PC!Page -> 0 .. MaxAnnots]
      /\ \A p \in PC!Page : listed[p] <= annots[p]
      /\ cp \in first_page .. last_page /\ first_page \in PC!Page /\ last_page \in PC!Page
      /\ misdirected \subseteq PC!Page
      /\ MaxAnnots \in Nat /\ Null \notin PC!Lists
  BY DEF PageInv, PC!TypeOK, PC!ParametersAssumption
<1>3. cp \in PC!Page /\ first_page <= last_page
  BY <1>2, PageTypes DEF PC!Page
<1>4. /\ annots' \in [PC!Page -> 0 .. MaxAnnots]
      /\ listed' \in [PC!Page -> 0 .. MaxAnnots]
      /\ \A p \in PC!Page : listed'[p] <= annots'[p]
      /\ listed'[page] = listed[page] - 1
      /\ \A p \in PC!Page : p # page => annots'[p] = annots[p] /\ listed'[p] = listed[p]
      /\ listed[page] \in Nat
  BY <1>1, <1>2
<1>5. \A p \in PC!Page :
        /\ page_list[p] \in PageData
        /\ page_list[p].mapping \in [PC!Kinds -> PC!Mapping]
  BY PageTypes DEF PageData
<1>6. \A j \in DOMAIN job :
        /\ job[j] \in DataJob
        /\ job[j].read \in [PC!Kinds -> PC!Mapping]
        /\ PC!PageOf(j) \in PC!Page
  BY PageTypes DEF DataJob
<1>7. last \in BOOLEAN /\ (~ last => listed'[page] > 0)
  BY <1>4
<1> HIDE DEF last
<1>8. /\ left \in [PC!Page -> PageData]
      /\ \A p \in PC!Page : p # page => left[p] = page_list[p]
      /\ left[page].job = page_list[page].job
      /\ left[page].done = page_list[page].done
      /\ left[page].dirty = page_list[page].dirty
      /\ left[page].asked = page_list[page].asked
      /\ left[page].mapping = LeftOf(page_list[page].mapping, last)
  <2>1. LeftOf(page_list[page].mapping, last) \in [PC!Kinds -> PC!Mapping]
    BY <1>2, <1>5, <1>7, WhatIsLeft
  <2>2. left = [page_list EXCEPT ![page] =
                  [page_list[page] EXCEPT !.mapping = LeftOf(page_list[page].mapping, last)]]
    OBVIOUS
  <2> DEFINE data == [page_list[page] EXCEPT
                        !.mapping = LeftOf(page_list[page].mapping, last)]
  <2>3. /\ data \in PageData
        /\ data.job = page_list[page].job
        /\ data.done = page_list[page].done
        /\ data.dirty = page_list[page].dirty
        /\ data.asked = page_list[page].asked
        /\ data.mapping = LeftOf(page_list[page].mapping, last)
    BY <1>5, <2>1 DEF PageData
  <2>4. left = [page_list EXCEPT ![page] = data]
    BY <2>2
  <2> HIDE DEF data, left
  <2> QED BY <2>3, <2>4, PageTypes
<1>9. /\ left[page].mapping["links"] = page_list[page].mapping["links"]
      /\ page_list[page].mapping = PC!NoMappings => left[page].mapping = PC!NoMappings
      /\ page_list[page].mapping["annots"] = Null <=> left[page].mapping["annots"] = Null
      /\ left[page].mapping["annots"] = "the list" => listed'[page] > 0
  <2> DEFINE m == page_list[page].mapping
             l == LeftOf(m, last)
  <2>1. m \in [PC!Kinds -> PC!Mapping]
    BY <1>5
  <2>2. /\ l["links"] = m["links"]
        /\ m = PC!NoMappings => l = PC!NoMappings
        /\ m["annots"] = Null <=> l["annots"] = Null
    BY <1>2, <1>7, <2>1, WhatIsLeft
  <2>3. l["annots"] = "the list" => ~ last
    BY <1>2, <1>7, <2>1, WhatIsLeft
  <2> QED BY <1>7, <1>8, <2>2, <2>3
<1>10. /\ jobs \in [DOMAIN job -> DataJob]
       /\ \A j \in DOMAIN job : PC!PageOf(j) # page => jobs[j] = job[j]
       /\ \A j \in DOMAIN job : PC!PageOf(j) = page =>
            /\ jobs[j].cancelled = job[j].cancelled
            /\ jobs[j].flags = job[j].flags
            /\ jobs[j].read = LeftOf(job[j].read, last)
            /\ jobs[j].read \in [PC!Kinds -> PC!Mapping]
  <2>1. \A j \in DOMAIN job : LeftOf(job[j].read, last) \in [PC!Kinds -> PC!Mapping]
    BY <1>2, <1>6, <1>7, WhatIsLeft
  <2>2. \A j \in DOMAIN job :
          LET now == [job[j] EXCEPT !.read = LeftOf(job[j].read, last)]
          IN  /\ now \in DataJob
              /\ now.cancelled = job[j].cancelled
              /\ now.flags = job[j].flags
              /\ now.read = LeftOf(job[j].read, last)
    BY <1>6, <2>1 DEF DataJob
  <2> QED BY <1>6, <2>1, <2>2
<1>11. \A j \in DOMAIN job : PC!PageOf(j) = page =>
         /\ jobs[j].read["links"] = job[j].read["links"]
         /\ job[j].read = PC!NoMappings => jobs[j].read = PC!NoMappings
         /\ jobs[j].read["annots"] = "the list" => listed'[page] > 0
  <2> SUFFICES ASSUME NEW j \in DOMAIN job, PC!PageOf(j) = page
               PROVE  /\ jobs[j].read["links"] = job[j].read["links"]
                      /\ job[j].read = PC!NoMappings => jobs[j].read = PC!NoMappings
                      /\ jobs[j].read["annots"] = "the list" => listed'[page] > 0
    OBVIOUS
  <2> DEFINE m == job[j].read
             l == LeftOf(m, last)
  <2>1. m \in [PC!Kinds -> PC!Mapping] /\ jobs[j].read = l
    BY <1>6, <1>10
  <2>2. /\ l["links"] = m["links"]
        /\ m = PC!NoMappings => l = PC!NoMappings
    BY <1>2, <1>7, <2>1, WhatIsLeft
  <2>3. l["annots"] = "the list" => ~ last
    BY <1>2, <1>7, <2>1, WhatIsLeft
  <2> QED BY <1>7, <2>1, <2>2, <2>3
<1> HIDE DEF left, jobs
<1>12. /\ list \in [PC!Page -> PageData]
       /\ list[cp].dirty = TRUE
       /\ list[cp].job = left[cp].job
       /\ list[cp].asked = left[cp].asked
       /\ list[cp].done = left[cp].done
       /\ list[cp].mapping = [left[cp].mapping EXCEPT !["annots"] = Null]
       /\ \A p \in PC!Page : p # cp => list[p] = left[p]
       /\ cp \in Redone(first_page, last_page, list)
  BY <1>2, <1>3, <1>8, MarkedIsRedone
<1> HIDE DEF list
<1>13. left[cp].mapping \in [PC!Kinds -> PC!Mapping]
  BY <1>3, <1>8 DEF PageData
<1>14. /\ list[cp].mapping["annots"] = Null
       /\ list[cp].mapping["links"] = left[cp].mapping["links"]
       /\ left[cp].mapping = PC!NoMappings => list[cp].mapping = PC!NoMappings
  BY <1>12, <1>13 DEF PC!NoMappings, PC!Kinds
<1>15. \A p \in PC!Page :
         /\ list[p].job = page_list[p].job
         /\ list[p].asked = page_list[p].asked
         /\ list[p].done = page_list[p].done
         /\ p # cp => list[p].dirty = page_list[p].dirty
         /\ list[p].mapping["links"] = page_list[p].mapping["links"]
         /\ page_list[p].mapping = PC!NoMappings => list[p].mapping = PC!NoMappings
         /\ page_list[p].mapping["annots"] = Null => list[p].mapping["annots"] = Null
         /\ p # cp /\ list[p].mapping["annots"] = Null =>
              page_list[p].mapping["annots"] = Null
         /\ p # cp /\ p # page => list[p] = page_list[p]
  <2>1. \A p \in PC!Page :
          /\ left[p].job = page_list[p].job
          /\ left[p].asked = page_list[p].asked
          /\ left[p].done = page_list[p].done
          /\ left[p].dirty = page_list[p].dirty
          /\ left[p].mapping["links"] = page_list[p].mapping["links"]
          /\ page_list[p].mapping = PC!NoMappings => left[p].mapping = PC!NoMappings
          /\ page_list[p].mapping["annots"] = Null <=> left[p].mapping["annots"] = Null
          /\ p # page => left[p] = page_list[p]
    BY <1>8, <1>9
  <2>2. \A p \in PC!Page :
          /\ list[p].job = left[p].job
          /\ list[p].asked = left[p].asked
          /\ list[p].done = left[p].done
          /\ p # cp => list[p] = left[p]
          /\ list[p].mapping["links"] = left[p].mapping["links"]
          /\ left[p].mapping = PC!NoMappings => list[p].mapping = PC!NoMappings
          /\ left[p].mapping["annots"] = Null => list[p].mapping["annots"] = Null
    BY <1>12, <1>14
  <2> QED BY <2>1, <2>2
<1>16. \A p \in PC!Page : DataIsInOrder(list[p])
  BY <1>12, <1>14, <1>15 DEF PageInv, DataIsInOrder
<1>17. \A p \in PC!Page : IsCurrent(p, list[p], annots'[p], p \in misdirected')
  BY <1>4, <1>12, <1>15 DEF PageInv, IsCurrent
<1>18. ListsAreListed(list, jobs, listed', adding')
  <2>1. Null # "the list"
    BY <1>2 DEF PC!Lists
  <2>2. DOMAIN jobs = DOMAIN job
    BY <1>10
  <2>3. ASSUME NEW p \in PC!Page, list[p].mapping["annots"] = "the list"
        PROVE  listed'[p] > 0
    <3>1. p # cp /\ list[p] = left[p]
      BY <1>12, <1>14, <2>1, <2>3
    <3>2. CASE p = page
      BY <1>9, <2>3, <3>1, <3>2
    <3>3. CASE p # page
      BY <1>4, <1>8, <2>3, <3>1, <3>3 DEF PageInv, ListsAreListed
    <3> QED BY <3>2, <3>3
  <2>4. ASSUME NEW j \in DOMAIN job, jobs[j].read["annots"] = "the list"
        PROVE  listed'[PC!PageOf(j)] > 0
    <3>1. CASE PC!PageOf(j) = page
      BY <1>11, <2>4, <3>1
    <3>2. CASE PC!PageOf(j) # page
      BY <1>4, <1>6, <1>10, <2>4, <3>2 DEF PageInv, ListsAreListed
    <3> QED BY <3>1, <3>2
  <2> QED BY <2>2, <2>3, <2>4 DEF ListsAreListed
<1>19. ASSUME NEW j \in DOMAIN job, ~ job[j].cancelled,
              PC!PageOf(j) \notin Redone(first_page, last_page, list)
       PROVE  LET p == PC!PageOf(j)
              IN  /\ j \in reports =>
                       HasReadTheCurrent(p, jobs[j], annots'[p], p \in misdirected')
                  /\ j \in reports \/ jobs[j].read = PC!NoMappings
                  /\ list[p].dirty \/ ~ list[p].done
                  /\ \A kind \in PC!Kinds :
                       list[p].mapping[kind] = Null => kind \in jobs[j].flags
  <2> DEFINE p == PC!PageOf(j)
  <2>1. /\ p \in PC!Page
        /\ j \in reports => HasReadTheCurrent(p, job[j], annots[p], p \in misdirected)
        /\ j \in reports \/ job[j].read = PC!NoMappings
        /\ page_list[p].dirty \/ ~ page_list[p].done
        /\ \A kind \in PC!Kinds :
             page_list[p].mapping[kind] = Null => kind \in job[j].flags
    BY <1>19, LiveJobs
  <2>2. p # cp
    BY <1>12, <1>19
  <2>3. jobs[j].flags = job[j].flags
    BY <1>10
  <2>4. \A kind \in PC!Kinds :
          list[p].mapping[kind] = Null => page_list[p].mapping[kind] = Null
    BY <1>15, <2>1, <2>2 DEF PC!Kinds
  <2>5. j \in reports \/ jobs[j].read = PC!NoMappings
    BY <1>10, <1>11, <2>1
  <2>6. p \in misdirected => p \in misdirected'
    OBVIOUS
  <2>7. CASE p = page
    <3>1. p \in misdirected'
      BY <2>2, <2>7
    <3>2. j \in reports => HasReadTheCurrent(p, jobs[j], annots'[p], p \in misdirected')
      BY <1>11, <2>1, <2>3, <2>7, <3>1 DEF HasReadTheCurrent
    <3> QED BY <1>15, <2>1, <2>2, <2>3, <2>4, <2>5, <3>2
  <2>8. CASE p # page
    <3>1. jobs[j] = job[j] /\ annots'[p] = annots[p]
      BY <1>4, <1>10, <2>1, <2>8
    <3>2. p \in misdirected' <=> p \in misdirected
      BY <2>8
    <3> HIDE DEF p
    <3>3. j \in reports => HasReadTheCurrent(p, jobs[j], annots'[p], p \in misdirected')
      BY <2>1, <3>1, <3>2 DEF HasReadTheCurrent
    <3> QED BY <1>15, <2>1, <2>2, <2>3, <2>4, <2>5, <3>3 DEF p
  <2> QED BY <2>7, <2>8
<1>20. LeftInOrder(first_page, last_page, list, jobs)
  <2>1. misdirected' \subseteq PC!Page /\ adding' \in PC!Page \cup {Null}
    BY <1>2
  <2>2. current_page' \in first_page .. last_page
    BY <1>2
  <2> QED BY <1>4, <1>16, <1>17, <1>18, <1>19, <2>1, <2>2 DEF LeftInOrder
<1>21. IsGiven(list, jobs)
  BY <1>10, <1>12, <1>15 DEF IsGiven
<1> QED BY <1>1, <1>2, <1>3, <1>20, <1>21, RangeKeeps

\* The user lets go.
LEMMA ReleaseKeeps ==
    ASSUME PageInv, PC!Release
    PROVE  PageInv'
<1>1. adding # Null /\ adding' = Null /\ current_page' = current_page
  BY DEF PC!Release
<1>2. adding \in PC!Page /\ listed[adding] > 0
  BY <1>1 DEF PageInv, PC!TypeOK, ListsAreListed
<1>3. CASE UNCHANGED <<annots, listed, misdirected, first_page, last_page, page_list,
                       job, queued, reading, reports>>
  <2>1. ListsAreListed(page_list, job, listed', adding')
    BY <1>1, <1>3 DEF PageInv, ListsAreListed
  <2>2. /\ annots' \in [PC!Page -> 0 .. MaxAnnots]
        /\ listed' \in [PC!Page -> 0 .. MaxAnnots]
        /\ \A p \in PC!Page : listed'[p] <= annots'[p]
        /\ current_page' \in first_page .. last_page
        /\ adding' \in PC!Page \cup {Null}
        /\ misdirected' \subseteq PC!Page
    BY <1>1, <1>3 DEF PageInv, PC!TypeOK
  <2>3. /\ \A p \in PC!Page :
             IsCurrent(p, page_list[p], annots'[p], p \in misdirected')
        /\ \A j \in reports :
             LET p == PC!PageOf(j)
             IN  HasReadTheCurrent(p, job[j], annots'[p], p \in misdirected')
    BY <1>3 DEF PageInv
  <2> QED BY <1>3, <2>1, <2>2, <2>3, UserAloneKeeps
<1>4. CASE /\ PC!RemoveAnnotation(adding, current_page)
           /\ misdirected' = IF current_page = adding THEN misdirected
                             ELSE misdirected \cup {adding}
  BY <1>1, <1>2, <1>4, RemoveKeeps
<1> QED BY <1>3, <1>4 DEF PC!Release, PC!cacheVars

\* The user removes an annotation in sight.
LEMMA RemoveFromMenuKeeps ==
    ASSUME PageInv, PC!RemoveFromMenu
    PROVE  PageInv'
<1> DEFINE cp == current_page
<1>1. /\ adding' = Null /\ current_page' = cp /\ misdirected' = misdirected
      /\ PC!GetAnnotMapping(cp) = "the list"
      /\ PC!RemoveAnnotation(cp, cp)
  BY DEF PC!RemoveFromMenu
<1>2. cp \in PC!Page
  BY PageTypes DEF PageInv, PC!TypeOK, PC!Page
<1>3. listed[cp] > 0
  <2>1. CASE ~ page_list[cp].done /\ page_list[cp].job # Null
    <3>1. /\ page_list[cp].job \in DOMAIN job
          /\ PC!PageOf(page_list[cp].job) = cp
      BY <1>2, <2>1, PageTypes DEF PageInv, HeldIsOfItsPage
    <3>2. job[page_list[cp].job].read["annots"] = "the list"
      BY <1>1, <2>1 DEF PC!GetAnnotMapping
    <3> QED BY <3>1, <3>2 DEF PageInv, ListsAreListed
  <2>2. CASE page_list[cp].done \/ page_list[cp].job = Null
    BY <1>1, <1>2, <2>2 DEF PC!GetAnnotMapping, PageInv, ListsAreListed
  <2> QED BY <2>1, <2>2
<1> QED BY <1>1, <1>2, <1>3, RemoveKeeps

-----------------------------------------------------------------------------
(* PageCache: what the jobs do *)

\* What a step leaves when it is the scheduler's or the main loop's.
LEMMA UserUnchanged ==
    ASSUME PageInv,
           UNCHANGED <<annots, current_page, adding, first_page, last_page, misdirected>>
    PROVE  /\ annots' \in [PC!Page -> 0 .. MaxAnnots]
           /\ current_page' \in first_page' .. last_page'
           /\ adding' \in PC!Page \cup {Null}
           /\ misdirected' \subseteq PC!Page
           /\ first_page' \in PC!Page /\ last_page' \in PC!Page
           /\ PC!ParametersAssumption'
BY DEF PageInv, PC!TypeOK, PC!ParametersAssumption

\* The worker takes a job.
LEMMA TakeJobKeeps ==
    ASSUME PageInv, PC!TakeJob
    PROVE  PageInv'
<1>1. /\ reading = Null /\ queued # <<>>
      /\ reading' = Head(queued) /\ queued' = Tail(queued)
      /\ UNCHANGED <<annots, listed, current_page, adding, first_page, last_page,
                     misdirected, page_list, job, reports>>
  BY DEF PC!TakeJob, PC!userVars, PC!cacheVars
<1>2. /\ reading' \in PC!Job /\ queued' \in Seq(PC!Job) /\ IsInjective(queued')
      /\ ToSet(queued) = {reading'} \cup ToSet(queued')
      /\ reading' \notin ToSet(queued')
  BY <1>1, PageTypes, TailPops
<1>3. DOMAIN job' = PC!Alive' \ {Null}
  <2>1. /\ PC!Alive' = {page_list[p].job : p \in PC!Page} \cup ToSet(queued')
                         \cup {reading'} \cup reports
        /\ PC!Alive = {page_list[p].job : p \in PC!Page} \cup ToSet(queued)
                         \cup {reading} \cup reports
    BY <1>1, SameOperators DEF PC!Alive, PC!Referenced
  <2> QED BY <1>1, <1>2, <2>1, PageTypes
<1>4. PC!TypeOK'
  <2>1. PC!IsInjective(queued')
    BY <1>2, SameOperators
  <2> QED BY <1>1, <1>2, <1>3, <2>1 DEF PageInv, PC!TypeOK
<1>5. JobsAreInOnePlace'
  BY <1>1, <1>2 DEF PageInv, JobsAreInOnePlace
<1>6. (HeldIsOfItsPage /\ HeardIsHeld /\ UnreportedIsUnread /\ JobsReadWhatIsMissing)'
  BY <1>1 DEF PageInv, HeldIsOfItsPage, HeardIsHeld, UnreportedIsUnread,
              JobsReadWhatIsMissing
<1>7. /\ \A p \in PC!Page : DataIsInOrder(page_list'[p])
      /\ ListsAreListed(page_list, job, listed, adding)'
      /\ \A p \in PC!Page :
           IsCurrent(p, page_list'[p], annots'[p], p \in misdirected')
      /\ \A j \in reports' :
           LET p == PC!PageOf(j)
           IN  HasReadTheCurrent(p, job'[j], annots'[p], p \in misdirected')
  BY <1>1 DEF PageInv, ListsAreListed
<1> QED BY <1>1, <1>4, <1>5, <1>6, <1>7, UserUnchanged DEF PageInv

\* The worker reads a page and reports, unless it was called off.
LEMMA ReadPageKeeps ==
    ASSUME PageInv, PC!ReadPage
    PROVE  PageInv'
<1> DEFINE r == reading
           page == PC!PageOf(r)
           found == [kind \in PC!Kinds |->
                       IF kind \in job[r].flags THEN PC!Contents(page)[kind] ELSE Null]
           after == [job[r] EXCEPT !.read = found]
<1>1. /\ r # Null
      /\ listed' = IF "annots" \in job[r].flags /\ listed[page] = 0
                   THEN [listed EXCEPT ![page] = annots[page]] ELSE listed
      /\ reports' = IF job[r].cancelled THEN reports ELSE reports \cup {r}
      /\ reading' = Null
      /\ UNCHANGED <<annots, current_page, adding, misdirected, first_page, last_page,
                     page_list, queued>>
      /\ job' = [j \in PC!Alive' \ {Null} |-> [job EXCEPT ![r].read = found][j]]
  BY DEF PC!ReadPage, PC!cacheVars, PC!Unref, PC!Alive, PC!Referenced
<1>2. /\ r \in DOMAIN job /\ r \in PC!Job /\ page \in PC!Page
      /\ job[r] \in DataJob
      /\ annots \in [PC!Page -> 0 .. MaxAnnots] /\ listed \in [PC!Page -> 0 .. MaxAnnots]
      /\ \A p \in PC!Page : listed[p] <= annots[p]
      /\ MaxAnnots \in Nat /\ Null \notin PC!Lists
  BY <1>1, PageTypes DEF PageInv, PC!TypeOK, PC!ParametersAssumption
<1>3. /\ PC!Contents(page)["annots"] = Annotations(annots[page])
      /\ PC!Contents(page)["links"] = Links(page)
      /\ PC!Contents(page) \in [PC!Kinds -> PC!Mapping]
  <2>1. PC!Contents(page) =
          [annots |-> Annotations(annots[page]), links |-> Links(page)]
    BY DEF PC!Contents, Annotations, Links
  <2>2. Annotations(annots[page]) \in PC!Mapping /\ Links(page) \in PC!Mapping
    BY DEF Annotations, Links, PC!Mapping, PC!Lists
  <2> HIDE DEF page
  <2> QED BY <2>1, <2>2 DEF PC!Kinds
<1>4. /\ found \in [PC!Kinds -> PC!Mapping]
      /\ "annots" \in job[r].flags => found["annots"] = Annotations(annots[page])
      /\ "links" \in job[r].flags => found["links"] = Links(page)
      /\ found["annots"] = "the list" =>
           "annots" \in job[r].flags /\ Annotations(annots[page]) = "the list"
  <2>1. Null # "the list"
    BY <1>2 DEF PC!Lists
  <2>2. "annots" \in PC!Kinds /\ "links" \in PC!Kinds
    BY DEF PC!Kinds
  <2> QED BY <1>3, <2>1, <2>2 DEF PC!Mapping
<1> HIDE DEF found
<1>5. /\ after \in DataJob /\ after.flags = job[r].flags
      /\ after.cancelled = job[r].cancelled /\ after.read = found
  BY <1>2, <1>4 DEF DataJob
<1> HIDE DEF after
<1>6. /\ r \notin ToSet(queued) \cup reports
      /\ ToSet(queued) \cap reports = {}
      /\ \A j \in ToSet(queued) \cup reports : ~ job[j].cancelled
  BY DEF PageInv, JobsAreInOnePlace
<1>7. /\ DOMAIN job' = PC!Alive' \ {Null}
      /\ DOMAIN job' \subseteq DOMAIN job
      /\ \A p \in PC!Page : page_list[p].job # Null => page_list[p].job \in DOMAIN job'
      /\ \A j \in ToSet(queued) \cup reports' : j \in DOMAIN job'
  <2>1. PC!Alive' = {page_list[p].job : p \in PC!Page} \cup ToSet(queued)
                      \cup {Null} \cup reports'
    BY <1>1, SameOperators DEF PC!Alive, PC!Referenced
  <2>2. PC!Alive = {page_list[p].job : p \in PC!Page} \cup ToSet(queued)
                     \cup {r} \cup reports
    BY SameOperators DEF PC!Alive, PC!Referenced
  <2>3. DOMAIN job' = PC!Alive' \ {Null}
    BY <1>1
  <2>4. reports' \subseteq reports \cup {r}
    BY <1>1
  <2>5. \A j \in ToSet(queued) \cup reports' : j # Null
    BY <1>1, <1>2, <2>4, PageTypes
  <2> QED BY <1>1, <2>1, <2>2, <2>3, <2>4, <2>5, PageTypes
<1>8. /\ \A j \in DOMAIN job' : j # r => job'[j] = job[j]
      /\ r \in DOMAIN job' => job'[r] = after
  <2>1. \A j \in DOMAIN job' : job'[j] = [job EXCEPT ![r].read = found][j]
    BY <1>1
  <2>2. [job EXCEPT ![r].read = found] = [job EXCEPT ![r] = after]
    BY <1>2 DEF after
  <2> QED BY <1>2, <1>7, <2>1, <2>2, PageTypes
<1>9. /\ listed' \in [PC!Page -> 0 .. MaxAnnots]
      /\ \A p \in PC!Page : listed'[p] <= annots[p]
      /\ \A p \in PC!Page : listed[p] > 0 => listed'[p] > 0
      /\ "annots" \in job[r].flags /\ annots[page] > 0 => listed'[page] > 0
  BY <1>1, <1>2
<1>10. /\ \A j \in DOMAIN job' :
           /\ j \in DOMAIN job /\ job'[j] \in DataJob
           /\ job'[j].flags = job[j].flags /\ job'[j].cancelled = job[j].cancelled
  BY <1>5, <1>7, <1>8, PageTypes
<1>11. PC!TypeOK'
  <2>1. job' = [j \in DOMAIN job' |-> job'[j]]
    BY <1>1
  <2>2. job' \in [DOMAIN job' -> DataJob]
    BY <1>10, <2>1
  <2>3. DOMAIN job' \subseteq PC!Job
    BY <1>7, PageTypes
  <2>4. reports' \subseteq PC!Job
    BY <1>1, <1>2, PageTypes
  <2>5. PC!IsInjective(queued')
    BY <1>1 DEF PageInv, PC!TypeOK
  <2> QED BY <1>1, <1>7, <1>9, <2>2, <2>3, <2>4, <2>5 DEF PageInv, PC!TypeOK, DataJob
<1>12. HeldIsOfItsPage'
  <2> SUFFICES ASSUME NEW p \in PC!Page, page_list[p].job # Null
               PROVE  /\ PC!PageOf(page_list[p].job) = p
                      /\ ~ job'[page_list[p].job].cancelled
                      /\ page_list[p].asked
    BY <1>1 DEF HeldIsOfItsPage
  <2>1. /\ PC!PageOf(page_list[p].job) = p
        /\ ~ job[page_list[p].job].cancelled
        /\ page_list[p].asked
    BY DEF PageInv, HeldIsOfItsPage
  <2> QED BY <1>7, <1>10, <2>1
<1>13. HeardIsHeld'
  BY <1>1, <1>10 DEF PageInv, HeardIsHeld
<1>14. JobsAreInOnePlace'
  <2>1. Null \notin ToSet(queued) \cup reports'
    BY <1>1, <1>2, PageTypes
  <2>2. \A j \in ToSet(queued) \cup reports' : ~ job'[j].cancelled
    BY <1>1, <1>6, <1>7, <1>10
  <2>3. ToSet(queued) \cap reports' = {}
    BY <1>1, <1>6
  <2> QED BY <1>1, <2>1, <2>2, <2>3 DEF JobsAreInOnePlace
<1>15. UnreportedIsUnread'
  <2> SUFFICES ASSUME NEW j \in DOMAIN job', ~ job'[j].cancelled
               PROVE  j \in reports' \/ job'[j].read = PC!NoMappings
    BY DEF UnreportedIsUnread
  <2>1. CASE j = r
    BY <1>1, <1>10, <2>1
  <2>2. CASE j # r
    BY <1>1, <1>8, <1>10, <2>2 DEF PageInv, UnreportedIsUnread
  <2> QED BY <2>1, <2>2
<1>16. JobsReadWhatIsMissing'
  BY <1>1, <1>10 DEF PageInv, JobsReadWhatIsMissing
<1>17. ListsAreListed(page_list, job, listed, adding)'
  <2>1. \A p \in PC!Page : page_list[p].mapping["annots"] = "the list" => listed'[p] > 0
    BY <1>9 DEF PageInv, ListsAreListed
  <2>2. ASSUME NEW j \in DOMAIN job', job'[j].read["annots"] = "the list"
        PROVE  listed'[PC!PageOf(j)] > 0
    <3>1. CASE j = r
      <4>1. found["annots"] = "the list"
        BY <1>5, <1>8, <2>2, <3>1
      <4>2. annots[page] > 0
        BY <1>2, <1>4, <4>1 DEF Annotations, PC!Lists
      <4> QED BY <1>4, <1>9, <3>1, <4>1, <4>2
    <3>2. CASE j # r
      BY <1>8, <1>9, <1>10, <2>2, <3>2, PageTypes DEF PageInv, ListsAreListed
    <3> QED BY <3>1, <3>2
  <2>3. adding # Null => listed'[adding] > 0
    BY <1>9 DEF PageInv, ListsAreListed, PC!TypeOK
  <2> QED BY <1>1, <2>1, <2>2, <2>3 DEF ListsAreListed
<1>18. /\ \A p \in PC!Page : DataIsInOrder(page_list'[p])
       /\ \A p \in PC!Page :
            IsCurrent(p, page_list'[p], annots'[p], p \in misdirected')
  BY <1>1 DEF PageInv
<1>19. \A j \in reports' :
         LET p == PC!PageOf(j)
         IN  HasReadTheCurrent(p, job'[j], annots'[p], p \in misdirected')
  <2> SUFFICES ASSUME NEW j \in reports'
               PROVE  HasReadTheCurrent(PC!PageOf(j), job'[j], annots[PC!PageOf(j)],
                                        PC!PageOf(j) \in misdirected)
    BY <1>1
  <2>1. CASE j = r
    <3>1. job'[r] = after
      BY <1>7, <1>8, <2>1
    <3> QED BY <1>4, <1>5, <2>1, <3>1 DEF HasReadTheCurrent
  <2>2. CASE j # r
    BY <1>1, <1>7, <1>8, <2>2 DEF PageInv
  <2> QED BY <2>1, <2>2
<1> QED BY <1>1, <1>11, <1>12, <1>13, <1>14, <1>15, <1>16, <1>17, <1>18, <1>19,
           UserUnchanged DEF PageInv

\* The main loop hears of a job: its page takes over what it has read.
LEMMA EmitFinishedKeeps ==
    ASSUME PageInv, NEW r \in reports, PC!EmitFinished(r)
    PROVE  PageInv'
<1> DEFINE page == PC!PageOf(r)
           was == page_list[page]
           merged == PC!Merged(was, job[r])
           now == [was EXCEPT !.mapping = merged, !.done = TRUE, !.dirty = FALSE,
                              !.job = Null]
<1>1. /\ reports' = reports \ {r}
      /\ page_list' = [page_list EXCEPT ![page] = now]
      /\ UNCHANGED <<annots, listed, current_page, adding, misdirected, first_page,
                     last_page, queued, reading>>
      /\ job' = [j \in PC!Alive' \ {Null} |-> job[j]]
  <2>1. page_list' = [page_list EXCEPT ![page] = now]
    BY DEF PC!EmitFinished, PC!Finished
  <2>2. job' = [j \in PC!Alive' \ {Null} |-> job[j]]
    BY DEF PC!EmitFinished, PC!Unref, PC!Alive, PC!Referenced
  <2> HIDE DEF page, now
  <2> QED BY <2>1, <2>2 DEF PC!EmitFinished, PC!userVars
<1>2. /\ r \in DOMAIN job /\ ~ job[r].cancelled /\ job[r] \in DataJob
      /\ page \in PC!Page /\ was \in PageData /\ was.job = r
      /\ r # Null
      /\ HasReadTheCurrent(page, job[r], annots[page], page \in misdirected)
      /\ was.dirty \/ ~ was.done
      /\ \A kind \in PC!Kinds : was.mapping[kind] = Null => kind \in job[r].flags
  <2>1. r \in DOMAIN job /\ ~ job[r].cancelled /\ job[r] \in DataJob /\ r # Null
    BY PageTypes DEF PageInv, JobsAreInOnePlace
  <2>2. page \in PC!Page /\ was \in PageData
    BY <2>1, PageTypes
  <2> QED BY <2>1, <2>2, LiveJobs
<1>3. was.asked
  BY <1>2 DEF PageInv, HeldIsOfItsPage
<1>4. /\ merged \in [PC!Kinds -> PC!Mapping]
      /\ merged["annots"] = IF "annots" \in job[r].flags THEN job[r].read["annots"]
                            ELSE was.mapping["annots"]
      /\ merged["links"] = IF "links" \in job[r].flags THEN job[r].read["links"]
                           ELSE was.mapping["links"]
  BY <1>2 DEF PC!Merged, PageData, DataJob, PC!Kinds
<1> HIDE DEF merged
<1>5. /\ now \in PageData /\ now.job = Null /\ now.done = TRUE /\ now.dirty = FALSE
      /\ now.asked = was.asked /\ now.mapping = merged
  BY <1>2, <1>4 DEF PageData
<1> HIDE DEF now
<1>6. /\ page_list' \in [PC!Page -> PageData]
      /\ page_list'[page] = now
      /\ \A p \in PC!Page : p # page => page_list'[p] = page_list[p]
  BY <1>1, <1>2, <1>5, PageTypes
<1>7. /\ reading \notin ToSet(queued) \cup reports
      /\ ToSet(queued) \cap reports = {}
      /\ \A j \in ToSet(queued) \cup reports : ~ job[j].cancelled
  BY DEF PageInv, JobsAreInOnePlace
<1>8. \A p \in PC!Page : p # page => page_list[p].job # r
  BY <1>2 DEF PageInv, HeldIsOfItsPage
<1>9. /\ DOMAIN job' = PC!Alive' \ {Null}
      /\ DOMAIN job' = DOMAIN job \ {r}
      /\ \A j \in DOMAIN job' : job'[j] = job[j]
  <2>1. PC!Alive' = {page_list'[p].job : p \in PC!Page} \cup ToSet(queued)
                      \cup {reading} \cup (reports \ {r})
    BY <1>1, SameOperators DEF PC!Alive, PC!Referenced
  <2>2. PC!Alive = {page_list[p].job : p \in PC!Page} \cup ToSet(queued)
                     \cup {reading} \cup reports
    BY SameOperators DEF PC!Alive, PC!Referenced
  <2>3. {page_list'[p].job : p \in PC!Page} \ {Null}
          = ({page_list[p].job : p \in PC!Page} \ {Null}) \ {r}
    <3>1. \A p \in PC!Page :
            page_list'[p].job = IF p = page THEN Null ELSE page_list[p].job
      BY <1>5, <1>6
    <3> QED BY <1>2, <1>8, <3>1
  <2>4. r # reading /\ r \notin ToSet(queued)
    BY <1>7
  <2>5. PC!Alive' \ {Null} = (PC!Alive \ {Null}) \ {r}
    BY <2>1, <2>2, <2>3, <2>4
  <2>6. DOMAIN job = PC!Alive \ {Null}
    BY PageTypes
  <2> QED BY <1>1, <2>5, <2>6
<1>10. \A j \in DOMAIN job' :
         j \in DOMAIN job /\ (~ job[j].cancelled => PC!PageOf(j) \in PC!Page \ {page})
  BY <1>2, <1>9, PageTypes DEF PageInv, HeardIsHeld
<1>11. PC!TypeOK'
  <2>1. job' \in [DOMAIN job' -> DataJob]
    <3>1. job' = [j \in DOMAIN job' |-> job'[j]]
      BY <1>1
    <3>2. \A j \in DOMAIN job' : job'[j] \in DataJob
      BY <1>9, PageTypes
    <3> QED BY <3>1, <3>2
  <2>2. DOMAIN job' \subseteq PC!Job
    BY <1>9, PageTypes
  <2>3. reports' \subseteq PC!Job
    BY <1>1, PageTypes
  <2>4. PC!IsInjective(queued')
    BY <1>1 DEF PageInv, PC!TypeOK
  <2> QED BY <1>1, <1>6, <1>9, <2>1, <2>2, <2>3, <2>4
          DEF PageInv, PC!TypeOK, PageData, DataJob
<1>12. HeldIsOfItsPage'
  <2> SUFFICES ASSUME NEW p \in PC!Page, page_list'[p].job # Null
               PROVE  /\ PC!PageOf(page_list'[p].job) = p
                      /\ ~ job'[page_list'[p].job].cancelled
                      /\ page_list'[p].asked
    BY DEF HeldIsOfItsPage
  <2>1. p # page /\ page_list'[p] = page_list[p]
    BY <1>5, <1>6
  <2>2. page_list[p].job \in DOMAIN job'
    BY <1>8, <1>9, <2>1, PageTypes
  <2> QED BY <1>9, <2>1, <2>2 DEF PageInv, HeldIsOfItsPage
<1>13. HeardIsHeld' /\ JobsReadWhatIsMissing'
  <2> SUFFICES ASSUME NEW j \in DOMAIN job', ~ job'[j].cancelled
               PROVE  LET data == page_list'[PC!PageOf(j)]
                      IN  /\ data.job = j
                          /\ data.dirty \/ ~ data.done
                          /\ \A kind \in PC!Kinds :
                               data.mapping[kind] = Null => kind \in job'[j].flags
    BY DEF HeardIsHeld, JobsReadWhatIsMissing
  <2>1. j \in DOMAIN job /\ job'[j] = job[j] /\ ~ job[j].cancelled
    BY <1>9
  <2>2. page_list'[PC!PageOf(j)] = page_list[PC!PageOf(j)]
    BY <1>6, <1>10, <2>1
  <2> QED BY <2>1, <2>2, LiveJobs
<1>14. JobsAreInOnePlace'
  <2>1. \A j \in ToSet(queued) \cup (reports \ {r}) : j \in DOMAIN job'
    BY <1>7, <1>9, PageTypes
  <2> QED BY <1>1, <1>7, <1>9, <2>1 DEF JobsAreInOnePlace
<1>15. UnreportedIsUnread'
  BY <1>1, <1>9 DEF PageInv, UnreportedIsUnread
<1>16. \A p \in PC!Page : DataIsInOrder(page_list'[p])
  BY <1>3, <1>5, <1>6 DEF PageInv, DataIsInOrder
<1>17. ListsAreListed(page_list, job, listed, adding)'
  <2>1. \A p \in PC!Page :
          page_list'[p].mapping["annots"] = "the list" => listed[p] > 0
    BY <1>2, <1>4, <1>5, <1>6 DEF PageInv, ListsAreListed
  <2>2. \A j \in DOMAIN job' :
          job'[j].read["annots"] = "the list" => listed[PC!PageOf(j)] > 0
    BY <1>9 DEF PageInv, ListsAreListed
  <2> QED BY <1>1, <2>1, <2>2 DEF PageInv, ListsAreListed
<1>18. \A p \in PC!Page :
         IsCurrent(p, page_list'[p], annots'[p], p \in misdirected')
  <2>1. IsCurrent(page, was, annots[page], page \in misdirected)
    BY <1>2 DEF PageInv
  <2>2. /\ was.dirty => was.mapping["annots"] = Null
        /\ ~ was.done => was.mapping["annots"] = Null
    BY <1>2 DEF PageInv, DataIsInOrder, PC!NoMappings, PC!Kinds
  <2>3. "annots" \in job[r].flags
    BY <1>2, <2>2 DEF PC!Kinds
  <2>4. merged["links"] = Links(page)
    BY <1>2, <1>4, <2>1 DEF IsCurrent, HasReadTheCurrent, PC!Kinds
  <2>5. page \notin misdirected => merged["annots"] = Annotations(annots[page])
    BY <1>2, <1>4, <2>3 DEF HasReadTheCurrent
  <2>6. IsCurrent(page, now, annots[page], page \in misdirected)
    BY <1>5, <2>4, <2>5 DEF IsCurrent
  <2>7. \A p \in PC!Page : p # page =>
          IsCurrent(p, page_list'[p], annots'[p], p \in misdirected')
    BY <1>1, <1>6 DEF PageInv
  <2>8. IsCurrent(page, page_list'[page], annots'[page], page \in misdirected')
    BY <1>1, <1>6, <2>6
  <2> QED BY <2>7, <2>8
<1>19. \A j \in reports' :
         LET p == PC!PageOf(j)
         IN  HasReadTheCurrent(p, job'[j], annots'[p], p \in misdirected')
  BY <1>1, <1>9, PageTypes DEF PageInv
<1> QED BY <1>1, <1>11, <1>12, <1>13, <1>14, <1>15, <1>16, <1>17, <1>18, <1>19,
           UserUnchanged DEF PageInv

-----------------------------------------------------------------------------
(* PageCache: the theorems *)

\* The view of a document is set up with the job of its first page.
LEMMA PageInit ==
    ASSUME PC!ParametersAssumption, PC!Init
    PROVE  PageInv
<1> DEFINE first == <<0, PC!Min(JobSerials)>>
<1>1. PC!Min(JobSerials) \in JobSerials
  BY LeastIs DEF PC!ParametersAssumption
<1>2. /\ 0 \in PC!Page /\ PageCount \in Nat \ {0} /\ MaxAnnots \in Nat \ {0}
      /\ Null \notin PC!Job /\ Null \notin PC!Lists
      /\ first \in PC!Job /\ PC!PageOf(first) = 0
  BY <1>1 DEF PC!ParametersAssumption, PC!Page, PC!Job, PC!PageOf
<1> HIDE DEF first
<1>3. /\ annots \in [PC!Page -> 0 .. 1]
      /\ listed = [p \in PC!Page |-> 0]
      /\ current_page = 0 /\ adding = Null /\ first_page = 0 /\ last_page = 0
      /\ page_list = [p \in PC!Page |->
                        [job |-> IF p = 0 THEN first ELSE Null, done |-> FALSE,
                         dirty |-> FALSE, asked |-> p = 0,
                         mapping |-> PC!NoMappings]]
      /\ queued = <<first>>
      /\ job = [j \in {first} |-> PC!Unread(PC!Kinds)]
      /\ reading = Null /\ reports = {} /\ misdirected = {}
  BY DEF PC!Init, first
<1>4. /\ PC!NoMappings \in [PC!Kinds -> PC!Mapping]
      /\ PC!NoMappings["annots"] = Null /\ PC!NoMappings["links"] = Null
  BY DEF PC!NoMappings, PC!Mapping, PC!Kinds
<1>5. /\ DOMAIN job = {first} /\ job[first] = PC!Unread(PC!Kinds)
      /\ job[first] \in DataJob /\ job[first].flags = PC!Kinds
      /\ job[first].read = PC!NoMappings /\ job[first].cancelled = FALSE
  BY <1>3, <1>4 DEF PC!Unread, DataJob
<1>6. \A p \in PC!Page :
        /\ page_list[p] \in PageData
        /\ page_list[p].job = IF p = 0 THEN first ELSE Null
        /\ page_list[p].done = FALSE /\ page_list[p].dirty = FALSE
        /\ page_list[p].asked = (p = 0)
        /\ page_list[p].mapping = PC!NoMappings
  BY <1>2, <1>3, <1>4 DEF PageData
<1>7. ToSet(queued) = {first} /\ queued \in Seq(PC!Job) /\ IsInjective(queued)
  BY <1>2, <1>3 DEF ToSet, IsInjective
<1>8. DOMAIN job = PC!Alive \ {Null}
  <2>1. PC!Alive = {page_list[p].job : p \in PC!Page} \cup {first} \cup {Null} \cup {}
    BY <1>3, <1>7, SameOperators DEF PC!Alive, PC!Referenced
  <2>2. first # Null
    BY <1>2
  <2> QED BY <1>5, <1>6, <2>1, <2>2
<1>9. PC!TypeOK
  <2>1. page_list \in [PC!Page -> PageData]
    BY <1>3, <1>6
  <2>2. job \in [DOMAIN job -> DataJob]
    BY <1>3, <1>5
  <2>3. PC!IsInjective(queued)
    BY <1>7, SameOperators
  <2>4. /\ annots \in [PC!Page -> 0 .. MaxAnnots]
        /\ listed \in [PC!Page -> 0 .. MaxAnnots]
        /\ \A p \in PC!Page : listed[p] <= annots[p]
    BY <1>2, <1>3
  <2> QED BY <1>2, <1>3, <1>5, <1>7, <1>8, <2>1, <2>2, <2>3, <2>4
          DEF PC!TypeOK, PageData, DataJob
<1>10. HeldIsOfItsPage /\ HeardIsHeld /\ UnreportedIsUnread
  BY <1>2, <1>5, <1>6 DEF HeldIsOfItsPage, HeardIsHeld, UnreportedIsUnread
<1>11. JobsAreInOnePlace
  BY <1>2, <1>3, <1>5, <1>7 DEF JobsAreInOnePlace
<1>12. JobsReadWhatIsMissing
  BY <1>2, <1>5, <1>6 DEF JobsReadWhatIsMissing
<1>13. \A p \in PC!Page : DataIsInOrder(page_list[p])
  BY <1>4, <1>6 DEF DataIsInOrder
<1>14. ListsAreListed(page_list, job, listed, adding)
  <2>1. Null # "the list"
    BY <1>2 DEF PC!Lists
  <2> QED BY <1>3, <1>4, <1>5, <1>6, <2>1 DEF ListsAreListed
<1>15. \A p \in PC!Page :
         IsCurrent(p, page_list[p], annots[p], p \in misdirected)
  BY <1>4, <1>6 DEF IsCurrent
<1> QED BY <1>2, <1>3, <1>9, <1>10, <1>11, <1>12, <1>13, <1>14, <1>15 DEF PageInv

\* Every step keeps the cache in order.
LEMMA PageNext ==
    ASSUME PageInv, [PC!Next]_PC!vars
    PROVE  PageInv'
<1>1. CASE \E page, start, end \in PC!Page : PC!Scroll(page, start, end)
  BY <1>1, ScrollKeeps
<1>2. CASE PC!Press
  BY <1>2, PressKeeps
<1>3. CASE PC!Release
  BY <1>3, ReleaseKeeps
<1>4. CASE PC!RemoveFromMenu
  BY <1>4, RemoveFromMenuKeeps
<1>5. CASE PC!TakeJob
  BY <1>5, TakeJobKeeps
<1>6. CASE PC!ReadPage
  BY <1>6, ReadPageKeeps
<1>7. CASE \E j \in reports : PC!EmitFinished(j)
  BY <1>7, EmitFinishedKeeps
<1>8. CASE UNCHANGED PC!vars
  <2>1. UNCHANGED <<annots, listed, current_page, adding, misdirected, first_page,
                    last_page, page_list, job, queued, reading, reports>>
    BY <1>8 DEF PC!vars, PC!userVars, PC!cacheVars
  <2>2. /\ annots' \in [PC!Page -> 0 .. MaxAnnots]
        /\ listed' \in [PC!Page -> 0 .. MaxAnnots]
        /\ \A p \in PC!Page : listed'[p] <= annots'[p]
        /\ current_page' \in first_page .. last_page
        /\ adding' \in PC!Page \cup {Null}
        /\ misdirected' \subseteq PC!Page
        /\ ListsAreListed(page_list, job, listed', adding')
        /\ \A p \in PC!Page :
             IsCurrent(p, page_list[p], annots'[p], p \in misdirected')
        /\ \A j \in reports :
             LET p == PC!PageOf(j)
             IN  HasReadTheCurrent(p, job[j], annots'[p], p \in misdirected')
    BY <2>1 DEF PageInv, PC!TypeOK
  <2> QED BY <2>1, <2>2, UserAloneKeeps
<1> QED BY <1>1, <1>2, <1>3, <1>4, <1>5, <1>6, <1>7, <1>8
        DEF PC!Next, PC!User, PC!Worker, PC!MainLoop

\* The cache is always in order.
LEMMA PageInvHolds == PagesSpec => []PageInv
<1>1. PC!Init => PageInv
  BY PageInit, PagesAssumption
<1>2. PageInv /\ [PC!Next]_PC!vars => PageInv'
  BY PageNext
<1> QED BY <1>1, <1>2, PTL DEF PagesSpec, PC!Spec

\* Types, and a job whose page-data callback can still be called is the one its
\* page holds: job_page_data_finished_cb never fills a page from a job that was
\* replaced, however edits, movements and the worker interleave.
THEOREM PageReportsAreOfHeldJobs == PagesSpec => []ReportsAreOfHeldJobs
<1>1. PageInv => ReportsAreOfHeldJobs
  BY DEF PageInv, HeardIsHeld, ReportsAreOfHeldJobs, PC!ReportsAreOfHeldJobs
<1> QED BY <1>1, PageInvHolds, PTL

\* A page of the range that the cache takes for read and clean has the document's
\* own list of annotations, and its links, unless ev_view marked another page than
\* the one it edited.
THEOREM PagesAreCurrent == PagesSpec => []CachedIsCurrent
<1>1. PageInv => CachedIsCurrent
  <2> SUFFICES ASSUME PageInv, NEW p \in (first_page .. last_page) \ misdirected,
                      page_list[p].done, ~ page_list[p].dirty
               PROVE  page_list[p].mapping = PC!Contents(p)
    BY DEF CachedIsCurrent, PC!CachedIsCurrent
  <2>1. p \in PC!Page
    BY PageTypes DEF PageInv, PC!Page
  <2>2. /\ page_list[p].mapping["links"] = Links(p)
        /\ page_list[p].mapping["annots"] = Annotations(annots[p])
    BY <2>1 DEF PageInv, IsCurrent
  <2>3. page_list[p].mapping \in [PC!Kinds -> PC!Mapping]
    BY <2>1, PageTypes DEF PageData
  <2>4. PC!Contents(p) = [annots |-> Annotations(annots[p]), links |-> Links(p)]
    BY DEF PC!Contents, Annotations, Links
  <2> DEFINE m == page_list[p].mapping
  <2>5. m = [kind \in PC!Kinds |-> m[kind]]
    BY <2>3
  <2>6. PC!Contents(p) = [kind \in PC!Kinds |-> PC!Contents(p)[kind]]
    BY <2>4 DEF PC!Kinds
  <2>7. \A kind \in PC!Kinds : PC!Contents(p)[kind] = m[kind]
    BY <2>2, <2>4 DEF PC!Kinds
  <2> HIDE DEF m
  <2>8. [kind \in PC!Kinds |-> PC!Contents(p)[kind]] = [kind \in PC!Kinds |-> m[kind]]
    BY <2>7
  <2> QED BY <2>5, <2>6, <2>8 DEF m
<1> QED BY <1>1, PageInvHolds, PTL

=============================================================================
