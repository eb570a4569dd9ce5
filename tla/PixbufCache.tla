---------------------------- MODULE PixbufCache ----------------------------
(***************************************************************************)
(* The cache of rendered pages of libview (ev-pixbuf-cache.c) at work with *)
(* the job scheduler: the window of pages it keeps, the render jobs it     *)
(* starts, moves, re-prioritises and cancels, and what becomes of a render *)
(* that ends after the window has moved on.                                *)
(*                                                                         *)
(* The cache lives on the main thread: each of its operations is one step. *)
(* The worker thread takes, renders and reports jobs in steps of its own.  *)
(* JobScheduler models the scheduler itself; here it is the queue in which *)
(* each waiting job stands and the priority its entry was pushed with,     *)
(* with the order inside one queue left out.                               *)
(***************************************************************************)
EXTENDS Integers, FiniteSets, Functions, FiniteSetsExt

CONSTANTS
    NPages,             \* pages of the document
    Scales,             \* scales of the document model
    Bytes,              \* page -> scale -> bytes of its surface
    MaxSizes,           \* values of the page-cache-size setting, in bytes
    PAGE_CACHE_NUMBER,  \* pages the view adds on both sides of what is seen
    MAX_PRELOADED_PAGES,
    MaxSeen,            \* bound: pages seen at a time
    MaxEdits,           \* bound: edits of the document
    Serials,            \* bound: jobs for one page and scale in flight
    MaxInFlight,        \* bound: jobs in flight
    None                \* the null pointer

Page == 0 .. NPages - 1

ASSUME ParametersAssumption ==
    /\ NPages \in Nat \ {0}
    /\ Bytes \in [Page -> [Scales -> Nat]]
    /\ MaxSizes \subseteq Nat
    /\ PAGE_CACHE_NUMBER \in Nat
    /\ MAX_PRELOADED_PAGES \in Nat
    /\ MaxSeen \in Nat \ {0}
    /\ MaxEdits \in Nat
    /\ MaxInFlight \in Nat

\* The two members of EvJobPriority that the cache uses.
URGENT == 0
LOW == 2

\* An EvJobRender.  The serial tells apart the jobs for one page and scale.
Job == [page : Page, scale : Scales, serial : Serials]

\* A rendered page: at which scale, and what was on the page then.
Surface == [page : Page, scale : Scales, version : Nat]

ASSUME NoneAssumption == None \notin Job \cup Surface

\* A CacheJobInfo, of which the selection is left out.
CacheJobInfo == [job : Job \cup {None}, surface : Surface \cup {None}]

EmptySlot == [job |-> None, surface |-> None]

VARIABLES
    start_page, end_page, preload_cache_size,
    cache,       \* the arrays prev_job, job_list and next_job
    max_size,
    scale,       \* the scale of the document model
    seen,        \* the pages from the view's start_page to its end_page
    content,     \* page -> how often it has been edited
    waiting,     \* queued job -> its queue and the priority of its entry
    running,     \* the job the worker has taken
    rendered,    \* what the worker has rendered of it
    finished,    \* job with a pending FINISHED -> what it has rendered
    cancelled,   \* the jobs in flight that are cancelled
    connected,   \* jobs whose FINISHED calls job_finished_cb
    asked        \* the range has been set since scale changed or was cleared

rangeVars == <<start_page, end_page, preload_cache_size>>
viewVars == <<max_size, scale, seen, content>>
workerVars == <<running, rendered, finished>>
jobVars == <<waiting, cancelled, connected>>
vars == <<rangeVars, cache, viewVars, workerVars, jobVars, asked>>

-----------------------------------------------------------------------------
(* The window of pages *)

\* The slots of a cache for the pages s to e with pre pages preloaded on both
\* sides.  PAGE_CACHE_LEN is 0 while s is -1.
Slots(s, e, pre) ==
    {<<"prev_job", i>> : i \in 0 .. pre - 1}
    \cup {<<"job_list", i>> : i \in IF s >= 0 THEN 0 .. e - s ELSE {}}
    \cup {<<"next_job", i>> : i \in 0 .. pre - 1}

\* The page a slot stands for; it may lie outside the document.
PageOf(slot, s, e, pre) ==
    CASE slot[1] = "prev_job" -> s - pre + slot[2]
      [] slot[1] = "job_list" -> s + slot[2]
      [] slot[1] = "next_job" -> e + 1 + slot[2]

\* Mutant of InRange: the last preloaded page is taken for outside.
MutInRange(page, s, e, pre) == s - pre <= page /\ page < e + pre

InRange(page, s, e, pre) == s - pre <= page /\ page <= e + pre

\* find_job_cache, and the target page of move_one_job, for a page in range.
SlotOf(page, s, e, pre) ==
    IF page < s THEN <<"prev_job", page - (s - pre)>>
    ELSE IF page > e THEN <<"next_job", page - (e + 1)>>
    ELSE <<"job_list", page - s>>

PriorityOf(slot) == IF slot[1] = "job_list" THEN URGENT ELSE LOW

CurrentPageOf(slot) == PageOf(slot, start_page, end_page, preload_cache_size)

\* ev_pixbuf_cache_get_preload_size.  The loop counts the pages at distance i
\* on both sides as long as they fit; page 0 is never counted.
PreloadSize(s, e) ==
    LET size(page) == Bytes[page][scale]
        range_size == MapThenSumSet(size, s .. e)
        loop[i \in Nat, so_far \in Nat] ==
            LET hasNext == e + i < NPages
                hasPrev == s - i > 0
                withNext == so_far + IF hasNext THEN size(e + i) ELSE 0
                withPrev == withNext + IF hasPrev THEN size(s - i) ELSE 0
            IN  IF \/ i > MAX_PRELOADED_PAGES
                   \/ ~ (hasNext \/ hasPrev)
                   \/ withNext > max_size
                   \/ withPrev > max_size /\ ~ hasNext
                THEN i - 1
                ELSE IF withPrev > max_size THEN i ELSE loop[i + 1, withPrev]
    IN  IF range_size >= max_size THEN 0 ELSE loop[1, range_size]

-----------------------------------------------------------------------------
(* Jobs *)

JobsIn(c) == {c[slot].job : slot \in DOMAIN c} \ {None}

InFlight == DOMAIN waiting \cup DOMAIN finished \cup ({running} \ {None})

\* ev_job_scheduler_update_job for every waiting job that Priority gives a new
\* priority: an entry is moved if its priority differs and it is in the queue
\* of its priority, which does not change.
Requeued(newPriority) ==
    [j \in DOMAIN waiting |->
        IF /\ j \in DOMAIN newPriority
           /\ waiting[j].priority # newPriority[j]
           /\ waiting[j].queue = waiting[j].priority
        THEN [waiting[j] EXCEPT !.queue = newPriority[j]]
        ELSE waiting[j]]

\* ev_job_cancel of the jobs in S: an entry is removed if it is in the queue
\* of its priority.
Dequeued(w, S) ==
    Restrict(w, {j \in DOMAIN w : j \in S => w[j].queue # w[j].priority})

\* A job for a page at the current scale that is not in flight.
CanAllocate(page) ==
    \E n \in Serials :
        [page |-> page, scale |-> scale, serial |-> n] \notin InFlight

NewJob(page) ==
    [page |-> page, scale |-> scale,
     serial |-> CHOOSE n \in Serials :
        [page |-> page, scale |-> scale, serial |-> n] \notin InFlight]

\* ev_job_scheduler_push_job of new jobs, given with their priorities.
Pushed(w, new) ==
    [j \in DOMAIN w \cup DOMAIN new |->
        IF j \in DOMAIN new THEN [queue |-> new[j], priority |-> new[j]]
        ELSE w[j]]

\* The cache disconnects and cancels the jobs in dropped and pushes those in
\* new; w is what the entries have become before.
UpdateJobs(w, dropped, new) ==
    /\ UNCHANGED workerVars
    /\ waiting' = Pushed(Dequeued(w, dropped), new)
    /\ Cardinality(InFlight') <= MaxInFlight
    /\ connected' = (connected \ dropped) \cup DOMAIN new
    /\ cancelled' = (cancelled \cup dropped)
                        \cap InFlight'

-----------------------------------------------------------------------------
(* The operations of the cache *)

\* A new cache; the size limit is whatever the user has set.
Init ==
    /\ start_page = -1
    /\ end_page = -1
    /\ preload_cache_size = 0
    /\ cache = <<>>
    /\ max_size \in MaxSizes
    /\ scale \in Scales
    /\ seen = {}
    /\ content = [page \in Page |-> 0]
    /\ waiting = <<>>
    /\ running = None
    /\ rendered = None
    /\ finished = <<>>
    /\ cancelled = {}
    /\ connected = {}
    /\ asked = FALSE

\* The slots of the old window whose page stays when the window becomes s to
\* e; the others are disposed of.
Kept(s, e, pre) ==
    {slot \in DOMAIN cache :
        /\ CurrentPageOf(slot) \in Page
        /\ InRange(CurrentPageOf(slot), s, e, pre)}

\* Where move_one_job puts what is in a slot.
TargetOf(slot, s, e, pre) == SlotOf(CurrentPageOf(slot), s, e, pre)

\* update_range: the arrays after the move.
Moved(s, e, pre) ==
    [target \in Slots(s, e, pre) |->
        LET from == {slot \in Kept(s, e, pre) :
                        TargetOf(slot, s, e, pre) = target}
        IN  IF from = {} THEN EmptySlot
            ELSE cache[CHOOSE slot \in from : TRUE]]

\* The jobs that change between the window and the preloaded pages, with
\* their new priorities.
NewPriorities(s, e, pre) ==
    LET changed == {slot \in Kept(s, e, pre) :
                       /\ cache[slot].job # None
                       /\ PriorityOf(slot) # PriorityOf(TargetOf(slot, s, e, pre))}
    IN  [j \in {cache[slot].job : slot \in changed} |->
            IF \E slot \in changed :
                 cache[slot].job = j /\ PriorityOf(slot) = URGENT
            THEN LOW ELSE URGENT]

\* check_job_size_and_unref.
HasWrongSize(info) == info.job # None /\ info.job.scale # scale

\* Mutant of ClearJobSizes: jobs of the wrong size are left to finish.
MutClearJobSizes(c) == c

ClearJobSizes(c) ==
    [slot \in DOMAIN c |->
        IF HasWrongSize(c[slot]) THEN [c[slot] EXCEPT !.job = None]
        ELSE c[slot]]

\* Mutant of NeedsJob: a surface of any size will do.
MutNeedsJob(info) == info.job = None /\ info.surface = None

\* The tests of add_job_if_needed.
NeedsJob(info) ==
    /\ info.job = None
    /\ info.surface = None \/ info.surface.scale # scale

\* add_jobs_if_needed: the slots that get a job.  The bounds of its loops
\* leave out the slots whose page is not in the document.
SlotsToRender(c, s, e, pre) ==
    {slot \in DOMAIN c : PageOf(slot, s, e, pre) \in Page /\ NeedsJob(c[slot])}

AddJobs(c, toRender, s, e, pre) ==
    [slot \in DOMAIN c |->
        IF slot \notin toRender THEN c[slot]
        ELSE [job |-> NewJob(PageOf(slot, s, e, pre)),
              surface |-> IF PriorityOf(slot) = LOW THEN None
                          ELSE c[slot].surface]]

\* ev_pixbuf_cache_set_page_range, for the window s to e with pre preloaded
\* pages.  Moving the arrays, dropping the jobs of the wrong size and adding
\* the missing ones are one step of the main thread.
SetPageRange(s, e, pre) ==
    LET moved == IF s = start_page /\ e = end_page /\ pre = preload_cache_size
                 THEN cache ELSE Moved(s, e, pre)
        sized == ClearJobSizes(moved)
        toRender == SlotsToRender(sized, s, e, pre)
        new == AddJobs(sized, toRender, s, e, pre)
    IN  /\ \A slot \in toRender : CanAllocate(PageOf(slot, s, e, pre))
        /\ start_page' = s
        /\ end_page' = e
        /\ preload_cache_size' = pre
        /\ cache' = new
        /\ UpdateJobs(Requeued(NewPriorities(s, e, pre)),
                      JobsIn(cache) \ JobsIn(sized),
                      [j \in {new[slot].job : slot \in toRender} |->
                          IF s <= j.page /\ j.page <= e THEN URGENT ELSE LOW])

\* view_update_range_and_current_page, once it knows which pages are seen.
Look(first, last) ==
    LET s == Max({first - PAGE_CACHE_NUMBER, 0})
        e == Min({last + PAGE_CACHE_NUMBER, NPages - 1})
    IN  /\ last - first < MaxSeen
        /\ seen' = first .. last
        /\ asked' = TRUE
        /\ \E pre \in 0 .. MAX_PRELOADED_PAGES :
             pre = PreloadSize(s, e) /\ SetPageRange(s, e, pre)
        /\ UNCHANGED <<max_size, scale, content>>

\* ev_view_scale_changed_cb: the cache hears of it when the view is laid out
\* again and updates the range.
Zoom(sc) ==
    /\ sc # scale
    /\ scale' = sc
    /\ asked' = FALSE
    /\ UNCHANGED <<rangeVars, cache, max_size, seen, content, workerVars,
                   jobVars>>

\* dispose_cache_job_info for every slot.
DropAll ==
    /\ cache' = [slot \in DOMAIN cache |-> EmptySlot]
    /\ UpdateJobs(waiting, JobsIn(cache), <<>>)

\* What the document shows on a page changes, under the document lock.
EditContent(page) ==
    /\ MapThenSumSet(LAMBDA p : content[p], Page) < MaxEdits
    /\ content' = [content EXCEPT ![page] = @ + 1]

\* ev_pixbuf_cache_clear when the rotation changes, or from ev_view_reload
\* after the shell has changed an annotation or a layer.  The range update
\* that follows is a Look.
Clear ==
    /\ cache # <<>>
    /\ DropAll
    /\ asked' = FALSE
    /\ UNCHANGED content \/ \E page \in Page : EditContent(page)
    /\ UNCHANGED <<rangeVars, max_size, scale, seen>>

\* ev_pixbuf_cache_set_max_size.
SetMaxSize(m) ==
    /\ m # max_size
    /\ max_size' = m
    /\ IF max_size > m
       THEN DropAll /\ asked' = FALSE
       ELSE UNCHANGED <<cache, jobVars, workerVars, asked>>
    /\ UNCHANGED <<rangeVars, scale, seen, content>>

\* ev_pixbuf_cache_dispose, and the new cache of the document that replaces
\* the old one.
ChangeDocument ==
    /\ cache # <<>>
    /\ UpdateJobs(waiting, JobsIn(cache), <<>>)
    /\ start_page' = -1
    /\ end_page' = -1
    /\ preload_cache_size' = 0
    /\ cache' = <<>>
    /\ seen' = {}
    /\ asked' = FALSE
    /\ UNCHANGED <<max_size, scale, content>>

\* Mutant of ReplaceJob: the job that is in the slot is not cancelled.
MutReplaceJob(slot) ==
    /\ cache' = [cache EXCEPT ![slot].job = NewJob(CurrentPageOf(slot))]
    /\ UpdateJobs(waiting, {}, [j \in {cache'[slot].job} |-> URGENT])

\* add_job for a slot that may have one.
ReplaceJob(slot) ==
    LET job == NewJob(CurrentPageOf(slot))
    IN  /\ cache' = [cache EXCEPT ![slot].job = job]
        /\ UpdateJobs(waiting, {cache[slot].job} \ {None},
                      [j \in {job} |-> URGENT])

\* A handler of the view edits a page and has it rendered again:
\* ev_view_reload_page and ev_pixbuf_cache_reload_page.
Edit(page) ==
    /\ EditContent(page)
    /\ IF cache # <<>> /\ InRange(page, start_page, end_page, preload_cache_size)
       THEN /\ CanAllocate(page)
            /\ ReplaceJob(SlotOf(page, start_page, end_page, preload_cache_size))
       ELSE UNCHANGED <<cache, jobVars, workerVars>>
    /\ UNCHANGED <<rangeVars, max_size, scale, seen, asked>>

-----------------------------------------------------------------------------
(* The worker thread and the idles that report what it has rendered *)

\* The worker takes a job of the most urgent queue that has one; a cancelled
\* job is not rendered.
TakeJob ==
    /\ running = None
    /\ \E j \in DOMAIN waiting :
         /\ \A k \in DOMAIN waiting : waiting[j].queue <= waiting[k].queue
         /\ waiting' = Restrict(waiting, DOMAIN waiting \ {j})
         /\ IF j \in cancelled
            THEN cancelled' = cancelled \ {j} /\ running' = None
            ELSE cancelled' = cancelled /\ running' = j
    /\ UNCHANGED <<rangeVars, cache, viewVars, rendered, finished, connected,
                   asked>>

\* ev_job_render_run, under the document lock.
Render ==
    /\ running # None
    /\ rendered = None
    /\ rendered' = content[running.page]
    /\ UNCHANGED <<rangeVars, cache, viewVars, running, finished, jobVars,
                   asked>>

\* The job was cancelled in the meantime, or it has succeeded and an idle
\* will report it.
EndJob ==
    /\ rendered # None
    /\ running' = None
    /\ rendered' = None
    /\ IF running \in cancelled
       THEN cancelled' = cancelled \ {running} /\ UNCHANGED finished
       ELSE /\ finished' = [j \in DOMAIN finished \cup {running} |->
                               IF j = running THEN rendered ELSE finished[j]]
            /\ UNCHANGED cancelled
    /\ UNCHANGED <<rangeVars, cache, viewVars, waiting, connected, asked>>

\* job_finished_cb and copy_job_to_job_info: the surface goes to the slot of
\* its page, and the job of that slot is dropped.  A job whose page is not in
\* the window is let go.
JobFinished(j) ==
    IF InRange(j.page, start_page, end_page, preload_cache_size)
    THEN LET slot == SlotOf(j.page, start_page, end_page, preload_cache_size)
             surface == [page |-> j.page, scale |-> j.scale,
                         version |-> finished[j]]
         IN  /\ cache' = [cache EXCEPT ![slot] =
                             [job |-> None, surface |-> surface]]
             /\ waiting' = Dequeued(waiting, {cache[slot].job})
             /\ connected' = connected \ {cache[slot].job}
             /\ cancelled' = (cancelled \cup {cache[slot].job}) \cap InFlight'
    ELSE UNCHANGED <<cache, jobVars>>

\* emit_finished.
EmitFinished ==
    \E j \in DOMAIN finished :
        /\ UNCHANGED <<rangeVars, viewVars, running, rendered, asked>>
        /\ finished' = Restrict(finished, DOMAIN finished \ {j})
        /\ IF j \in connected /\ j \notin cancelled
           THEN JobFinished(j)
           ELSE /\ cancelled' = cancelled \ {j}
                /\ UNCHANGED <<cache, waiting, connected>>

ViewStep ==
    \/ \E first \in Page : \E last \in first .. NPages - 1 : Look(first, last)
    \/ \E sc \in Scales : Zoom(sc)
    \/ Clear
    \/ \E m \in MaxSizes : SetMaxSize(m)
    \/ ChangeDocument
    \/ \E page \in Page : Edit(page)

Worker == TakeJob \/ Render \/ EndJob

Next == ViewStep \/ Worker \/ EmitFinished

\* The worker thread and the main loop are scheduled; nobody has to scroll.
Fairness == WF_vars(Worker) /\ WF_vars(EmitFinished)

Spec == Init /\ [][Next]_vars

FairSpec == Spec /\ Fairness

-----------------------------------------------------------------------------
(* Properties *)

TypeOK ==
    /\ start_page \in Page \cup {-1}
    /\ end_page \in Page \cup {-1}
    /\ preload_cache_size \in 0 .. MAX_PRELOADED_PAGES
    /\ cache \in [Slots(start_page, end_page, preload_cache_size) -> CacheJobInfo]
    /\ max_size \in MaxSizes
    /\ scale \in Scales
    /\ seen \in SUBSET Page
    /\ content \in [Page -> Nat]
    /\ DOMAIN waiting \subseteq Job
    /\ \A j \in DOMAIN waiting :
         waiting[j] \in [queue : {URGENT, LOW}, priority : {URGENT, LOW}]
    /\ running \in Job \cup {None}
    /\ rendered \in Nat \cup {None}
    /\ DOMAIN finished \subseteq Job
    /\ \A j \in DOMAIN finished : finished[j] \in Nat
    /\ cancelled \in SUBSET Job
    /\ connected \in SUBSET Job
    /\ asked \in BOOLEAN

\* A slot holds the job and the surface of the page it stands for, however
\* often the window has moved, grown and shrunk: move_one_job, find_job_cache
\* and add_jobs_if_needed agree on where a page is, and no slot stands for a
\* page outside the document and holds something.
SlotHoldsItsPage ==
    \A slot \in DOMAIN cache :
        \A item \in {cache[slot].job, cache[slot].surface} \ {None} :
            item.page = CurrentPageOf(slot) /\ CurrentPageOf(slot) \in Page

\* The cache hears exactly of the jobs in its slots, each of them under way
\* and not cancelled.  So no render is lost, a job that was given up reports
\* to nobody, and job_finished_cb never finds a page outside the window: the
\* branch that discards such a job and drops a reference it does not own is
\* never taken.
HeardJobsAreInSlots ==
    /\ connected = JobsIn(cache)
    /\ connected \subseteq InFlight
    /\ connected \cap cancelled = {}

\* However the window moves, grows and shrinks while jobs come and go, its slots
\* and the jobs in them are in order.
SlotsAreInOrder == TypeOK /\ SlotHoldsItsPage /\ HeardJobsAreInSlots

\* What is on the way to a slot shows the page as it is now: an edit during or
\* after the rendering takes the job out of the slot before it can report.
DeliveredIsCurrent ==
    /\ \A j \in DOMAIN finished :
         j \in connected => finished[j] = content[j.page]
    /\ running \in connected /\ rendered # None => rendered = content[running.page]

Drawn(slot) == cache[slot].surface # None /\ cache[slot].surface.scale = scale

ListSlots == {slot \in DOMAIN cache : slot[1] = "job_list"}

\* After a range update each page of the window has a surface of the right
\* size or a job for one, through whatever was moved and cancelled for it.
WindowIsCovered ==
    asked =>
        /\ cache # <<>>
        /\ \A slot \in ListSlots :
             \/ Drawn(slot)
             \/ cache[slot].job # None /\ cache[slot].job.scale = scale

\* When the user leaves the view alone, each page of the window gets drawn at
\* the scale of the view and stays so.
RangeGetsDrawn ==
    <>[][~ ViewStep]_vars => <>[](asked => \A slot \in ListSlots : Drawn(slot))

=============================================================================
