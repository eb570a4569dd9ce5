----------------------------- MODULE PageCache -----------------------------
(***************************************************************************)
(* ev-page-cache.c: what the view knows of the pages around the one it     *)
(* shows (annotations, links, text), read by one job of the scheduler per  *)
(* page, and the editing of annotations in ev-view.c, which changes the    *)
(* document first and then marks a page of the cache as dirty.             *)
(*                                                                         *)
(* The annotations of a page are one list that the document and the cache  *)
(* share: made when the page is first read or given an annotation, changed *)
(* in place, dropped by the document with its last annotation.  So what    *)
(* the cache can have wrong is which list it holds, and a reference is     *)
(* "the list" as long as it is the document's, "detached" when it is not   *)
(* any more.  The main thread's handlers are one step each; the worker     *)
(* takes a job, reads the page under the document lock and reports.        *)
(***************************************************************************)
EXTENDS Integers, Sequences, FiniteSets, FiniteSetsExt, SequencesExt, Queues

CONSTANTS
    NPages,             \* pages of the document
    HasLinks,           \* the pages with a list of links
    PAGE_CACHE_NUMBER,  \* pages the view adds on both sides of those it shows
    MaxAnnots,          \* bound on the annotations of a page
    Serials,            \* jobs of a page: two are enough, one that the page holds
                        \* and a cancelled one that runs
    None                \* the null pointer

Page == 0 .. NPages - 1

Kinds == {"annots", "links"}

\* What can have been read.
Lists == {"the list", "detached", "the links"}

\* What the parameters are; ViewPages assumes it.
ParametersAssumption ==
    /\ NPages \in Nat \ {0}
    /\ HasLinks \subseteq Page
    /\ PAGE_CACHE_NUMBER \in Nat
    /\ MaxAnnots \in Nat \ {0}
    /\ Serials \subseteq Nat /\ Serials # {}
    /\ None \notin (Page \X Serials) \cup Lists

VARIABLES
    annots,         \* page -> how many annotations it has
    listed,         \* page -> how many are in its list, none without a list
    current_page,   \* the page the view shows
    adding,         \* the page of the annotation that is being drawn, or None
    start_page,     \* the range of the cache
    end_page,
    page_list,      \* page -> what the cache has of it
    job,            \* a job that somebody refers to -> what it is to read, what
                    \* it has read, whether it is cancelled
    waiting,        \* the jobs in the queue of the scheduler
    running,        \* the job the worker has taken
    reports,        \* the jobs whose emit_finished is due
    misdirected     \* pages whose annotations changed when another page was
                    \* marked

userVars == <<annots, listed, current_page, adding, misdirected>>
cacheVars == <<start_page, end_page, page_list>>
vars == <<userVars, cacheVars, job, waiting, running, reports>>

Job == Page \X Serials

PageOf(j) == j[1]

Mapping == Lists \cup {None}

NoMappings == [kind \in Kinds |-> None]

\* What a job that reads the page now would find.
Contents(page) ==
    [annots |-> IF annots[page] > 0 THEN "the list" ELSE None,
     links |-> IF page \in HasLinks THEN "the links" ELSE None]

\* The jobs somebody still has a reference to.
Referenced(list, queue, taken, due) ==
    {list[page].job : page \in Page} \cup ToSet(queue) \cup {taken} \cup due

Alive == Referenced(page_list, waiting, running, reports)

\* Jobs lose their memory with the last reference.
Unref(jobs) ==
    job' = [j \in Referenced(page_list', waiting', running', reports') \ {None} |-> jobs[j]]

-----------------------------------------------------------------------------
(* The range *)

Unread(flags) == [flags |-> flags, read |-> NoMappings, cancelled |-> FALSE]

\* ev_page_cache_new and the first flags, which ask for the first page: what
\* the view sets up for a document.
Init ==
    /\ annots \in [Page -> 0 .. 1]
    /\ listed = [page \in Page |-> 0]
    /\ current_page = 0
    /\ adding = None
    /\ start_page = 0
    /\ end_page = 0
    /\ LET first == <<0, Min(Serials)>>
       IN  /\ page_list = [page \in Page |->
                [job |-> IF page = 0 THEN first ELSE None, done |-> FALSE,
                 dirty |-> FALSE, asked |-> page = 0, mapping |-> NoMappings]]
           /\ waiting = <<first>>
           /\ job = [j \in {first} |-> Unread(Kinds)]
    /\ running = None
    /\ reports = {}
    /\ misdirected = {}

\* Mutant of NeedsJob: a dirty page that has a job is left to it.
MutNeedsJob(data) == ~ (data.asked /\ ((data.done /\ ~ data.dirty) \/ data.job # None))

\* What ev_page_cache_set_page_range does not pass over.
NeedsJob(data) ==
    ~ (data.asked /\ ~ data.dirty /\ (data.done \/ data.job # None))

\* ev_page_cache_get_flags_for_data.
FlagsFor(data) ==
    IF data.asked /\ ~ data.dirty THEN Kinds
    ELSE {kind \in Kinds : data.mapping[kind] = None}

\* Mutant of Outdated: only a page that has been read has its job cancelled.
MutOutdated(list, redo) ==
    {list[page].job : page \in {p \in redo : list[p].done}} \ {None}

\* The jobs that are cancelled to make room.
Outdated(list, redo) == {list[page].job : page \in redo} \ {None}

\* ev_page_cache_set_page_range on the pages as list has them: the jobs of the
\* pages to read are cancelled and replaced.
SetPageRange(start, end, list, jobs) ==
    LET redo == {page \in start .. end : NeedsJob(list[page])}
        old == Outdated(list, redo)
        free(page) == {n \in Serials : <<page, n>> \notin Alive}
        fresh == [page \in redo |-> <<page, Min(free(page))>>]
        pages == Removing([i \in 1 .. end - start + 1 |-> start + i - 1], Page \ redo)
    IN  /\ \A page \in redo : free(page) # {}
        /\ start_page' = start
        /\ end_page' = end
        /\ page_list' = [page \in Page |->
                IF page \in redo
                THEN [list[page] EXCEPT !.job = fresh[page], !.asked = TRUE]
                ELSE list[page]]
        /\ waiting' = Removing(waiting, old)
                        \o [i \in DOMAIN pages |-> fresh[pages[i]]]
        /\ reports' = reports \ old
        /\ UNCHANGED running
        /\ Unref([j \in Range(fresh) \cup DOMAIN jobs |->
                IF j \in Range(fresh) THEN Unread(FlagsFor(list[PageOf(j)]))
                ELSE IF j \in old THEN [jobs[j] EXCEPT !.cancelled = TRUE]
                ELSE jobs[j]])

\* ev_page_cache_mark_dirty with the annotations.
MarkDirty(page, list, jobs) ==
    SetPageRange(start_page, end_page,
        [list EXCEPT ![page].dirty = TRUE, ![page].mapping["annots"] = None], jobs)

-----------------------------------------------------------------------------
(* The view *)

\* view_update_range_and_current_page, at every movement: pages start to end
\* are in sight, one of them is the current one.
Scroll(page, start, end) ==
    /\ page \in start .. end
    /\ current_page' = page
    /\ SetPageRange(Max({start - PAGE_CACHE_NUMBER, 0}),
                    Min({end + PAGE_CACHE_NUMBER, NPages - 1}), page_list, job)
    /\ UNCHANGED <<annots, listed, adding, misdirected>>

\* ev_page_cache_get_annot_mapping.
GetAnnotMapping(page) ==
    LET data == page_list[page]
    IN  IF ~ data.done /\ data.job # None THEN job[data.job].read["annots"]
        ELSE data.mapping["annots"]

\* ev_view_create_annotation when the button is pressed.  The document puts the
\* annotation into the list of the page, or into a new one.  "If the page didn't
\* have annots, mark the cache as dirty": if the cache knows of none.
Press ==
    /\ adding = None
    /\ annots[current_page] < MaxAnnots
    /\ adding' = current_page
    /\ annots' = [annots EXCEPT ![current_page] = @ + 1]
    /\ listed' = [listed EXCEPT ![current_page] = @ + 1]
    /\ IF GetAnnotMapping(current_page) = None
       THEN MarkDirty(current_page, page_list, job)
       ELSE UNCHANGED <<cacheVars, job, waiting, running, reports>>
    /\ UNCHANGED <<current_page, misdirected>>

\* A listed annotation is removed, the list with its last one, and a page is
\* marked.
RemoveAnnotation(page, marked) ==
    LET Left(mapping) == IF listed[page] = 1 /\ mapping["annots"] = "the list"
                         THEN [mapping EXCEPT !["annots"] = "detached"]
                         ELSE mapping
    IN  /\ annots' = [annots EXCEPT ![page] = @ - 1]
        /\ listed' = [listed EXCEPT ![page] = @ - 1]
        /\ MarkDirty(marked,
               [page_list EXCEPT ![page].mapping = Left(@)],
               [j \in DOMAIN job |->
                    IF PageOf(j) = page THEN [job[j] EXCEPT !.read = Left(@)]
                    ELSE job[j]])

\* The button is released: an annotation without extent is taken back.  The
\* page that is marked is the one in sight by now.
Release ==
    /\ adding # None
    /\ adding' = None
    /\ \/ UNCHANGED <<annots, listed, misdirected, cacheVars, job, waiting,
                      running, reports>>
       \/ /\ RemoveAnnotation(adding, current_page)
          /\ misdirected' = IF current_page = adding THEN misdirected
                            ELSE misdirected \cup {adding}
    /\ UNCHANGED current_page

\* ev_view_remove_annotation, from the menu of an annotation in sight.
RemoveFromMenu ==
    /\ adding = None
    /\ GetAnnotMapping(current_page) = "the list"
    /\ RemoveAnnotation(current_page, current_page)
    /\ UNCHANGED <<current_page, adding, misdirected>>

-----------------------------------------------------------------------------
(* The jobs *)

\* The scheduler takes over; a cancelled job has left the queue.
TakeJob ==
    /\ running = None
    /\ waiting # <<>>
    /\ running' = Head(waiting)
    /\ waiting' = Tail(waiting)
    /\ UNCHANGED <<userVars, cacheVars, job, reports>>

\* ev_job_page_data_run, and ev_job_succeeded unless it was cancelled.  The first
\* to read the annotations of a page has the document list them.
ReadPage ==
    /\ running # None
    /\ LET page == PageOf(running)
       IN  listed' = IF "annots" \in job[running].flags /\ listed[page] = 0
                     THEN [listed EXCEPT ![page] = annots[page]] ELSE listed
    /\ reports' = IF job[running].cancelled THEN reports ELSE reports \cup {running}
    /\ running' = None
    /\ UNCHANGED <<annots, current_page, adding, misdirected, cacheVars, waiting>>
    /\ Unref([job EXCEPT ![running].read =
                [kind \in Kinds |-> IF kind \in job[running].flags
                                    THEN Contents(PageOf(running))[kind] ELSE None]])

\* A page takes over what its job has read of it.
Merged(data, read_by) ==
    [kind \in Kinds |-> IF kind \in read_by.flags THEN read_by.read[kind]
                        ELSE data.mapping[kind]]

\* Mutant of Finished: the page stays dirty.
MutFinished(j) ==
    LET data == page_list[PageOf(j)]
    IN  page_list' = [page_list EXCEPT ![PageOf(j)] =
            [data EXCEPT !.mapping = Merged(data, job[j]), !.done = TRUE, !.job = None]]

\* job_page_data_finished_cb.
Finished(j) ==
    LET data == page_list[PageOf(j)]
    IN  page_list' = [page_list EXCEPT ![PageOf(j)] =
            [data EXCEPT !.mapping = Merged(data, job[j]), !.done = TRUE,
                         !.dirty = FALSE, !.job = None]]

\* emit_finished, which says nothing when the job has been cancelled since.
EmitFinished(j) ==
    /\ j \in reports
    /\ reports' = reports \ {j}
    /\ Finished(j)
    /\ UNCHANGED <<userVars, start_page, end_page, waiting, running>>
    /\ Unref(job)

User == (\E page, start, end \in Page : Scroll(page, start, end)) \/ Press \/ Release \/ RemoveFromMenu

Worker == TakeJob \/ ReadPage

MainLoop == \E j \in reports : EmitFinished(j)

Next == User \/ Worker \/ MainLoop

Spec == Init /\ [][Next]_vars

\* Both threads are scheduled; the user may stop at any time.
FairSpec == Spec /\ WF_vars(Worker) /\ WF_vars(MainLoop)

-----------------------------------------------------------------------------
(* Properties *)

TypeOK ==
    /\ annots \in [Page -> 0 .. MaxAnnots]
    /\ listed \in [Page -> 0 .. MaxAnnots]
    /\ \A page \in Page : listed[page] <= annots[page]
    /\ current_page \in start_page .. end_page
    /\ adding \in Page \cup {None}
    /\ page_list \in [Page -> [job : Job \cup {None}, done : BOOLEAN,
                        dirty : BOOLEAN, asked : BOOLEAN,
                        mapping : [Kinds -> Mapping]]]
    /\ DOMAIN job = Alive \ {None} /\ DOMAIN job \subseteq Job
    /\ job \in [DOMAIN job -> [flags : SUBSET Kinds, read : [Kinds -> Mapping],
                        cancelled : BOOLEAN]]
    /\ waiting \in Seq(Job) /\ IsInjective(waiting)
    /\ running \in Job \cup {None}
    /\ reports \subseteq Job
    /\ misdirected \subseteq Page

\* Types, and: a job that can still report is the one its page holds, so that
\* a report goes into the page it is for and drops no other job.
ReportsAreOfHeldJobs ==
    /\ TypeOK
    /\ \A j \in DOMAIN job : ~ job[j].cancelled => page_list[PageOf(j)].job = j

\* What the cache takes for good in its range is what the document has, the
\* annotations and the rest, unless an edit of the page marked another one.
CachedIsCurrent ==
    \A page \in (start_page .. end_page) \ misdirected :
        LET data == page_list[page]
        IN  data.asked /\ data.done /\ ~ data.dirty => data.mapping = Contents(page)

\* Once the user leaves the view alone, every page of the range is read.
RangeIsRead ==
    \/ []<><<User>>_vars
    \/ \A page \in Page :
        <>[](page \in start_page .. end_page =>
                page_list[page].done /\ ~ page_list[page].dirty)

=============================================================================
