---------------------------- MODULE PrintExport ----------------------------
(***************************************************************************)
(* Printing of the documents that cannot draw their pages on a printer:    *)
(* ev-print-operation.c exports the chosen pages to a temporary file, one  *)
(* render job of the scheduler per page, and sends the file to the printer *)
(* (or to the previewer).  The operations on one document wait in a queue, *)
(* because the document has one exporter; the windows that show the        *)
(* document, a window and its copies, each have a queue of their own from  *)
(* which the progress bar cancels.                                         *)
(*                                                                         *)
(* The main thread's callbacks are one step each.  The worker thread takes *)
(* a job, exports a page under the document lock and reports in steps of   *)
(* its own.  The exporter's begin_page and end_page are left out: no       *)
(* backend that prints this way has them.                                  *)
(***************************************************************************)
EXTENDS Integers, Sequences, FiniteSets, Functions, SequencesExt, Queues

CONSTANTS
    Ops,            \* the EvPrintOperationExports of one document
    Windows,        \* the windows that show the document
    WindowOf,       \* operation -> the window that has started it
    NPages,         \* pages of the document
    Plans,          \* what the users ask for: operation -> its settings in the
                    \* print dialog, or None if it is never run
    None            \* the null pointer

Page == 0 .. NPages - 1

\* What the parameters are; DocumentPrints assumes it.
ParametersAssumption ==
    /\ NPages \in Nat \ {0}
    /\ WindowOf \in [Ops -> Windows]
    /\ None \notin Ops

VARIABLES
    settings,       \* operation -> the settings of its print dialog
    accepted,       \* the operations whose dialog has been accepted
    place,          \* operation -> where it is in its pages
    temp_file,      \* the operations that have a temporary file
    idle,           \* the operations whose export_print_page is due
    sent,           \* the operations whose file a GtkPrintJob is printing
    answers,        \* operation -> the results its DONE signals have carried
    print_queue,    \* the queue of the document, the oldest operation last
    window_queue,   \* window -> its queue, the oldest operation last
    job_export,     \* the operations that hold their EvJobExport
    page,           \* operation -> the page its job is for
    finished,       \* the operations whose job has finished set
    cancelled,      \* the operations whose job is cancelled
    reports,        \* the operations whose job's emit_finished is due
    waiting,        \* the jobs in the queue of the scheduler
    running,        \* the job the worker has taken
    drawn,          \* the worker has exported the page of that job
    file,           \* the operation whose file the exporter writes
    written,        \* operation -> the pages in its file, and who wrote them
    mispopped       \* an operation has left the queue in place of another

opVars == <<settings, accepted, place, temp_file, idle, sent, answers>>
queueVars == <<print_queue, window_queue, mispopped>>
jobVars == <<job_export, page, finished, cancelled, reports>>
workerVars == <<waiting, running, drawn>>
exporterVars == <<file, written>>
vars == <<opVars, queueVars, jobVars, workerVars, exporterVars>>

-----------------------------------------------------------------------------
(* What the print dialog leaves of the settings *)

\* The response handler ends open ranges at the last page.
Closed(r) ==
    IF r.end = -1 \/ r.end >= NPages THEN [r EXCEPT !.end = NPages - 1] ELSE r

\* clamp_ranges, one range.  Its other cases need a range that starts before
\* the first page or ends after the last.
Kept(r) == {r.start, r.end} \subseteq Page

Ranges(s) == SelectSeq([i \in DOMAIN s.ranges |-> Closed(s.ranges[i])], Kept)

\* Half an int, towards zero.
Half(n) == IF n < 0 THEN - (- n \div 2) ELSE n \div 2

\* The pages clamp_ranges counts for a range: those that are even or odd in
\* the document.
PagesToPrint(s, r) ==
    LET n == r.end - r.start + 1
    IN  CASE s.page_set = "all" -> n
          [] s.page_set # "all" /\ n % 2 = 0 -> Half(n)
          [] s.page_set = "even" /\ n % 2 # 0 ->
                IF r.start % 2 = 0 THEN Half(n) ELSE Half(n) + 1
          [] s.page_set = "odd" /\ n % 2 # 0 ->
                IF r.start % 2 = 0 THEN Half(n) + 1 ELSE Half(n)

\* clamp_ranges counts nothing at all for one single page of the other half.
IsNull(s, r) ==
    /\ r.start = r.end
    /\ s.page_set # "all"
    /\ PagesToPrint(s, r) = 0

n_pages_to_print(s) ==
    FoldFunction(+, 0, [i \in DOMAIN s.ranges |->
                            PagesToPrint(s, Closed(s.ranges[i]))])

\* What clamp_ranges returns, FALSE for "Invalid page selection".
ClampRanges(s) ==
    ~ /\ \E i \in DOMAIN s.ranges : IsNull(s, Closed(s.ranges[i]))
      /\ n_pages_to_print(s) = 0

-----------------------------------------------------------------------------
(* The way through the pages *)

Inc(s) == IF s.reverse THEN -1 ELSE 1

NRanges(s) == Len(Ranges(s))

FirstRange(s) == IF s.reverse THEN NRanges(s) - 1 ELSE 0

UncollatedCopies(s) == IF s.collate THEN s.copies ELSE 1

CollatedCopies(s) == IF s.collate THEN 1 ELSE s.copies

\* find_range: the bounds of the current range in the direction of travel.
\* With no range left it reads what the dialog has put in the first place.
FindRange(s, at) ==
    LET r == IF at.range + 1 \in DOMAIN Ranges(s) THEN Ranges(s)[at.range + 1]
             ELSE Closed(s.ranges[1])
    IN  IF s.reverse THEN [at EXCEPT !.start = r.end, !.end = r.start - 1]
        ELSE [at EXCEPT !.start = r.start, !.end = r.end + 1]

\* The response handler: just before the first page.
Start(s) ==
    LET at == FindRange(s, [range |-> FirstRange(s), start |-> 0, end |-> 0,
                            page |-> 0, page_count |-> 0, sheet |-> 1,
                            collated |-> CollatedCopies(s) - 1,
                            uncollated |-> 0])
    IN  [at EXCEPT !.page = at.start - Inc(s)]

\* The sheet of the page_count-th page, from 1.
OnSheet(s, at) ==
    [at EXCEPT !.sheet = 1 + (at.page_count - 1) \div s.pages_per_sheet]

Counted(s, at) == OnSheet(s, [at EXCEPT !.page_count = @ + 1])

\* A sheet that the even or the odd half of the sheets leaves out.
LeftOut(s, at) ==
    \/ s.page_set = "even" /\ at.sheet % 2 = 1
    \/ s.page_set = "odd" /\ at.sheet % 2 = 0

\* Mutant of FilledUp: the next copy begins on the last sheet of this one.
MutFilledUp(s, at) == at

\* After the last page of a copy the rest of its sheet stays blank.
FilledUp(s, at) ==
    LET rest == (at.page_count - 1) % s.pages_per_sheet
    IN  IF s.collate /\ rest # 0
        THEN OnSheet(s, [at EXCEPT !.page_count = @ + s.pages_per_sheet - rest])
        ELSE at

Pass(at) == [more |-> TRUE, at |-> at]

\* One pass of the loop of export_print_inc_page.
ToNextPage(s, at) ==
    LET moved == [at EXCEPT !.page = @ + Inc(s)]
        next == IF s.collate THEN Counted(s, moved) ELSE moved
        other == [next EXCEPT !.range = @ + Inc(s)]
        again == FilledUp(s, [other EXCEPT !.uncollated = @ + 1])
        entered(x) == LET found == FindRange(s, x)
                      IN  [found EXCEPT !.page = found.start]
    IN  IF next.page # next.end THEN Pass(next)
        ELSE IF other.range \notin {-1, NRanges(s)} THEN Pass(entered(other))
        ELSE IF again.uncollated = UncollatedCopies(s)
             THEN [more |-> FALSE, at |-> again]
        ELSE Pass(entered([again EXCEPT !.range = FirstRange(s)]))

\* What at may be when export_print_inc_page looks at it.
Places ==
    [range : Int, start : Int, end : Int, page : Int, page_count : Nat,
     sheet : Nat, collated : Nat, uncollated : Nat]

\* What a pass of a loop leaves: more pages, and the place.
Passes == [more : BOOLEAN, at : Places]

\* export_print_inc_page: when collating, on to the next sheet to print.
IncPage(s, at0) ==
    LET loop[next \in Passes] ==
            IF next.more /\ s.collate /\ LeftOut(s, next.at)
            THEN loop[ToNextPage(s, next.at)] ELSE next
    IN  loop[ToNextPage(s, at0)]

\* One more copy of this page, or the next page.
OneMore(s, at) ==
    LET counted == IF s.collate THEN at ELSE Counted(s, at)
        copy == [counted EXCEPT !.collated = @ + 1]
    IN  IF copy.collated # CollatedCopies(s) THEN Pass(copy)
        ELSE IncPage(s, [copy EXCEPT !.collated = 0])

\* export_print_page up to the page to export; not collating, it skips the
\* copies that fall on the other half of the sheets.
NextPlace(s, at0) ==
    LET loop[next \in Passes] ==
            IF next.more /\ ~ s.collate /\ LeftOut(s, next.at)
            THEN loop[OneMore(s, next.at)] ELSE next
    IN  loop[OneMore(s, at0)]

-----------------------------------------------------------------------------
(* The queues *)

Init ==
    /\ settings \in Plans
    /\ accepted = {}
    /\ place = [op \in Ops |-> None]
    /\ temp_file = {}
    /\ idle = {}
    /\ sent = {}
    /\ answers = [op \in Ops |-> <<>>]
    /\ print_queue = <<>>
    /\ window_queue = [w \in Windows |-> <<>>]
    /\ job_export = {}
    /\ page = [op \in Ops |-> -1]
    /\ finished = {}
    /\ cancelled = {}
    /\ reports = {}
    /\ waiting = <<>>
    /\ running = None
    /\ drawn = FALSE
    /\ file = None
    /\ written = [op \in Ops |-> <<>>]
    /\ mispopped = FALSE

\* Mutant of Done: the operation stays in the queue of its window.
MutDone(op, result) ==
    /\ answers' = [answers EXCEPT ![op] = Append(@, result)]
    /\ UNCHANGED window_queue

\* The DONE signal and ev_window_print_operation_done.
Done(op, result) ==
    /\ answers' = [answers EXCEPT ![op] = Append(@, result)]
    /\ window_queue' = [window_queue EXCEPT ![WindowOf[op]] = Removing(@, {op})]

\* ev_print_operation_export_begin of next, if it is there and still has its
\* file: the exporter opens the file and the first page is due.  idles are
\* the pages due, open the file open before.
Begin(next, files, idles, open) ==
    IF next \in files
    THEN /\ file' = next
         /\ written' = [written EXCEPT ![next] = <<>>]
         /\ idle' = idles \cup {next}
    ELSE /\ file' = open
         /\ idle' = idles
         /\ UNCHANGED written

\* The queue without its oldest operation.
Popped == IF print_queue = <<>> THEN <<>> ELSE Front(print_queue)

MisPops(op) == print_queue # <<>> /\ Last(print_queue) # op

\* Mutant of RunNext: the next operation is taken from the young end.
MutRunNext(op, files, idles, open) ==
    /\ print_queue' = Popped
    /\ mispopped' = (mispopped \/ MisPops(op))
    /\ Begin(IF Popped = <<>> THEN None ELSE Head(Popped), files, idles, open)

\* ev_print_operation_export_run_next, called for op: it pops the oldest
\* operation, whichever that is, and begins the one after.
RunNext(op, files, idles, open) ==
    /\ print_queue' = Popped
    /\ mispopped' = (mispopped \/ MisPops(op))
    /\ Begin(IF Popped = <<>> THEN None ELSE Last(Popped), files, idles, open)

\* Mutant of Accept: the operation begins at once, whoever is printing.
MutAccept(op) ==
    /\ settings[op] # None
    /\ op \notin accepted
    /\ ClampRanges(settings[op])
    /\ accepted' = accepted \cup {op}
    /\ place' = [place EXCEPT ![op] = Start(settings[op])]
    /\ temp_file' = temp_file \cup {op}
    /\ Begin(op, temp_file', idle, file)
    /\ print_queue' = <<op>> \o print_queue
    /\ window_queue' = [window_queue EXCEPT ![WindowOf[op]] = <<op>> \o @]
    /\ UNCHANGED <<settings, sent, answers, mispopped, jobVars, workerVars>>

\* The user accepts the print dialog.
Accept(op) ==
    /\ settings[op] # None
    /\ op \notin accepted
    /\ ClampRanges(settings[op])
    /\ accepted' = accepted \cup {op}
    /\ place' = [place EXCEPT ![op] = Start(settings[op])]
    /\ temp_file' = temp_file \cup {op}
    /\ Begin(IF print_queue = <<>> THEN op ELSE None, temp_file', idle, file)
    /\ print_queue' = <<op>> \o print_queue
    /\ window_queue' = [window_queue EXCEPT ![WindowOf[op]] = <<op>> \o @]
    /\ UNCHANGED <<settings, sent, answers, mispopped, jobVars, workerVars>>

\* export_cancel: no page is due any more, the job is let go, and the
\* exporter is left as it is.
ExportCancel(op) ==
    /\ job_export' = job_export \ {op}
    /\ temp_file' = temp_file \ {op}
    /\ Done(op, "cancel")
    /\ RunNext(op, temp_file', idle \ {op}, file)
    /\ UNCHANGED <<settings, accepted, place, sent, page, finished, reports>>

\* ev_print_operation_export_cancel of the oldest operation of a window, from
\* its progress bar or before the window closes.  Only a job that has not
\* finished is cancelled, and one that has finished its last page counts as
\* finished until the worker gets to the next.
Cancel(w) ==
    /\ window_queue[w] # <<>>
    /\ LET op == Last(window_queue[w])
       IN  /\ IF op \in job_export /\ op \notin finished
              THEN /\ cancelled' = cancelled \cup {op}
                   /\ waiting' = Removing(waiting, {op})
              ELSE UNCHANGED <<cancelled, waiting>>
           /\ ExportCancel(op)
    /\ UNCHANGED <<running, drawn>>

-----------------------------------------------------------------------------
(* The pages of an operation *)

\* export_print_done with a printer that takes the file.
Send(op) ==
    /\ sent' = sent \cup {op}
    /\ idle' = idle \ {op}
    /\ file' = None
    /\ UNCHANGED <<temp_file, answers, queueVars, written>>

\* export_print_done when the file cannot be sent; with the previewer it ends
\* at once either way, and the previewer deletes the file.
Conclude(op, result) ==
    /\ temp_file' = IF result = "error" THEN temp_file \ {op} ELSE temp_file
    /\ Done(op, result)
    /\ RunNext(op, temp_file', idle \ {op}, None)
    /\ UNCHANGED sent

\* The end of export_print_page: the next page goes to the scheduler.
PushPage(op) ==
    /\ job_export' = job_export \cup {op}
    /\ page' = [page EXCEPT ![op] = place'[op].page]
    /\ waiting' = Append(waiting, op)
    /\ idle' = idle \ {op}
    /\ UNCHANGED <<temp_file, sent, answers, queueVars, exporterVars>>

\* export_print_page.
PrintPage(op) ==
    /\ op \in idle
    /\ IF op \notin temp_file
       THEN /\ idle' = idle \ {op}
            /\ UNCHANGED <<place, temp_file, sent, answers, queueVars,
                           job_export, page, waiting, exporterVars>>
       ELSE LET next == NextPlace(settings[op], place[op])
            IN  /\ place' = [place EXCEPT ![op] = next.at]
                /\ IF next.more THEN PushPage(op)
                   ELSE /\ \/ Send(op)
                           \/ \E result \in {"apply", "error"} :
                                Conclude(op, result)
                        /\ UNCHANGED <<job_export, page, waiting>>
    /\ UNCHANGED <<settings, accepted, finished, cancelled, reports, running, drawn>>

\* gtk_print_job_finished.
PrinterAnswers(op) ==
    /\ op \in sent
    /\ sent' = sent \ {op}
    /\ \E result \in {"apply", "error"} : Done(op, result)
    /\ temp_file' = temp_file \ {op}
    /\ RunNext(op, temp_file', idle, file)
    /\ UNCHANGED <<settings, accepted, place, jobVars, workerVars>>

-----------------------------------------------------------------------------
(* The worker *)

TakeJob ==
    /\ running = None
    /\ waiting # <<>>
    /\ running' = Head(waiting)
    /\ waiting' = Tail(waiting)
    /\ drawn' = FALSE
    /\ UNCHANGED <<opVars, queueVars, jobVars, exporterVars>>

\* ev_job_export_run under the document lock: the job is no longer finished,
\* and its page goes to the file that the exporter has open.
ExportPage ==
    /\ running # None
    /\ ~ drawn
    /\ drawn' = TRUE
    /\ finished' = finished \ {running}
    /\ written' = IF file = None THEN written
                  ELSE [written EXCEPT ![file] =
                            Append(@, [page |-> page[running], by |-> running])]
    /\ UNCHANGED <<opVars, queueVars, job_export, page, cancelled, reports,
                   waiting, running, file>>

\* ev_job_succeeded.
EndJob ==
    /\ drawn
    /\ running # None
    /\ running' = None
    /\ drawn' = FALSE
    /\ IF running \in cancelled THEN UNCHANGED <<finished, reports>>
       ELSE /\ finished' = finished \cup {running}
            /\ reports' = reports \cup {running}
    /\ UNCHANGED <<opVars, queueVars, job_export, page, cancelled, waiting,
                   exporterVars>>

\* emit_finished, and export_job_finished if the operation still listens.
JobFinished(op) ==
    /\ op \in reports
    /\ reports' = reports \ {op}
    /\ idle' = IF op \in job_export /\ op \notin cancelled
               THEN idle \cup {op} ELSE idle
    /\ UNCHANGED <<settings, accepted, place, temp_file, sent, answers, queueVars,
                   job_export, page, finished, cancelled, workerVars,
                   exporterVars>>

User ==
    \/ \E op \in Ops : Accept(op)
    \/ \E w \in Windows : Cancel(w)

Worker == TakeJob \/ ExportPage \/ EndJob

MainLoop == \E op \in Ops : PrintPage(op) \/ JobFinished(op)

Printer == \E op \in Ops : PrinterAnswers(op)

Next == User \/ Worker \/ MainLoop \/ Printer

Spec == Init /\ [][Next]_vars

\* The worker thread and the main loop are scheduled, and the print system
\* reports what has become of each job; nobody has to print or cancel.
FairSpec ==
    Spec /\ WF_vars(Worker) /\ WF_vars(MainLoop) /\ WF_vars(Printer)

-----------------------------------------------------------------------------
(* What the user has asked for *)

PagesOf(s) ==
    LET pages == FlattenSeq([i \in 1 .. NRanges(s) |->
            LET r == Ranges(s)[i]
            IN  [j \in 1 .. r.end - r.start + 1 |-> r.start + j - 1]])
    IN  IF s.reverse THEN Reverse(pages) ELSE pages

Blank == -1

\* A copy with the blank places that fill its last sheet.
Padded(s, pages) ==
    LET rest == Len(pages) % s.pages_per_sheet
    IN  IF rest = 0 THEN pages
        ELSE pages \o [i \in 1 .. s.pages_per_sheet - rest |-> Blank]

\* Every copy of every page in the order of printing.
AllCopies(s) ==
    IF s.collate
    THEN FlattenSeq([c \in 1 .. s.copies |-> Padded(s, PagesOf(s))])
    ELSE FlattenSeq([i \in 1 .. Len(PagesOf(s)) |->
                        [c \in 1 .. s.copies |-> PagesOf(s)[i]]])

\* The pages on the sheets asked for: all of them, the even or the odd ones.
Wanted(s) ==
    LET places == [i \in 1 .. Len(AllCopies(s)) |->
            [page |-> AllCopies(s)[i], sheet |-> 1 + (i - 1) \div s.pages_per_sheet]]
        asked(x) == x.page # Blank /\ ~ LeftOut(s, x)
        kept == SelectSeq(places, asked)
    IN  [i \in 1 .. Len(kept) |-> kept[i].page]

-----------------------------------------------------------------------------
(* Properties *)

Results == {"apply", "cancel", "error"}

TypeOK ==
    /\ settings \in Plans
    /\ accepted \subseteq Ops
    /\ temp_file \cup idle \cup sent \cup job_export \subseteq accepted
    /\ finished \cup cancelled \cup reports \subseteq accepted
    /\ answers \in [Ops -> Seq(Results)]
    /\ print_queue \in Seq(accepted) /\ IsInjective(print_queue)
    /\ window_queue \in [Windows -> Seq(accepted)]
    /\ waiting \in Seq(accepted) /\ IsInjective(waiting)
    /\ running \in accepted \cup {None}
    /\ drawn \in BOOLEAN
    /\ file \in accepted \cup {None}
    /\ \A op \in Ops : \A i \in DOMAIN written[op] : written[op][i].by \in accepted
    /\ mispopped \in BOOLEAN

\* The places the operations come to, and the pages they write, are those of
\* the document.
PagesAreInTheDocument ==
    /\ \A op \in Ops : place[op] \in Places \cup {None}
    /\ page \in [Ops -> Page \cup {-1}]
    /\ \A op \in Ops : \A i \in DOMAIN written[op] : written[op][i].page \in Page

IsCancelled(op) == "cancel" \in Range(answers[op])

\* The file of op is complete: it is printing, or printed, or shown.
IsPrinted(op) == ~ IsCancelled(op) /\ (op \in sent \/ "apply" \in Range(answers[op]))

By(op, pages) == SelectSeq(pages, LAMBDA p : p.by = op)

\* What an operation has written of its own is what its settings ask for, each
\* page in its place: the ranges, copies, collation, order and the half of the
\* sheets, through every hand-over from one operation to the next.
OwnPagesAreAsAsked ==
    /\ PagesAreInTheDocument
    /\ ~ mispopped =>
        \A op \in Ops : IsPrinted(op) =>
            LET own == By(op, written[op])
            IN  [i \in 1 .. Len(own) |-> own[i].page] = Wanted(settings[op])

\* A page in the file of another operation is one that was on its way when its
\* own operation was cancelled; it is the only one of that operation anywhere.
StrayPagesAreOfTheCancelled ==
    ~ mispopped =>
        \A op, later \in Ops :
          \A i \in DOMAIN written[op], j \in DOMAIN written[later] :
            LET other == written[op][i].by
            IN  other \notin {op, later} /\ written[later][j].by = other =>
                    op = later /\ i = j /\ IsCancelled(other)

\* It got there before the first page of the operation whose file it is, so
\* that this one's own pages are the rest of the file.
StrayPagesComeFirst ==
    ~ mispopped =>
        \A op \in Ops : \A i \in DOMAIN written[op] : i = 1 \/ written[op][i].by = op

\* The number of pages in the file of op before its own.
Strayed(op) == IF written[op] # <<>> /\ written[op][1].by # op THEN 1 ELSE 0

\* Where the loops of export_print_page are after n pages.
After(s, n) ==
    LET after[i \in 0 .. n] ==
            IF i = 0 THEN Start(s) ELSE NextPlace(s, after[i - 1]).at
    IN  after[n]

\* The own pages of an operation are those the loops come to, every page
\* once and in turn, and the file is printed when there are no more.
OwnPagesComeInTurn ==
    ~ mispopped =>
        \A op \in accepted :
            LET own == Len(written[op]) - Strayed(op)
                s == settings[op]
            IN  /\ \A n \in 1 .. own :
                    /\ NextPlace(s, After(s, n - 1)).more
                    /\ written[op][n + Strayed(op)].page = After(s, n).page
                /\ IsPrinted(op) => ~ NextPlace(s, After(s, own)).more

\* The queues, files and answers of the operations are well formed, their
\* pages do not mix, and none is lost, doubled or out of turn.
FilesAreInOrder ==
    /\ TypeOK
    /\ StrayPagesAreOfTheCancelled
    /\ StrayPagesComeFirst
    /\ OwnPagesComeInTurn

\* An operation ends once, unless it is cancelled when its file is already
\* with the printer: then the printer's answer ends it again.
EndsAgainOnlyFromThePrinter ==
    [][\A op \in Ops :
         answers[op] # <<>> /\ answers'[op] # answers[op] =>
            answers[op] = <<"cancel">> /\ op \in sent]_vars

\* Every accepted operation ends, whatever was cancelled around it.
EveryPrintEnds ==
    \A op \in Ops : op \in accepted ~> answers[op] # <<>>

=============================================================================
