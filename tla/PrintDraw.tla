----------------------------- MODULE PrintDraw -----------------------------
(***************************************************************************)
(* Printing of the documents that draw their pages themselves: in          *)
(* ev-print-operation.c an EvPrintOperationPrint lets a GtkPrintOperation  *)
(* ask for one page after the other, defers the drawing to an EvJobPrint   *)
(* of the scheduler, and tells GTK when the page is finished.  The         *)
(* operations of a window wait in its queue, from which the progress bar   *)
(* and the closing of the window cancel the oldest.                        *)
(*                                                                         *)
(* GTK is modelled from what the code relies on: while a page is deferred  *)
(* it asks for nothing, and when the page is finished it asks for the next *)
(* one, or ends.  The worker goes through the run of a job in the order of *)
(* its loads and stores; ev_job_cancel has the two halves before and after *)
(* it looks at them.  The flags of the job are taken one by one: that they *)
(* share a word is the subject of JobScheduler.                            *)
(***************************************************************************)
EXTENDS Integers, Sequences, FiniteSets, SequencesExt

CONSTANTS
    Ops,            \* the EvPrintOperationPrints of a window
    NPages,         \* pages that each of them prints
    None            \* the null pointer

ASSUME ParametersAssumption ==
    /\ NPages \in Nat \ {0}
    /\ None \notin Ops \cup {"apply", "cancel"}

VARIABLES
    state,          \* operation -> what its GtkPrintOperation is doing
    at,             \* operation -> the page GTK has asked for last
    gtk_cancelled,  \* the operations whose GtkPrintOperation is cancelled
    sheets,         \* operation -> the pages finished: number, and if drawn
    drawn,          \* the operations whose open page is drawn
    result,         \* operation -> what DONE has said, or None
    print_queue,    \* the operations of the window, the oldest last
    closing,        \* ev_window_print_cancel is at work
    job_print,      \* the operations that have their EvJobPrint
    cancelled,      \* the operations whose job is cancelled
    cancelling,     \* the operation whose ev_job_cancel is half way
    finished,       \* the operations whose job has finished set
    idle_ids,       \* those whose job has an idle_finished_id
    reports,        \* those whose job's emit_finished is due
    finish_idles,   \* those whose draw_page_finish_idle is due
    waiting,        \* the jobs in the queue of the scheduler
    running,        \* the job the worker has taken
    running_job,    \* the job the worker says it runs
    pc,             \* where the worker is with it
    unheard         \* the operations cancelled in the middle of a page
                    \* without a CANCELLED signal

gtkVars == <<state, at, gtk_cancelled, sheets, result, print_queue>>
jobVars == <<job_print, cancelled, cancelling, finish_idles, closing, unheard>>
flagVars == <<drawn, finished, idle_ids, reports>>
workerVars == <<waiting, running, running_job, pc>>
vars == <<gtkVars, jobVars, flagVars, workerVars>>

Init ==
    /\ state = [op \in Ops |-> "new"]
    /\ at = [op \in Ops |-> 0]
    /\ gtk_cancelled = {}
    /\ sheets = [op \in Ops |-> <<>>]
    /\ drawn = {}
    /\ result = [op \in Ops |-> None]
    /\ print_queue = <<>>
    /\ closing = FALSE
    /\ job_print = {}
    /\ cancelled = {}
    /\ cancelling = None
    /\ finished = {}
    /\ idle_ids = {}
    /\ reports = {}
    /\ finish_idles = {}
    /\ waiting = <<>>
    /\ running = None
    /\ running_job = None
    /\ pc = "idle"
    /\ unheard = {}

\* The main thread is in its loop: not in the middle of ev_job_cancel, and
\* not in the loop of ev_window_print_cancel.
InMainLoop == cancelling = None /\ (closing => print_queue = <<>>)

\* Queue q without op, which is in it once at most.
Without(q, op) ==
    IF op \in ToSet(q) THEN RemoveAt(q, CHOOSE i \in DOMAIN q : q[i] = op) ELSE q

-----------------------------------------------------------------------------
(* GTK and the answers to its signals *)

\* begin-print: the operation is in the queue of its window.
BeginPrint(op) ==
    /\ InMainLoop
    /\ ~ closing
    /\ state[op] = "new"
    /\ state' = [state EXCEPT ![op] = "ready"]
    /\ print_queue' = <<op>> \o print_queue
    /\ UNCHANGED <<at, gtk_cancelled, sheets, result, jobVars, flagVars, workerVars>>

\* done, and ev_window_print_operation_done.
End(op, how) ==
    /\ state' = [state EXCEPT ![op] = "ended"]
    /\ result' = [result EXCEPT ![op] = how]
    /\ print_queue' = Without(print_queue, op)

\* GTK ends, or asks for a page once more: draw-page either puts the job into
\* the queue, or sees that it was cancelled and cancels the operation.
NextPage(op) ==
    /\ InMainLoop
    /\ state[op] = "ready"
    /\ \/ /\ op \in gtk_cancelled \/ at[op] = NPages
          /\ End(op, IF op \in gtk_cancelled THEN "cancel" ELSE "apply")
          /\ UNCHANGED <<at, gtk_cancelled, job_print, waiting>>
       \/ /\ op \notin gtk_cancelled
          /\ at[op] < NPages
          /\ at' = [at EXCEPT ![op] = @ + 1]
          /\ job_print' = job_print \cup {op}
          /\ IF op \in job_print /\ op \in cancelled
             THEN /\ gtk_cancelled' = gtk_cancelled \cup {op}
                  /\ End(op, "cancel")
                  /\ UNCHANGED waiting
             ELSE /\ state' = [state EXCEPT ![op] = "deferred"]
                  /\ waiting' = Append(waiting, op)
                  /\ UNCHANGED <<gtk_cancelled, result, print_queue>>
    /\ UNCHANGED <<sheets, flagVars, cancelled, cancelling, finish_idles,
                   closing, unheard, running, running_job, pc>>

\* gtk_print_operation_draw_page_finish.
FinishPage(op) ==
    /\ sheets' = [sheets EXCEPT ![op] =
                    Append(@, [page |-> at[op], drawn |-> op \in drawn])]
    /\ drawn' = drawn \ {op}
    /\ state' = [state EXCEPT ![op] = "ready"]

\* emit_finished, and print_job_finished if the operation still listens.
JobFinished(op) ==
    /\ InMainLoop
    /\ op \in reports
    /\ reports' = reports \ {op}
    /\ idle_ids' = idle_ids \ {op}
    /\ IF op \in cancelled \/ state[op] = "ended"
       THEN UNCHANGED <<sheets, drawn, state>>
       ELSE FinishPage(op)
    /\ UNCHANGED <<at, gtk_cancelled, result, print_queue, jobVars, finished,
                   workerVars>>

\* Mutant of DrawPageFinishIdle: it does not wait for the worker.
MutDrawPageFinishIdle(op) ==
    /\ InMainLoop
    /\ op \in finish_idles
    /\ state[op] # "ended"
    /\ finish_idles' = finish_idles \ {op}
    /\ FinishPage(op)
    /\ UNCHANGED <<at, gtk_cancelled, result, print_queue, job_print, cancelled,
                   cancelling, closing, unheard, finished, idle_ids, reports,
                   workerVars>>

\* Mutant of DrawPageFinishIdle: it looks once.
MutDrawPageFinishIdle2(op) ==
    /\ InMainLoop
    /\ op \in finish_idles
    /\ state[op] # "ended"
    /\ finish_idles' = finish_idles \ {op}
    /\ IF running_job = op THEN UNCHANGED <<sheets, drawn, state>>
       ELSE FinishPage(op)
    /\ UNCHANGED <<at, gtk_cancelled, result, print_queue, job_print, cancelled,
                   cancelling, closing, unheard, finished, idle_ids, reports,
                   workerVars>>

\* draw_page_finish_idle, once the worker no longer says it runs the job.
DrawPageFinishIdle(op) ==
    /\ InMainLoop
    /\ op \in finish_idles
    /\ state[op] # "ended"
    /\ running_job # op
    /\ finish_idles' = finish_idles \ {op}
    /\ FinishPage(op)
    /\ UNCHANGED <<at, gtk_cancelled, result, print_queue, job_print, cancelled,
                   cancelling, closing, unheard, finished, idle_ids, reports,
                   workerVars>>

-----------------------------------------------------------------------------
(* Cancelling *)

\* ev_print_operation_print_cancel, and the first half of ev_job_cancel.
CancelOldest ==
    /\ cancelling = None
    /\ print_queue # <<>>
    /\ LET op == Last(print_queue)
       IN  IF op \notin job_print
           THEN /\ gtk_cancelled' = gtk_cancelled \cup {op}
                /\ UNCHANGED <<cancelled, cancelling, waiting>>
           ELSE /\ cancelled' = cancelled \cup {op}
                /\ cancelling' = IF op \in cancelled THEN None ELSE op
                /\ waiting' = Without(waiting, op)
                /\ UNCHANGED gtk_cancelled

\* The cancel button of the progress bar.
Cancel ==
    /\ InMainLoop
    /\ CancelOldest
    /\ UNCHANGED <<state, at, sheets, result, print_queue, flagVars, job_print,
                   finish_idles, closing, unheard, running, running_job, pc>>

\* The window is closed, with "Cancel print and Close".
Close ==
    /\ InMainLoop
    /\ ~ closing
    /\ print_queue # <<>>
    /\ closing' = TRUE
    /\ UNCHANGED <<gtkVars, flagVars, workerVars, job_print, cancelled,
                   cancelling, finish_idles, unheard>>

\* One pass of the loop of ev_window_print_cancel.
PrintCancel ==
    /\ closing
    /\ CancelOldest
    /\ UNCHANGED <<state, at, sheets, result, print_queue, flagVars, job_print,
                   finish_idles, closing, unheard, running, running_job, pc>>

\* Mutant of EmitCancelled: also for a job that has reported.
MutEmitCancelled ==
    /\ cancelling # None
    /\ cancelling' = None
    /\ IF running_job = cancelling
       THEN /\ finish_idles' = finish_idles \cup {cancelling}
            /\ UNCHANGED <<sheets, drawn, state>>
       ELSE /\ FinishPage(cancelling)
            /\ UNCHANGED finish_idles
    /\ UNCHANGED unheard
    /\ UNCHANGED <<at, gtk_cancelled, result, print_queue, job_print, cancelled,
                   closing, finished, idle_ids, reports, workerVars>>

\* The second half of ev_job_cancel, and print_job_cancelled if the job has
\* anything left to cancel.
EmitCancelled ==
    /\ cancelling # None
    /\ cancelling' = None
    /\ \/ /\ cancelling \in finished \ idle_ids
          /\ unheard' = IF state[cancelling] = "deferred"
                        THEN unheard \cup {cancelling} ELSE unheard
          /\ UNCHANGED <<sheets, drawn, state, finish_idles>>
       \/ /\ cancelling \notin finished \ idle_ids
          /\ IF running_job = cancelling
             THEN /\ finish_idles' = finish_idles \cup {cancelling}
                  /\ UNCHANGED <<sheets, drawn, state>>
             ELSE /\ FinishPage(cancelling)
                  /\ UNCHANGED finish_idles
          /\ UNCHANGED unheard
    /\ UNCHANGED <<at, gtk_cancelled, result, print_queue, job_print, cancelled,
                   closing, finished, idle_ids, reports, workerVars>>

-----------------------------------------------------------------------------
(* The worker, and the run of an EvJobPrint *)

At(from, to) == pc = from /\ pc' = to

TakeJob ==
    /\ At("idle", "taken")
    /\ waiting # <<>>
    /\ running' = Head(waiting)
    /\ waiting' = Tail(waiting)
    /\ UNCHANGED <<gtkVars, jobVars, flagVars, running_job>>

\* ev_job_thread: a job that is cancelled does not run.
TestCancellable ==
    /\ \/ At("taken", "tested") /\ running \notin cancelled
       \/ At("taken", "leave") /\ running \in cancelled
    /\ UNCHANGED <<gtkVars, jobVars, flagVars, waiting, running, running_job>>

SetRunningJob ==
    /\ At("tested", "run")
    /\ running_job' = running
    /\ UNCHANGED <<gtkVars, jobVars, flagVars, waiting, running>>

\* Mutant of ResetFlags: a job that is finished needs no run.
MutResetFlags ==
    /\ \/ At("run", "draw") /\ running \notin finished
       \/ At("run", "succeeded") /\ running \in finished
    /\ finished' = finished \ {running}
    /\ UNCHANGED <<gtkVars, jobVars, drawn, idle_ids, reports, waiting, running,
                   running_job>>

\* ev_job_print_run.
ResetFlags ==
    /\ At("run", "draw")
    /\ finished' = finished \ {running}
    /\ UNCHANGED <<gtkVars, jobVars, drawn, idle_ids, reports, waiting, running,
                   running_job>>

DrawPage ==
    /\ At("draw", "drawn")
    /\ drawn' = drawn \cup {running}
    /\ UNCHANGED <<gtkVars, jobVars, finished, idle_ids, reports, waiting,
                   running, running_job>>

\* A run that was cancelled reports nothing.
TestAgain ==
    /\ \/ At("drawn", "succeeded") /\ running \notin cancelled
       \/ At("drawn", "leave") /\ running \in cancelled
    /\ UNCHANGED <<gtkVars, jobVars, flagVars, waiting, running, running_job>>

\* ev_job_emit_finished.
SetFinished ==
    /\ At("succeeded", "finished")
    /\ finished' = finished \cup {running}
    /\ UNCHANGED <<gtkVars, jobVars, drawn, idle_ids, reports, waiting, running,
                   running_job>>

AddIdle ==
    /\ At("finished", "added")
    /\ reports' = reports \cup {running}
    /\ UNCHANGED <<gtkVars, jobVars, drawn, finished, idle_ids, waiting, running,
                   running_job>>

StoreIdleId ==
    /\ At("added", "leave")
    /\ idle_ids' = idle_ids \cup {running}
    /\ UNCHANGED <<gtkVars, jobVars, drawn, finished, reports, waiting, running,
                   running_job>>

Leave ==
    /\ At("leave", "idle")
    /\ running' = None
    /\ running_job' = None
    /\ UNCHANGED <<gtkVars, jobVars, flagVars, waiting>>

Worker ==
    \/ TakeJob \/ TestCancellable \/ SetRunningJob \/ ResetFlags \/ DrawPage
    \/ TestAgain \/ SetFinished \/ AddIdle \/ StoreIdleId \/ Leave

MainLoop ==
    \E op \in Ops : NextPage(op) \/ JobFinished(op) \/ DrawPageFinishIdle(op)

User == (\E op \in Ops : BeginPrint(op)) \/ Cancel \/ Close

Next == User \/ MainLoop \/ PrintCancel \/ EmitCancelled \/ Worker

Spec == Init /\ [][Next]_vars

\* Both threads are scheduled; nobody has to print, to cancel or to close.
FairSpec ==
    Spec /\ WF_vars(Worker) /\ WF_vars(MainLoop) /\ WF_vars(PrintCancel)
         /\ WF_vars(EmitCancelled)

-----------------------------------------------------------------------------
(* Properties *)

TypeOK ==
    /\ state \in [Ops -> {"new", "ready", "deferred", "ended"}]
    /\ at \in [Ops -> 0 .. NPages]
    /\ result \in [Ops -> {"apply", "cancel", None}]
    /\ sheets \in [Ops -> Seq([page : 0 .. NPages, drawn : BOOLEAN])]
    /\ print_queue \in Seq(Ops) /\ IsInjective(print_queue)
    /\ waiting \in Seq(Ops) /\ IsInjective(waiting)
    /\ gtk_cancelled \cup drawn \cup job_print \cup cancelled \subseteq Ops
    /\ finished \cup idle_ids \cup reports \cup finish_idles \cup unheard
            \subseteq job_print
    /\ {cancelling, running, running_job} \subseteq Ops \cup {None}
    /\ closing \in BOOLEAN
    /\ pc \in {"idle", "taken", "tested", "run", "draw", "drawn", "succeeded",
               "finished", "added", "leave"}

\* The idle that ends a cancelled page finds it open, so that it neither ends
\* another one nor comes after the operation is freed; an exception is the
\* identifier that the worker has stored after its idle was dispatched.
IdlesAreOfOpenPages ==
    \A op \in finish_idles :
        state[op] = "deferred" \/ op \in idle_ids \ reports

\* The pages, jobs and idles of the operations are well formed and belong
\* together.
PagesAreInHand == TypeOK /\ IdlesAreOfOpenPages

\* What GTK sends to the printer of an operation that nobody has cancelled is
\* every page once, in order and drawn.
PrintedPagesAreThePages ==
    \A op \in Ops :
        result[op] = "apply" /\ op \notin cancelled =>
            sheets[op] = [i \in 1 .. NPages |-> [page |-> i, drawn |-> TRUE]]

\* No page is finished while the worker draws it.
NothingIsFinishedWhileDrawn ==
    [][\A op \in Ops :
         sheets'[op] # sheets[op] => ~ (running = op /\ pc \in {"run", "draw"})]_vars

\* Every operation ends, unless it was cancelled without a signal in the middle
\* of a page, or the window was closed.
PrintsEnd ==
    \A op \in Ops :
        state[op] = "ready" ~> state[op] = "ended" \/ op \in unheard \/ closing

\* "Cancel print and Close": the operations end, and the window closes.
ClosingEnds == closing ~> print_queue = <<>>
=============================================================================
