---------------------------- MODULE JobScheduler ----------------------------
(***************************************************************************)
(* The job scheduler of libview (ev-job-scheduler.c) together with the     *)
(* part of EvJob that every kind of job shares (ev-jobs.c: run, succeeded, *)
(* failed, cancel and the idle that delivers FINISHED).                    *)
(*                                                                         *)
(* Two threads run it.  The main thread pushes, re-prioritises and cancels *)
(* jobs, runs the MAIN_LOOP jobs from idles and delivers FINISHED.  The    *)
(* worker thread pops the queues in priority order and runs the THREAD     *)
(* jobs.  A step of a thread here ends where the other thread can observe  *)
(* it: at an unlock, at an atomic access, and at each racy access to the   *)
(* plain fields of EvJob.                                                  *)
(*                                                                         *)
(* An EvSchedulerJob is a number: they are numbered in allocation order,   *)
(* so job_list, to which the code prepends, is the set of the listed ones  *)
(* searched from the greatest down.                                        *)
(***************************************************************************)
EXTENDS Integers, Sequences, FiniteSets, SequencesExt

CONSTANTS
    ThreadJobs,   \* jobs whose run_mode is EV_JOB_RUN_THREAD
    LoopJobs,     \* jobs whose run_mode is EV_JOB_RUN_MAIN_LOOP
    Reusable,     \* thread jobs pushed again after FINISHED: print, export
    NPriorities,  \* EV_JOB_N_PRIORITIES
    MaxPush,      \* bound: how often ev_job_scheduler_push_job is called
    LoopSteps,    \* bound: how many times a MAIN_LOOP job asks to be run
    None          \* the null pointer

ASSUME JobsAssumption ==
    /\ ThreadJobs \cap LoopJobs = {}
    /\ Reusable \subseteq ThreadJobs
    /\ None \notin ThreadJobs \cup LoopJobs

ASSUME BoundsAssumption ==
    /\ NPriorities \in Nat \ {0}
    /\ MaxPush \in Nat
    /\ LoopSteps \in Nat \ {0}

Jobs == ThreadJobs \cup LoopJobs

Priority == 0 .. NPriorities - 1

\* Identities of EvSchedulerJobs; 0 is the null pointer.
SJobs == 1 .. MaxPush

\* The bit-fields cancelled, finished and failed share one word: a store to
\* one of them loads the word, changes a bit and stores the word.
Word == [cancelled : BOOLEAN, finished : BOOLEAN, failed : BOOLEAN]

NoWord == [cancelled |-> FALSE, finished |-> FALSE, failed |-> FALSE]

VARIABLES
    job_queue,       \* priority -> queue of EvSchedulerJobs
    job_list,        \* the listed EvSchedulerJobs
    sjob,            \* the EvSchedulerJobs allocated so far: job, priority
    live,            \* the ones not freed
    handlers,        \* the ones whose "cancelled" handler is connected
    running_job,     \* the atomic pointer of that name
    flags,           \* job -> the word of its bit-fields
    cancellable,     \* jobs whose GCancellable is cancelled
    idle_id,         \* jobs whose idle_finished_id is not 0
    finished_idles,  \* jobs with a pending emit_finished source
    run_idles,       \* jobs with an attached ev_job_idle source
    todo,            \* job -> runs a MAIN_LOOP job still needs
    signals,         \* job -> signals emitted since it was last pushed
    worker_pc, worker_sjob, worker_word,
    main_pc, main_job, main_sjob, main_priority, main_word

sjobVars == <<job_list, sjob, live, handlers>>
jobVars  == <<flags, cancellable, idle_id, signals>>
loopVars == <<finished_idles, run_idles, todo>>
workerVars == <<worker_pc, worker_sjob, worker_word>>
mainVars == <<main_pc, main_job, main_sjob, main_priority, main_word>>

vars == <<job_queue, job_list, sjob, live, handlers, running_job, flags,
          cancellable, idle_id, finished_idles, run_idles, todo, signals,
          worker_pc, worker_sjob, worker_word,
          main_pc, main_job, main_sjob, main_priority, main_word>>

WorkerPc == {"get", "waiting", "check", "claim", "run", "reset", "body",
             "succeed", "fail", "emit", "finish", "add_idle", "store_id",
             "unset", "disconnect", "unlist", "free"}

MainPc == {"ready", "update", "cancel_store", "cancel_flag", "emission",
           "handler", "cancel_check", "emit_cancelled"}

TypeOK ==
    /\ job_queue \in [Priority -> Seq(SJobs)]
    /\ job_list \in SUBSET SJobs
    /\ sjob \in Seq([job : Jobs, priority : Priority])
    /\ Len(sjob) <= MaxPush
    /\ live \in SUBSET SJobs
    /\ handlers \in SUBSET SJobs
    /\ running_job \in Jobs \cup {None}
    /\ flags \in [Jobs -> Word]
    /\ cancellable \in SUBSET Jobs
    /\ idle_id \in SUBSET Jobs
    /\ finished_idles \in SUBSET Jobs
    /\ run_idles \in SUBSET Jobs
    /\ todo \in [Jobs -> 1 .. LoopSteps]
    /\ signals \in [Jobs -> Seq({"finished", "cancelled"})]
    /\ worker_pc \in WorkerPc
    /\ worker_sjob \in SJobs \cup {0}
    /\ worker_word \in Word
    /\ main_pc \in MainPc
    /\ main_job \in Jobs \cup {None}
    /\ main_sjob \in SJobs \cup {0}
    /\ main_priority \in Priority
    /\ main_word \in Word

Init ==
    /\ job_queue = [p \in Priority |-> <<>>]
    /\ job_list = {}
    /\ sjob = <<>>
    /\ live = {}
    /\ handlers = {}
    /\ running_job = None
    /\ flags = [j \in Jobs |-> NoWord]
    /\ cancellable = {}
    /\ idle_id = {}
    /\ finished_idles = {}
    /\ run_idles = {}
    /\ todo = [j \in Jobs |-> LoopSteps]
    /\ signals = [j \in Jobs |-> <<>>]
    /\ worker_pc = "get"
    /\ worker_sjob = 0
    /\ worker_word = NoWord
    /\ main_pc = "ready"
    /\ main_job = None
    /\ main_sjob = 0
    /\ main_priority = 0
    /\ main_word = NoWord

-----------------------------------------------------------------------------
(* Helpers *)

\* The entries that wait in the queues.
Queued == UNION {ToSet(job_queue[p]) : p \in Priority}

\* g_queue_find followed by g_queue_delete_link.
Without(q, s) == RemoveAt(q, CHOOSE i \in DOMAIN q : q[i] = s)

\* Mutant of Broadcast: the queue is changed and nobody is woken.
MutBroadcast == UNCHANGED worker_pc

\* g_cond_broadcast on job_queue_cond: a waiting worker looks again.
Broadcast == worker_pc' = IF worker_pc = "waiting" THEN "get" ELSE worker_pc

Emit(j, signal) == signals' = [signals EXCEPT ![j] = Append(@, signal)]

\* The EvSchedulerJobs allocated for job j.
SJobsOf(j) == {s \in DOMAIN sjob : sjob[s].job = j}

\* ev_scheduler_job_destroy, when no step of the other thread can see it
\* half done: disconnect, unlist, free.
Destroy(S) ==
    /\ handlers' = handlers \ S
    /\ job_list' = job_list \ S
    /\ live' = live \ S

WorkerJob == sjob[worker_sjob].job

WorkerGoto(from, to) == worker_pc = from /\ worker_pc' = to

MainGoto(from, to) == main_pc = from /\ main_pc' = to

\* A call of the main thread returns; its locals are cleared.
MainReturns ==
    /\ main_pc' = "ready"
    /\ main_job' = None
    /\ main_sjob' = 0
    /\ main_priority' = 0
    /\ main_word' = NoWord

\* Entry s is in the queue that its `priority' names.
InItsQueue(s) == s # 0 /\ s \in ToSet(job_queue[sjob[s].priority])

-----------------------------------------------------------------------------
(* The main thread *)

\* Mutant of MayPush: the client trusts ev_job_is_finished, which turns true
\* before FINISHED has been delivered.
MutMayPush(j) ==
    SJobsOf(j) = {} \/ (j \in Reusable \ cancellable /\ flags[j].finished)

\* Clients push a job once, and push a reusable one again for the next page
\* when FINISHED has been delivered and they have not cancelled it.
MayPush(j) ==
    \/ SJobsOf(j) = {}
    \/ /\ j \in Reusable \ cancellable
       /\ "finished" \in ToSet(signals[j])

\* A client holds a job from its push until it sees CANCELLED; it may still
\* cancel one that has reported FINISHED, but re-prioritises none.
Holds(j) == SJobsOf(j) # {} /\ "cancelled" \notin ToSet(signals[j])

\* ev_job_scheduler_push_job.  The worker cannot see the new entry before it
\* is in a queue, so its list insertion and its push are one step.
Push(j, p) ==
    /\ main_pc = "ready"
    /\ Len(sjob) < MaxPush
    /\ MayPush(j)
    /\ sjob' = Append(sjob, [job |-> j, priority |-> p])
    /\ LET s == Len(sjob) + 1
       IN  /\ live' = live \cup {s}
           /\ job_list' = job_list \cup {s}
           /\ handlers' = handlers \cup {s}
           /\ \/ /\ j \in ThreadJobs
                 /\ job_queue' = [job_queue EXCEPT ![p] = Append(@, s)]
                 /\ Broadcast
                 /\ UNCHANGED run_idles
              \/ /\ j \in LoopJobs
                 /\ run_idles' = run_idles \cup {j}
                 /\ UNCHANGED <<job_queue, worker_pc>>
    /\ signals' = [signals EXCEPT ![j] = <<>>]
    /\ UNCHANGED <<running_job, flags, cancellable, idle_id, finished_idles,
                   todo, worker_sjob, worker_word, mainVars>>

\* ev_job_scheduler_update_job, under job_list_mutex: find the entry of the
\* job and see whether its priority differs (main_sjob is 0 if not).
UpdateFind(j, p) ==
    /\ MainGoto("ready", "update")
    /\ j \in ThreadJobs
    /\ Holds(j)
    /\ signals[j] = <<>>
    /\ main_job' = j
    /\ main_priority' = p
    /\ LET found == SJobsOf(j) \cap job_list
       IN  \/ found = {} /\ main_sjob' = 0
          \/ \E s \in found :
                /\ \A t \in found : t <= s
                /\ main_sjob' = IF sjob[s].priority # p THEN s ELSE 0
    /\ UNCHANGED <<job_queue, sjobVars, running_job, jobVars, loopVars,
                   workerVars, main_word>>

\* Mutant of UpdateMove: the entry stays in its old queue as well.
MutUpdateMove ==
    /\ main_pc = "update"
    /\ MainReturns
    /\ \/ /\ InItsQueue(main_sjob)
          /\ job_queue' = [job_queue EXCEPT
                              ![main_priority] = Append(@, main_sjob)]
          /\ Broadcast
       \/ ~ InItsQueue(main_sjob) /\ UNCHANGED <<job_queue, worker_pc>>
    /\ UNCHANGED <<sjobVars, running_job, jobVars, loopVars, worker_sjob,
                   worker_word>>

\* Mutant of UpdateMove: the entry is pushed on the new queue without having
\* been found in the old one.
MutUpdateMoveUnchecked ==
    /\ main_pc = "update"
    /\ MainReturns
    /\ \/ /\ main_sjob # 0
          /\ LET rest == [p \in Priority |->
                           SelectSeq(job_queue[p], LAMBDA s : s # main_sjob)]
             IN  job_queue' = [rest EXCEPT
                                 ![main_priority] = Append(@, main_sjob)]
          /\ Broadcast
       \/ main_sjob = 0 /\ UNCHANGED <<job_queue, worker_pc>>
    /\ UNCHANGED <<sjobVars, running_job, jobVars, loopVars, worker_sjob,
                   worker_word>>

\* The rest of it, under job_queue_mutex.  The entry may have been freed since:
\* then it is in no queue, whatever the freed memory says its priority is.
\* Moving an entry does not change its `priority'.
UpdateMove ==
    /\ main_pc = "update"
    /\ MainReturns
    /\ \/ /\ InItsQueue(main_sjob)
          /\ LET old == sjob[main_sjob].priority
                 removed == [job_queue EXCEPT ![old] = Without(@, main_sjob)]
             IN  job_queue' = [removed EXCEPT
                                 ![main_priority] = Append(@, main_sjob)]
          /\ Broadcast
       \/ /\ ~ InItsQueue(main_sjob)
          /\ UNCHANGED <<job_queue, worker_pc>>
    /\ UNCHANGED <<sjobVars, running_job, jobVars, loopVars, worker_sjob,
                   worker_word>>

\* ev_job_cancel: load the word that holds `cancelled'.
CancelLoad(j) ==
    /\ MainGoto("ready", "cancel_store")
    /\ Holds(j)
    /\ ~ flags[j].cancelled
    /\ main_job' = j
    /\ main_word' = flags[j]
    /\ UNCHANGED <<job_queue, sjobVars, running_job, jobVars, loopVars,
                   workerVars, main_sjob, main_priority>>

CancelStore ==
    /\ MainGoto("cancel_store", "cancel_flag")
    /\ flags' = [flags EXCEPT ![main_job] =
                    [main_word EXCEPT !.cancelled = TRUE]]
    /\ UNCHANGED <<job_queue, sjobVars, running_job, cancellable, idle_id,
                   signals, loopVars, workerVars, main_job, main_sjob,
                   main_priority, main_word>>

\* g_cancellable_cancel: set its flag, then emit its "cancelled" signal, or do
\* nothing if it was set already.
CancelFlag ==
    /\ main_pc = "cancel_flag"
    /\ main_pc' = IF main_job \in cancellable THEN "cancel_check" ELSE "emission"
    /\ cancellable' = cancellable \cup {main_job}
    /\ main_sjob' = 0
    /\ UNCHANGED <<job_queue, sjobVars, running_job, flags, idle_id, signals,
                   loopVars, workerVars, main_job, main_priority, main_word>>

\* The handlers of main_job's cancellable that the emission has not called,
\* in connection order.  Those of MAIN_LOOP jobs are not on the cancellable.
PendingHandlers ==
    {s \in handlers : /\ sjob[s].job = main_job
                      /\ main_job \in ThreadJobs
                      /\ s > main_sjob}

CancelEmission ==
    /\ main_pc = "emission"
    /\ \/ \E s \in PendingHandlers :
             /\ \A t \in PendingHandlers : s <= t
             /\ main_sjob' = s
             /\ main_pc' = "handler"
       \/ /\ PendingHandlers = {}
          /\ main_sjob' = 0
          /\ main_pc' = "cancel_check"
    /\ UNCHANGED <<job_queue, sjobVars, running_job, jobVars, loopVars,
                   workerVars, main_job, main_priority, main_word>>

\* Mutant of CancelHandler: the entry leaves the queue and is not destroyed.
MutCancelHandlerLeaks ==
    /\ MainGoto("handler", "emission")
    /\ job_queue' = [p \in Priority |->
                        SelectSeq(job_queue[p], LAMBDA s : s # main_sjob)]
    /\ UNCHANGED <<sjobVars, running_job, jobVars, loopVars, workerVars,
                   main_job, main_sjob, main_priority, main_word>>

\* ev_scheduler_thread_job_cancelled: look in the queue of the entry's
\* `priority'; if it is there nobody else can reach it, so it is removed and
\* destroyed at once.  A freed entry is in no queue.
CancelHandler ==
    /\ MainGoto("handler", "emission")
    /\ \/ /\ InItsQueue(main_sjob)
          /\ job_queue' = [job_queue EXCEPT ![sjob[main_sjob].priority] =
                              Without(@, main_sjob)]
          /\ Destroy({main_sjob})
       \/ /\ ~ InItsQueue(main_sjob)
          /\ UNCHANGED <<job_queue, job_list, live, handlers>>
    /\ UNCHANGED <<sjob, running_job, jobVars, loopVars, workerVars,
                   main_job, main_sjob, main_priority, main_word>>

\* A job that has finished with no FINISHED to come gets no CANCELLED.
CancelCheck ==
    /\ main_pc = "cancel_check"
    /\ \/ /\ flags[main_job].finished /\ main_job \notin idle_id
          /\ MainReturns
       \/ /\ ~ (flags[main_job].finished /\ main_job \notin idle_id)
          /\ main_pc' = "emit_cancelled"
          /\ UNCHANGED <<main_job, main_sjob, main_priority, main_word>>
    /\ UNCHANGED <<job_queue, sjobVars, running_job, jobVars, loopVars,
                   workerVars>>

\* CANCELLED destroys the entry of a MAIN_LOOP job (ev_scheduler_job_destroy).
EmitCancelled ==
    /\ main_pc = "emit_cancelled"
    /\ MainReturns
    /\ Emit(main_job, "cancelled")
    /\ Destroy(IF main_job \in LoopJobs THEN SJobsOf(main_job) ELSE {})
    /\ UNCHANGED <<job_queue, sjob, running_job, flags, cancellable, idle_id,
                   loopVars, workerVars>>

\* The emit_finished idle.
EmitFinished(j) ==
    /\ main_pc = "ready"
    /\ j \in finished_idles
    /\ finished_idles' = finished_idles \ {j}
    /\ idle_id' = idle_id \ {j}
    /\ \/ flags[j].cancelled /\ UNCHANGED signals
       \/ ~ flags[j].cancelled /\ Emit(j, "finished")
    /\ UNCHANGED <<job_queue, sjobVars, running_job, flags, cancellable,
                   run_idles, todo, workerVars, mainVars>>

\* The ev_job_idle source of a MAIN_LOOP job: a cancelled one is dropped, one
\* with work left asks to be run again, and the last run reports success.
LoopJobIdle(j) ==
    /\ main_pc = "ready"
    /\ j \in run_idles
    /\ \/ /\ j \in cancellable
          /\ run_idles' = run_idles \ {j}
          /\ UNCHANGED <<todo, flags, signals, sjobVars>>
       \/ /\ j \notin cancellable
          /\ todo[j] > 1
          /\ todo' = [todo EXCEPT ![j] = @ - 1]
          /\ UNCHANGED <<run_idles, flags, signals, sjobVars>>
       \/ /\ j \notin cancellable
          /\ todo[j] = 1
          /\ flags' = [flags EXCEPT ![j].finished = TRUE, ![j].failed = FALSE]
          /\ Emit(j, "finished")
          /\ Destroy(SJobsOf(j))
          /\ run_idles' = run_idles \ {j}
          /\ UNCHANGED <<todo, sjob>>
    /\ UNCHANGED <<job_queue, running_job, cancellable, idle_id,
                   finished_idles, workerVars, mainVars>>

-----------------------------------------------------------------------------
(* The worker thread *)

\* ev_job_queue_get_next_unlocked: the head of the first queue that has one.
\* With every queue empty the thread waits on job_queue_cond.
GetNext ==
    /\ worker_pc = "get"
    /\ \/ \E p \in Priority :
             /\ job_queue[p] # <<>>
             /\ \A q \in Priority : q < p => job_queue[q] = <<>>
             /\ worker_pc' = "check"
             /\ worker_sjob' = Head(job_queue[p])
             /\ job_queue' = [job_queue EXCEPT ![p] = Tail(@)]
       \/ /\ \A p \in Priority : job_queue[p] = <<>>
          /\ worker_pc' = "waiting"
          /\ UNCHANGED <<worker_sjob, job_queue>>
    /\ UNCHANGED <<sjobVars, running_job, jobVars, loopVars, worker_word,
                   mainVars>>

\* g_cond_wait may return without a broadcast.
SpuriousWakeup ==
    /\ WorkerGoto("waiting", "get")
    /\ UNCHANGED <<job_queue, sjobVars, running_job, jobVars, loopVars,
                   worker_sjob, worker_word, mainVars>>

\* ev_job_thread: a cancelled job is not run ...
CheckCancelled ==
    /\ worker_pc = "check"
    /\ worker_pc' = IF WorkerJob \in cancellable THEN "unset" ELSE "claim"
    /\ UNCHANGED <<job_queue, sjobVars, running_job, jobVars, loopVars,
                   worker_sjob, worker_word, mainVars>>

\* ... and running_job is set before it runs.
Claim ==
    /\ WorkerGoto("claim", "run")
    /\ running_job' = WorkerJob
    /\ UNCHANGED <<job_queue, sjobVars, jobVars, loopVars, worker_sjob,
                   worker_word, mainVars>>

\* ev_job_run: the run function of a reusable job starts by clearing failed
\* and finished, here the load of their word.
StartRun ==
    /\ worker_pc = "run"
    /\ \/ /\ WorkerJob \in Reusable
          /\ worker_pc' = "reset"
          /\ worker_word' = flags[WorkerJob]
       \/ /\ WorkerJob \notin Reusable
          /\ worker_pc' = "body"
          /\ UNCHANGED worker_word
    /\ UNCHANGED <<job_queue, sjobVars, running_job, jobVars, loopVars,
                   worker_sjob, mainVars>>

\* Store a changed word into the bit-fields of the worker's job.
StoreWord(w) ==
    flags' = [flags EXCEPT ![WorkerJob] = w]

\* Mutant of ResetFlags: `finished' of the previous page is left set.
MutResetFlags ==
    /\ WorkerGoto("reset", "body")
    /\ StoreWord([worker_word EXCEPT !.failed = FALSE])
    /\ UNCHANGED <<job_queue, sjobVars, running_job, cancellable, idle_id,
                   signals, loopVars, worker_sjob, worker_word, mainVars>>

ResetFlags ==
    /\ WorkerGoto("reset", "body")
    /\ StoreWord([worker_word EXCEPT !.failed = FALSE, !.finished = FALSE])
    /\ UNCHANGED <<job_queue, sjobVars, running_job, cancellable, idle_id,
                   signals, loopVars, worker_sjob, worker_word, mainVars>>

\* The work itself, which ends in one of three ways: the run function sees the
\* cancellation and leaves, or calls ev_job_succeeded, or ev_job_failed.  The
\* last two do nothing for a job that has reported already.
RunBody ==
    /\ worker_pc = "body"
    /\ \/ /\ WorkerJob \in cancellable
          /\ worker_pc' = "unset"
       \/ worker_pc' = IF flags[WorkerJob].finished THEN "unset" ELSE "succeed"
       \/ worker_pc' = IF \/ flags[WorkerJob].finished
                          \/ flags[WorkerJob].failed
                       THEN "unset" ELSE "fail"
    /\ worker_word' = flags[WorkerJob]
    /\ UNCHANGED <<job_queue, sjobVars, running_job, jobVars, loopVars,
                   worker_sjob, mainVars>>

\* ev_job_succeeded and ev_job_failed store `failed'.
MarkOutcome ==
    /\ worker_pc \in {"succeed", "fail"}
    /\ worker_pc' = "emit"
    /\ StoreWord([worker_word EXCEPT !.failed = (worker_pc = "fail")])
    /\ UNCHANGED <<job_queue, sjobVars, running_job, cancellable, idle_id,
                   signals, loopVars, worker_sjob, worker_word, mainVars>>

\* ev_job_emit_finished: nothing for a cancelled job; else load the word of
\* `finished' ...
EmitCheck ==
    /\ worker_pc = "emit"
    /\ worker_pc' = IF WorkerJob \in cancellable THEN "unset" ELSE "finish"
    /\ worker_word' = flags[WorkerJob]
    /\ UNCHANGED <<job_queue, sjobVars, running_job, jobVars, loopVars,
                   worker_sjob, mainVars>>

SetFinished ==
    /\ WorkerGoto("finish", "add_idle")
    /\ StoreWord([worker_word EXCEPT !.finished = TRUE])
    /\ UNCHANGED <<job_queue, sjobVars, running_job, cancellable, idle_id,
                   signals, loopVars, worker_sjob, worker_word, mainVars>>

\* ... attach the source, which the main loop may dispatch at once ...
AddIdle ==
    /\ WorkerGoto("add_idle", "store_id")
    /\ finished_idles' = finished_idles \cup {WorkerJob}
    /\ UNCHANGED <<job_queue, sjobVars, running_job, jobVars, run_idles, todo,
                   worker_sjob, worker_word, mainVars>>

\* ... and then store its id.
StoreId ==
    /\ WorkerGoto("store_id", "unset")
    /\ idle_id' = idle_id \cup {WorkerJob}
    /\ UNCHANGED <<job_queue, sjobVars, running_job, flags, cancellable,
                   signals, loopVars, worker_sjob, worker_word, mainVars>>

Unset ==
    /\ WorkerGoto("unset", "disconnect")
    /\ running_job' = None
    /\ worker_word' = NoWord
    /\ UNCHANGED <<job_queue, sjobVars, jobVars, loopVars, worker_sjob,
                   mainVars>>

\* ev_scheduler_job_destroy, in the three steps main can see: an emission in
\* progress does not hold up the disconnection.
Disconnect ==
    /\ WorkerGoto("disconnect", "unlist")
    /\ handlers' = handlers \ {worker_sjob}
    /\ UNCHANGED <<job_queue, job_list, sjob, live, running_job, jobVars,
                   loopVars, worker_sjob, worker_word, mainVars>>

Unlist ==
    /\ WorkerGoto("unlist", "free")
    /\ job_list' = job_list \ {worker_sjob}
    /\ UNCHANGED <<job_queue, sjob, live, handlers, running_job, jobVars,
                   loopVars, worker_sjob, worker_word, mainVars>>

Free ==
    /\ WorkerGoto("free", "get")
    /\ live' = live \ {worker_sjob}
    /\ worker_sjob' = 0
    /\ UNCHANGED <<job_queue, job_list, sjob, handlers, running_job, jobVars,
                   loopVars, worker_word, mainVars>>

-----------------------------------------------------------------------------
(* The specification *)

Client ==
    \/ \E j \in Jobs, p \in Priority : Push(j, p) \/ UpdateFind(j, p)
    \/ \E j \in Jobs : CancelLoad(j)

\* What the main thread does without being asked by a client.
MainLoop ==
    \/ UpdateMove
    \/ CancelStore \/ CancelFlag \/ CancelEmission \/ CancelHandler
    \/ CancelCheck \/ EmitCancelled

Idles == \E j \in Jobs : EmitFinished(j) \/ LoopJobIdle(j)

Worker ==
    \/ GetNext
    \/ CheckCancelled \/ Claim \/ StartRun \/ ResetFlags \/ RunBody
    \/ MarkOutcome \/ EmitCheck \/ SetFinished \/ AddIdle \/ StoreId
    \/ Unset \/ Disconnect \/ Unlist \/ Free

Next == Client \/ MainLoop \/ Idles \/ Worker \/ SpuriousWakeup

\* Clients need not act and no spurious wakeup need come; the main loop and
\* the worker thread keep running, and an attached idle is dispatched.
Fairness ==
    /\ WF_vars(MainLoop)
    /\ WF_vars(Worker)
    /\ \A j \in Jobs : SF_vars(EmitFinished(j)) /\ SF_vars(LoopJobIdle(j))

Spec == Init /\ [][Next]_vars

FairSpec == Spec /\ Fairness

-----------------------------------------------------------------------------
(* Properties *)

\* The entry the worker has popped and not yet freed.
Held == {worker_sjob} \ {0}

LoopEntries == {s \in DOMAIN sjob : sjob[s].job \in LoopJobs}

\* Every entry that is not freed has exactly one holder, the one who will free
\* it: a single place in a single queue, the worker, or, for the entry of a
\* MAIN_LOOP job, the signals of its job.  Nobody holds a freed entry.
OneHolder ==
    /\ \A p \in Priority : IsInjective(job_queue[p])
    /\ \A p, q \in Priority :
         p # q => ToSet(job_queue[p]) \cap ToSet(job_queue[q]) = {}
    /\ Held \cap Queued = {}
    /\ (Held \cup Queued) \cap LoopEntries = {}
    /\ Held \cup Queued \subseteq live
    /\ live \subseteq Held \cup Queued \cup LoopEntries

\* What ev_job_scheduler_update_job can find in job_list, and what a
\* cancellation can call, is not freed at that moment, and a queued entry can
\* be found and called.
ReachableIsLive ==
    /\ handlers \subseteq job_list
    /\ job_list \subseteq live
    /\ Queued \subseteq handlers

\* The worker never sleeps on job_queue_cond while a queue has an entry: no
\* broadcast is lost.
NeverSleepsOnWork == worker_pc = "waiting" => Queued = {}

\* ev_job_scheduler_get_running_thread_job returns a job only while the worker
\* is inside its ev_job_thread with the entry of that job in hand.
RunningJobIsHeld ==
    running_job # None =>
        /\ worker_sjob # 0
        /\ running_job = WorkerJob
        /\ worker_pc \in {"run", "reset", "body", "succeed", "fail", "emit",
                          "finish", "add_idle", "store_id", "unset"}

\* What the two threads do with each other's data is sound: the state is well
\* formed, every entry has one holder, what can be reached has not been freed,
\* and running_job names the job in hand.
EntriesAreSafe == TypeOK /\ OneHolder /\ ReachableIsLive /\ RunningJobIsHeld

\* FINISHED is emitted once for each push, and never while the entry of that
\* push is still waiting for its turn.
FinishedOncePerPush ==
    \A j \in ThreadJobs :
        /\ Cardinality({i \in DOMAIN signals[j] : signals[j][i] = "finished"}) <= 1
        /\ "finished" \in ToSet(signals[j]) =>
             \A s \in SJobsOf(j) \cap Queued : \E t \in SJobsOf(j) : t > s

\* Every EvSchedulerJob is freed in the end.
EveryEntryIsFreed == \A s \in SJobs : s \in live ~> s \notin live

\* A pushed job that nobody cancels is reported in the end.
UncancelledIsReported ==
    \A j \in Jobs :
        (SJobsOf(j) # {} /\ signals[j] = <<>>) ~>
            (signals[j] # <<>> \/ j \in cancellable)

\* Where each entry is, in the terms of WorkQueue.
Phase == [s \in SJobs |->
            IF s \notin DOMAIN sjob THEN "new"
            ELSE IF s \notin live THEN "retired"
            ELSE IF s \in Queued THEN "waiting" ELSE "taken"]

WQ == INSTANCE WorkQueue WITH Entries <- SJobs, phase <- Phase

\* The scheduler implements WorkQueue: an entry is run by the worker or
\* removed by its cancellation, never both, and is freed exactly once.
ImplementsWorkQueue == WQ!WQSpec

\* The message of emit_finished: "job was cancelled, do not emit finished".
\* A client that has seen CANCELLED never sees FINISHED for the same push.
NoFinishedAfterCancelled ==
    \A j \in Jobs : \A a, b \in DOMAIN signals[j] :
        a < b => ~ (signals[j][a] = "cancelled" /\ signals[j][b] = "finished")

=============================================================================
