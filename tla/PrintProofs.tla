---------------------------- MODULE PrintProofs ----------------------------
(***************************************************************************)
(* Machine-checked proofs about both kinds of print operation, PrintDraw   *)
(* and PrintExport: for every set of operations and of windows, whatever   *)
(* their users ask for, and every number of pages.  PrintExport comes      *)
(* second, under the names DocumentPrints gives to it.                     *)
(***************************************************************************)
EXTENDS PrintDraw, DocumentPrints, SequenceLemmas, SequenceTheorems, TLAPS

-----------------------------------------------------------------------------
(* Queues *)

\* Without removes the operation, whether it is there or not.
LEMMA WithoutRemoves ==
    ASSUME NEW q \in Seq(Ops), IsInjective(q), NEW op
    PROVE  /\ Without(q, op) \in Seq(Ops)
           /\ ToSet(Without(q, op)) = ToSet(q) \ {op}
           /\ IsInjective(Without(q, op))
<1> DEFINE i == CHOOSE i \in DOMAIN q : q[i] = op
<1>1. CASE op \in ToSet(q)
  <2>1. i \in DOMAIN q /\ q[i] = op
    BY <1>1 DEF ToSet
  <2>2. Without(q, op) = RemoveAt(q, i)
    BY <1>1 DEF Without
  <2> HIDE DEF i
  <2> QED BY <2>1, <2>2, RemovingAnEntry
<1>2. CASE op \notin ToSet(q)
  BY <1>2 DEF Without
<1> QED BY <1>1, <1>2

-----------------------------------------------------------------------------
(* The inductive invariant *)

\* The worker has op, and has not yet reported its page.
Working(op) ==
    /\ running = op
    /\ pc \in {"taken", "tested", "run", "draw", "drawn", "succeeded", "finished"}

\* Pages 1 to n, each once, in order and drawn.
Drawn(n) == [i \in 1 .. n |-> [page |-> i, drawn |-> TRUE]]

\* What the worker says it runs is what it runs, as long as it works on it.
WorkerIsInStep ==
    /\ (pc = "idle") <=> (running = None)
    /\ running # None => running \in job_print
    /\ pc \in {"run", "draw", "drawn", "succeeded", "finished", "added"}
          => running_job = running
    /\ pc \in {"idle", "taken", "tested"} => running_job = None
    /\ pc = "leave" => running_job \in {None, running}
    /\ pc \in {"succeeded", "finished"} => state[running] = "deferred"

\* Jobs belong to operations that have begun and been asked for a page, and
\* the queue of the window holds the operations that have begun and not ended.
JobsAreInStep ==
    /\ cancelled \subseteq job_print
    /\ finish_idles \subseteq cancelled
    /\ cancelling # None => /\ cancelling \in cancelled \ finish_idles
                            /\ state[cancelling] # "ended"
    /\ \A op \in Ops :
          /\ state[op] = "new" => op \notin job_print
          /\ (op \in ToSet(print_queue)) <=> (state[op] \in {"ready", "deferred"})

\* A job that waits has an open page that nobody draws or has reported.
WaitingJobsAreOpen ==
    \A op \in ToSet(waiting) :
        /\ op \in job_print \ cancelled
        /\ state[op] = "deferred"
        /\ op \notin reports
        /\ ~ Working(op)

\* The CANCELLED signal of op is still to come, or its job is not cancelled.
Listens(op) == op \notin cancelled \/ op = cancelling

\* Between two pages there is no work and no report; a report says that the
\* page is drawn and that the job is finished.
ReportsAreOfOpenPages ==
    \A op \in Ops :
        /\ Listens(op) /\ state[op] # "deferred" => op \notin reports /\ ~ Working(op)
        /\ /\ op \notin cancelled \/ (op = cancelling /\ state[op] # "deferred")
           /\ running = op
           /\ pc \in {"finished", "added", "leave"}
           => op \in finished
        /\ op \notin cancelled /\ op \in reports => op \in drawn /\ ~ Working(op)
        /\ op \notin cancelled /\ running = op /\ pc \in {"drawn", "succeeded", "finished"}
           => op \in drawn

\* Until it is cancelled an operation has got its pages so far.
SheetsAreInStep ==
    \A op \in Ops :
        /\ state[op] # "ended" => result[op] = None
        /\ op \notin cancelled =>
              /\ state[op] = "new" => sheets[op] = Drawn(0) /\ at[op] = 0
              /\ state[op] = "ready" => sheets[op] = Drawn(at[op])
              /\ state[op] = "deferred" => at[op] >= 1 /\ sheets[op] = Drawn(at[op] - 1)
              /\ result[op] = "apply" => sheets[op] = Drawn(NPages)

IInv ==
    /\ TypeOK
    /\ WorkerIsInStep
    /\ JobsAreInStep
    /\ WaitingJobsAreOpen
    /\ ReportsAreOfOpenPages
    /\ SheetsAreInStep
    /\ IdlesAreOfOpenPages

\* IInv holds when nothing is printed yet.
LEMMA InitIInv == Init => IInv
<1> SUFFICES ASSUME Init PROVE IInv
  OBVIOUS
<1> USE ParametersAssumption DEF Init
<1>1. TypeOK
  <2>1. sheets \in [Ops -> Seq([page : 0 .. NPages, drawn : BOOLEAN])]
    OBVIOUS
  <2>2. waiting \in Seq(Ops) /\ IsInjective(waiting)
    BY DEF IsInjective
  <2>3. print_queue \in Seq(Ops) /\ IsInjective(print_queue)
    BY DEF IsInjective
  <2>4. /\ state \in [Ops -> {"new", "ready", "deferred", "ended"}]
        /\ at \in [Ops -> 0 .. NPages]
        /\ result \in [Ops -> {"apply", "cancel", None}]
    OBVIOUS
  <2>5. /\ gtk_cancelled \cup drawn \cup job_print \cup cancelled \subseteq Ops
        /\ finished \cup idle_ids \cup reports \cup finish_idles \cup unheard
              \subseteq job_print
        /\ {cancelling, running, running_job} \subseteq Ops \cup {None}
        /\ closing \in BOOLEAN /\ pc = "idle"
    OBVIOUS
  <2> HIDE DEF Init
  <2> QED BY <2>1, <2>2, <2>3, <2>4, <2>5 DEF TypeOK
<1>2. ToSet(waiting) = {} /\ ToSet(print_queue) = {}
  BY DEF ToSet
<1>3. WorkerIsInStep /\ JobsAreInStep
  BY <1>2 DEF WorkerIsInStep, JobsAreInStep
<1>4. WaitingJobsAreOpen /\ IdlesAreOfOpenPages
  BY <1>2 DEF WaitingJobsAreOpen, IdlesAreOfOpenPages
<1>5. ReportsAreOfOpenPages
  BY DEF ReportsAreOfOpenPages, Working
<1>6. Drawn(0) = <<>>
  BY DEF Drawn
<1>7. \A op \in Ops : /\ state[op] = "new" /\ at[op] = 0 /\ result[op] = None
                      /\ sheets[op] = Drawn(0)
  BY <1>6
<1>8. SheetsAreInStep
  BY <1>7 DEF SheetsAreInStep
<1> QED BY <1>1, <1>3, <1>4, <1>5, <1>8 DEF IInv

-----------------------------------------------------------------------------
(* The steps of the worker *)

\* The worker takes the head of the queue of the scheduler.
LEMMA TakeJobKeepsIInv == IInv /\ TakeJob => IInv'
<1> SUFFICES ASSUME IInv, TakeJob PROVE IInv'
  OBVIOUS
<1> USE ParametersAssumption DEF TakeJob, At, gtkVars, jobVars, flagVars
<1>1. TypeOK /\ waiting \in Seq(Ops) /\ IsInjective(waiting)
  BY DEF IInv, TypeOK
<1>2. /\ running' \in ToSet(waiting) /\ running' \in Ops
      /\ waiting' \in Seq(Ops) /\ IsInjective(waiting')
      /\ ToSet(waiting') = ToSet(waiting) \ {running'}
  BY <1>1, TailPops
<1>3. /\ running' \in job_print \ cancelled /\ state[running'] = "deferred"
      /\ running' \notin reports
  BY <1>2 DEF IInv, WaitingJobsAreOpen
<1>4. TypeOK'
  BY <1>1, <1>2 DEF TypeOK
<1>5. WorkerIsInStep'
  BY <1>2, <1>3 DEF IInv, WorkerIsInStep
<1>6. JobsAreInStep'
  BY DEF IInv, JobsAreInStep
<1>7. WaitingJobsAreOpen'
  BY <1>2 DEF IInv, WaitingJobsAreOpen, Working
<1>8. ReportsAreOfOpenPages'
  BY <1>3 DEF IInv, ReportsAreOfOpenPages, Listens, Working
<1>9. SheetsAreInStep' /\ IdlesAreOfOpenPages'
  BY DEF IInv, SheetsAreInStep, IdlesAreOfOpenPages
<1> QED BY <1>4, <1>5, <1>6, <1>7, <1>8, <1>9 DEF IInv

\* The other steps of the worker change neither the queues, nor what GTK and
\* the main thread keep.
LEMMA RunKeepsIInv ==
    ASSUME IInv,
           TestCancellable \/ SetRunningJob \/ ResetFlags \/ DrawPage \/ TestAgain
              \/ SetFinished \/ AddIdle \/ StoreIdleId \/ Leave
    PROVE  IInv'
<1> USE ParametersAssumption
        DEF TestCancellable, SetRunningJob, ResetFlags, DrawPage, TestAgain,
            SetFinished, AddIdle, StoreIdleId, Leave, At, gtkVars, jobVars, flagVars
<1>1. pc # "idle" /\ running \in job_print /\ running \in Ops
  BY DEF IInv, WorkerIsInStep, TypeOK
<1>2. TypeOK'
  BY <1>1 DEF IInv, TypeOK
<1>3. WorkerIsInStep'
  BY <1>1 DEF IInv, WorkerIsInStep, WaitingJobsAreOpen, ReportsAreOfOpenPages, Listens, Working
<1>4. JobsAreInStep'
  BY DEF IInv, JobsAreInStep
<1>5. WaitingJobsAreOpen'
  BY <1>1 DEF IInv, WaitingJobsAreOpen, Working
<1>6. ReportsAreOfOpenPages'
  BY <1>1 DEF IInv, ReportsAreOfOpenPages, WorkerIsInStep, Listens, Working
<1>7. SheetsAreInStep'
  BY DEF IInv, SheetsAreInStep
<1>8. IdlesAreOfOpenPages'
  BY <1>1 DEF IInv, IdlesAreOfOpenPages, WorkerIsInStep
<1> QED BY <1>2, <1>3, <1>4, <1>5, <1>6, <1>7, <1>8 DEF IInv

-----------------------------------------------------------------------------
(* The steps of GTK and the main thread *)

\* The pages so far and the one that is finished now are the pages so far.
LEMMA DrawnIsExtended ==
    ASSUME NEW n \in Nat, n >= 1
    PROVE  Append(Drawn(n - 1), [page |-> n, drawn |-> TRUE]) = Drawn(n)
<1> DEFINE r == [page |-> n, drawn |-> TRUE]
           T == [page : Nat, drawn : BOOLEAN]
<1>1. ASSUME NEW m \in Nat
      PROVE  Drawn(m) \in Seq(T) /\ Len(Drawn(m)) = m
  <2>1. Drawn(m) \in [1 .. m -> T]
    BY DEF Drawn
  <2> HIDE DEF T
  <2>2. Drawn(m) \in Seq(T) /\ DOMAIN Drawn(m) = 1 .. m
    BY <2>1, SeqDef
  <2> QED BY <2>2
<1>2. /\ Drawn(n - 1) \in Seq(T) /\ Len(Drawn(n - 1)) = n - 1
      /\ Drawn(n) \in Seq(T) /\ Len(Drawn(n)) = n
  <2>1. n - 1 \in Nat
    OBVIOUS
  <2> HIDE DEF T
  <2> QED BY <1>1, <2>1
<1>3. ASSUME NEW k \in 1 .. n
      PROVE  Append(Drawn(n - 1), r)[k] = Drawn(n)[k]
  <2>1. CASE k = n
    BY <1>2, <2>1 DEF Drawn
  <2>2. CASE k # n
    <3>1. k \in 1 .. n - 1
      BY <2>2
    <3>2. Append(Drawn(n - 1), r)[k] = Drawn(n - 1)[k]
      BY <1>2, <3>1
    <3> QED BY <3>1, <3>2 DEF Drawn
  <2> QED BY <2>1, <2>2
<1>4. Append(Drawn(n - 1), r) \in Seq(T) /\ Len(Append(Drawn(n - 1), r)) = n
  <2>1. r \in T
    OBVIOUS
  <2> HIDE DEF r, T
  <2> QED BY <1>2, <2>1
<1> HIDE DEF r, T
<1>5. Append(Drawn(n - 1), r) = Drawn(n)
  BY <1>2, <1>3, <1>4
<1> QED BY <1>5 DEF r

\* What finishing a page changes.
LEMMA FinishPageFinishes ==
    ASSUME TypeOK, NEW op \in Ops, FinishPage(op)
    PROVE  /\ state' \in [Ops -> {"new", "ready", "deferred", "ended"}]
           /\ sheets' \in [Ops -> Seq([page : 0 .. NPages, drawn : BOOLEAN])]
           /\ sheets'[op] = Append(sheets[op], [page |-> at[op], drawn |-> op \in drawn])
           /\ state'[op] = "ready"
           /\ \A o \in Ops \ {op} : state'[o] = state[o] /\ sheets'[o] = sheets[o]
           /\ drawn' = drawn \ {op}
<1> DEFINE r == [page |-> at[op], drawn |-> op \in drawn]
           T == [page : 0 .. NPages, drawn : BOOLEAN]
<1>1. r \in T
  BY DEF TypeOK
<1>2. sheets \in [Ops -> Seq(T)] /\ sheets' = [sheets EXCEPT ![op] = Append(@, r)]
  BY DEF TypeOK, FinishPage
<1> HIDE DEF r, T
<1>3. sheets' \in [Ops -> Seq(T)]
  BY <1>1, <1>2
<1>4. /\ sheets'[op] = Append(sheets[op], r)
      /\ \A o \in Ops \ {op} : sheets'[o] = sheets[o]
  BY <1>2
<1>5. /\ state' \in [Ops -> {"new", "ready", "deferred", "ended"}]
      /\ state'[op] = "ready"
      /\ \A o \in Ops \ {op} : state'[o] = state[o]
      /\ drawn' = drawn \ {op}
  BY DEF TypeOK, FinishPage
<1> QED BY <1>3, <1>4, <1>5 DEF r, T

\* A job reports, and its page is finished if somebody listens.
LEMMA JobFinishedKeepsIInv ==
    ASSUME IInv, NEW op \in Ops, JobFinished(op)
    PROVE  IInv'
<1> USE ParametersAssumption DEF jobVars, workerVars
<1>1. /\ op \in reports /\ reports' = reports \ {op} /\ idle_ids' = idle_ids \ {op}
      /\ cancelling = None
      /\ UNCHANGED <<at, gtk_cancelled, result, print_queue, jobVars, finished,
                     workerVars>>
  BY DEF JobFinished, InMainLoop
<1>2. \A o \in ToSet(waiting) : o \in Ops \ {op}
  BY <1>1 DEF IInv, WaitingJobsAreOpen, TypeOK, ToSet
<1>3. CASE op \in cancelled \/ state[op] = "ended"
  <2>1. UNCHANGED <<sheets, drawn, state>>
    BY <1>3 DEF JobFinished
  <2>2. TypeOK'
    BY <1>1, <2>1 DEF IInv, TypeOK
  <2>3. WorkerIsInStep' /\ JobsAreInStep' /\ SheetsAreInStep'
    BY <1>1, <2>1 DEF IInv, WorkerIsInStep, JobsAreInStep, SheetsAreInStep
  <2>4. WaitingJobsAreOpen' /\ ReportsAreOfOpenPages'
    BY <1>1, <2>1 DEF IInv, WaitingJobsAreOpen, ReportsAreOfOpenPages, Listens, Working
  <2>5. IdlesAreOfOpenPages'
    BY <1>1, <2>1 DEF IInv, IdlesAreOfOpenPages
  <2> QED BY <2>2, <2>3, <2>4, <2>5 DEF IInv
<1>4. CASE op \notin cancelled /\ state[op] # "ended"
  <2>1. FinishPage(op) /\ TypeOK
    BY <1>4 DEF JobFinished, IInv
  <2>2. state[op] = "deferred" /\ op \in drawn /\ ~ Working(op)
    BY <1>1, <1>4 DEF IInv, ReportsAreOfOpenPages, Listens
  <2>3. sheets[op] = Drawn(at[op] - 1) /\ at[op] >= 1 /\ at[op] \in Nat
    BY <1>4, <2>1, <2>2 DEF IInv, SheetsAreInStep, TypeOK
  <2>4. /\ state' \in [Ops -> {"new", "ready", "deferred", "ended"}]
        /\ sheets' \in [Ops -> Seq([page : 0 .. NPages, drawn : BOOLEAN])]
        /\ sheets'[op] = Append(sheets[op], [page |-> at[op], drawn |-> TRUE])
        /\ state'[op] = "ready"
        /\ \A o \in Ops \ {op} : state'[o] = state[o] /\ sheets'[o] = sheets[o]
        /\ drawn' = drawn \ {op}
    <3>1. (op \in drawn) = TRUE
      BY <2>2
    <3> QED BY <2>1, <3>1, FinishPageFinishes
  <2>5. sheets'[op] = Drawn(at[op])
    BY <2>3, <2>4, DrawnIsExtended
  <2>6. TypeOK'
    BY <1>1, <2>1, <2>4 DEF TypeOK
  <2>7. WorkerIsInStep'
    BY <1>1, <2>1, <2>2, <2>4 DEF IInv, WorkerIsInStep, Working, TypeOK
  <2>8. JobsAreInStep'
    BY <1>1, <2>1, <2>2, <2>4 DEF IInv, JobsAreInStep, TypeOK
  <2>9. WaitingJobsAreOpen'
    BY <1>1, <1>2, <2>4 DEF IInv, WaitingJobsAreOpen, Working
  <2>10. ReportsAreOfOpenPages'
    BY <1>1, <2>2, <2>4 DEF IInv, ReportsAreOfOpenPages, Listens, Working
  <2>11. SheetsAreInStep'
    BY <1>1, <2>2, <2>4, <2>5 DEF IInv, SheetsAreInStep
  <2>12. IdlesAreOfOpenPages'
    BY <1>1, <1>4, <2>1, <2>4 DEF IInv, IdlesAreOfOpenPages, JobsAreInStep, TypeOK
  <2> QED BY <2>6, <2>7, <2>8, <2>9, <2>10, <2>11, <2>12 DEF IInv
<1> QED BY <1>3, <1>4

\* A cancelled page is finished once the worker has left it.
LEMMA CancelledPageKeepsIInv ==
    ASSUME IInv, NEW op \in cancelled, FinishPage(op), state[op] # "ended",
           running_job # op, cancelling \in {None, op}, cancelling' = None,
           finish_idles' = finish_idles \ {op},
           UNCHANGED <<at, gtk_cancelled, result, print_queue, job_print, cancelled,
                       closing, unheard, finished, idle_ids, reports, workerVars>>
    PROVE  IInv'
<1> USE ParametersAssumption DEF workerVars
<1>1. TypeOK /\ op \in Ops /\ op \in job_print
  BY DEF IInv, TypeOK, JobsAreInStep
<1>2. /\ state' \in [Ops -> {"new", "ready", "deferred", "ended"}]
      /\ sheets' \in [Ops -> Seq([page : 0 .. NPages, drawn : BOOLEAN])]
      /\ state'[op] = "ready"
      /\ \A o \in Ops \ {op} : state'[o] = state[o] /\ sheets'[o] = sheets[o]
      /\ drawn' = drawn \ {op}
  BY <1>1, FinishPageFinishes
<1>3. state[op] \in {"ready", "deferred"}
  BY <1>1 DEF IInv, JobsAreInStep, TypeOK
<1>4. TypeOK'
  BY <1>1, <1>2 DEF TypeOK
<1>5. WorkerIsInStep'
  BY <1>1, <1>2 DEF IInv, WorkerIsInStep, TypeOK
<1>6. JobsAreInStep'
  BY <1>1, <1>2, <1>3 DEF IInv, JobsAreInStep, TypeOK
<1>7. WaitingJobsAreOpen'
  <2>1. \A o \in ToSet(waiting) : o \in Ops \ {op}
    BY <1>1 DEF IInv, WaitingJobsAreOpen, TypeOK, ToSet
  <2> QED BY <1>2, <2>1 DEF IInv, WaitingJobsAreOpen, Working
<1>8. ReportsAreOfOpenPages'
  BY <1>2 DEF IInv, ReportsAreOfOpenPages, Listens, Working
<1>9. SheetsAreInStep'
  BY <1>2, <1>3 DEF IInv, SheetsAreInStep
<1>10. IdlesAreOfOpenPages'
  BY <1>1, <1>2 DEF IInv, IdlesAreOfOpenPages, TypeOK
<1> QED BY <1>4, <1>5, <1>6, <1>7, <1>8, <1>9, <1>10 DEF IInv

\* draw_page_finish_idle ends a page that the worker has left.
LEMMA DrawPageFinishIdleKeepsIInv ==
    ASSUME IInv, NEW op \in Ops, DrawPageFinishIdle(op)
    PROVE  IInv'
<1>1. op \in cancelled
  BY DEF IInv, JobsAreInStep, DrawPageFinishIdle
<1> QED BY <1>1, CancelledPageKeepsIInv DEF DrawPageFinishIdle, InMainLoop

\* The CANCELLED signal ends the page, leaves it to an idle, or is not emitted.
LEMMA EmitCancelledKeepsIInv ==
    ASSUME IInv, EmitCancelled
    PROVE  IInv'
<1> USE ParametersAssumption DEF workerVars
<1> DEFINE op == cancelling
<1>1. /\ op \in Ops /\ op # None /\ op \in cancelled \ finish_idles /\ op \in job_print
      /\ state[op] \in {"ready", "deferred"}
  BY DEF IInv, TypeOK, JobsAreInStep, EmitCancelled
<1>2. /\ cancelling' = None
      /\ UNCHANGED <<at, gtk_cancelled, result, print_queue, job_print, cancelled,
                     closing, finished, idle_ids, reports, workerVars>>
  BY DEF EmitCancelled
<1>3. ASSUME UNCHANGED <<sheets, drawn, state>>,
             unheard' \subseteq job_print,
             finish_idles' \subseteq finish_idles \cup {op},
             op \in finish_idles' => state[op] = "deferred" \/ op \in idle_ids \ reports
      PROVE  IInv'
  <2>1. TypeOK'
    BY <1>1, <1>2, <1>3 DEF IInv, TypeOK
  <2>2. WorkerIsInStep' /\ JobsAreInStep' /\ SheetsAreInStep'
    BY <1>1, <1>2, <1>3 DEF IInv, WorkerIsInStep, JobsAreInStep, SheetsAreInStep
  <2>3. WaitingJobsAreOpen' /\ ReportsAreOfOpenPages'
    BY <1>1, <1>2, <1>3
       DEF IInv, WaitingJobsAreOpen, ReportsAreOfOpenPages, Listens, Working
  <2>4. IdlesAreOfOpenPages'
    BY <1>1, <1>2, <1>3 DEF IInv, IdlesAreOfOpenPages
  <2> QED BY <2>1, <2>2, <2>3, <2>4 DEF IInv
<1>4. CASE op \in finished \ idle_ids
  <2>1. UNCHANGED <<sheets, drawn, state, finish_idles>> /\ unheard' \subseteq job_print
    BY <1>1, <1>4 DEF EmitCancelled, IInv, TypeOK
  <2> QED BY <1>1, <1>3, <2>1
<1>5. CASE op \notin finished \ idle_ids /\ running_job = op
  <2>1. /\ UNCHANGED <<sheets, drawn, state, unheard>>
        /\ finish_idles' = finish_idles \cup {op}
    BY <1>5 DEF EmitCancelled
  <2>2. ASSUME state[op] # "deferred"
        PROVE  op \in idle_ids \ reports
    <3>1. op \notin reports /\ ~ Working(op)
      BY <1>1, <2>2 DEF IInv, ReportsAreOfOpenPages, Listens
    <3>2. running = op /\ pc \in {"added", "leave"}
      BY <1>1, <1>5, <3>1 DEF IInv, WorkerIsInStep, TypeOK, Working
    <3>3. op \in finished
      BY <1>1, <2>2, <3>2 DEF IInv, ReportsAreOfOpenPages
    <3> QED BY <1>5, <3>1, <3>3
  <2>3. unheard' \subseteq job_print
    BY <2>1 DEF IInv, TypeOK
  <2> QED BY <1>3, <2>1, <2>2, <2>3
<1>6. CASE op \notin finished \ idle_ids /\ running_job # op
  <2>1. FinishPage(op) /\ UNCHANGED <<finish_idles, unheard>>
    BY <1>6 DEF EmitCancelled
  <2>2. finish_idles' = finish_idles \ {op}
    BY <1>1, <2>1
  <2> QED BY <1>1, <1>2, <1>6, <2>1, <2>2, CancelledPageKeepsIInv
<1> QED BY <1>4, <1>5, <1>6

\* The cancel button, and each pass of the loop that closes the window.
LEMMA CancelOldestKeepsIInv ==
    ASSUME IInv, CancelOldest,
           UNCHANGED <<state, at, sheets, result, print_queue, flagVars, job_print,
                       finish_idles, closing, unheard, running, running_job, pc>>
    PROVE  IInv'
<1> USE ParametersAssumption DEF flagVars
<1> DEFINE op == Last(print_queue)
<1>1. /\ op \in Ops /\ op # None /\ state[op] \in {"ready", "deferred"}
      /\ cancelling = None
  BY LastIsMember DEF IInv, TypeOK, JobsAreInStep, CancelOldest
<1>2. ASSUME UNCHANGED <<cancelled, cancelling, waiting>>,
             gtk_cancelled' \subseteq gtk_cancelled \cup {op}
      PROVE  IInv'
  <2> HIDE DEF op
  <2>1. TypeOK'
    BY <1>1, <1>2 DEF IInv, TypeOK
  <2>2. WorkerIsInStep' /\ JobsAreInStep' /\ SheetsAreInStep'
    BY <1>2 DEF IInv, WorkerIsInStep, JobsAreInStep, SheetsAreInStep
  <2>3. WaitingJobsAreOpen' /\ ReportsAreOfOpenPages' /\ IdlesAreOfOpenPages'
    BY <1>2 DEF IInv, WaitingJobsAreOpen, ReportsAreOfOpenPages, Listens, Working,
                IdlesAreOfOpenPages
  <2> QED BY <2>1, <2>2, <2>3 DEF IInv
<1>3. CASE op \notin job_print
  BY <1>2, <1>3 DEF CancelOldest
<1>4. CASE op \in job_print
  <2>1. /\ cancelled' = cancelled \cup {op}
        /\ cancelling' = IF op \in cancelled THEN None ELSE op
        /\ waiting' = Without(waiting, op)
        /\ UNCHANGED gtk_cancelled
    BY <1>4 DEF CancelOldest
  <2>2. /\ waiting' \in Seq(Ops) /\ IsInjective(waiting')
        /\ ToSet(waiting') = ToSet(waiting) \ {op}
    BY <2>1, WithoutRemoves DEF IInv, TypeOK
  <2> HIDE DEF op
  <2>3. TypeOK'
    BY <1>1, <2>1, <2>2 DEF IInv, TypeOK
  <2>4. WorkerIsInStep' /\ SheetsAreInStep' /\ IdlesAreOfOpenPages'
    BY <2>1 DEF IInv, WorkerIsInStep, SheetsAreInStep, IdlesAreOfOpenPages
  <2>5. JobsAreInStep'
    BY <1>1, <1>4, <2>1 DEF IInv, JobsAreInStep
  <2>6. WaitingJobsAreOpen'
    BY <2>1, <2>2 DEF IInv, WaitingJobsAreOpen, Working
  <2>7. ReportsAreOfOpenPages'
    BY <1>1, <2>1 DEF IInv, ReportsAreOfOpenPages, Listens, Working
  <2> QED BY <2>3, <2>4, <2>5, <2>6, <2>7 DEF IInv
<1> QED BY <1>3, <1>4

\* Closing the window changes nothing but where the main thread is.
LEMMA CloseKeepsIInv == IInv /\ Close => IInv'
<1> SUFFICES ASSUME IInv, Close PROVE IInv'
  OBVIOUS
<1> USE DEF Close, gtkVars, flagVars, workerVars
<1>1. TypeOK'
  BY DEF IInv, TypeOK
<1>2. WorkerIsInStep' /\ JobsAreInStep' /\ SheetsAreInStep'
  BY DEF IInv, WorkerIsInStep, JobsAreInStep, SheetsAreInStep
<1>3. WaitingJobsAreOpen' /\ ReportsAreOfOpenPages' /\ IdlesAreOfOpenPages'
  BY DEF IInv, WaitingJobsAreOpen, ReportsAreOfOpenPages, Listens, Working,
         IdlesAreOfOpenPages
<1> QED BY <1>1, <1>2, <1>3 DEF IInv

\* An operation begins, and enters the queue of its window.
LEMMA BeginPrintKeepsIInv ==
    ASSUME IInv, NEW op \in Ops, BeginPrint(op)
    PROVE  IInv'
<1> USE ParametersAssumption DEF jobVars, flagVars, workerVars
<1>1. /\ state[op] = "new" /\ op \notin ToSet(print_queue) /\ op \notin job_print
      /\ TypeOK
  BY DEF IInv, JobsAreInStep, BeginPrint
<1>2. /\ state' = [state EXCEPT ![op] = "ready"]
      /\ print_queue' = <<op>> \o print_queue
      /\ UNCHANGED <<at, gtk_cancelled, sheets, result, jobVars, flagVars, workerVars>>
  BY DEF BeginPrint
<1>3. /\ print_queue' \in Seq(Ops) /\ IsInjective(print_queue')
      /\ ToSet(print_queue') = ToSet(print_queue) \cup {op}
  BY <1>1, <1>2, PrependAdds DEF TypeOK
<1>4. /\ state' \in [Ops -> {"new", "ready", "deferred", "ended"}]
      /\ state'[op] = "ready" /\ \A o \in Ops \ {op} : state'[o] = state[o]
  BY <1>1, <1>2 DEF TypeOK
<1>5. op \notin cancelled /\ op \notin ToSet(waiting) /\ running # op
  BY <1>1 DEF IInv, JobsAreInStep, WaitingJobsAreOpen, WorkerIsInStep
<1>6. op \notin reports /\ op \notin finish_idles
  BY <1>1 DEF TypeOK
<1>7. TypeOK'
  BY <1>1, <1>2, <1>3, <1>4 DEF TypeOK
<1>8. WorkerIsInStep'
  BY <1>1, <1>2, <1>4, <1>5 DEF IInv, WorkerIsInStep, TypeOK
<1>9. JobsAreInStep'
  BY <1>1, <1>2, <1>3, <1>4, <1>5 DEF IInv, JobsAreInStep, TypeOK
<1>10. WaitingJobsAreOpen'
  <2>1. \A o \in ToSet(waiting) : o \in Ops \ {op}
    BY <1>1, <1>5 DEF TypeOK, ToSet
  <2> QED BY <1>2, <1>4, <2>1 DEF IInv, WaitingJobsAreOpen, Working
<1>11. ReportsAreOfOpenPages'
  BY <1>2, <1>4, <1>5, <1>6 DEF IInv, ReportsAreOfOpenPages, Listens, Working
<1>12. SheetsAreInStep'
  BY <1>1, <1>2, <1>4 DEF IInv, SheetsAreInStep
<1>13. IdlesAreOfOpenPages'
  BY <1>1, <1>2, <1>4, <1>6 DEF IInv, IdlesAreOfOpenPages, TypeOK
<1> QED BY <1>7, <1>8, <1>9, <1>10, <1>11, <1>12, <1>13 DEF IInv

\* An operation ends between two pages: it says that it has printed only when
\* it was cancelled, or has printed everything.
LEMMA EndKeepsIInv ==
    ASSUME IInv, NEW op \in Ops, state[op] = "ready", cancelling = None,
           NEW how \in {"apply", "cancel"}, End(op, how),
           how = "apply" => at[op] = NPages,
           at' \in [Ops -> 0 .. NPages],
           \A o \in Ops \ {op} : at'[o] = at[o],
           gtk_cancelled' \subseteq gtk_cancelled \cup {op},
           UNCHANGED <<sheets, flagVars, jobVars, workerVars>>
    PROVE  IInv'
<1> USE ParametersAssumption DEF jobVars, flagVars, workerVars
<1>1. TypeOK
  BY DEF IInv
<1>2. /\ state' \in [Ops -> {"new", "ready", "deferred", "ended"}]
      /\ state'[op] = "ended" /\ \A o \in Ops \ {op} : state'[o] = state[o]
      /\ result' \in [Ops -> {"apply", "cancel", None}]
      /\ result'[op] = how /\ \A o \in Ops \ {op} : result'[o] = result[o]
  BY <1>1 DEF End, TypeOK
<1>3. /\ print_queue' \in Seq(Ops) /\ IsInjective(print_queue')
      /\ ToSet(print_queue') = ToSet(print_queue) \ {op}
  BY <1>1, WithoutRemoves DEF End, TypeOK
<1>4. TypeOK'
  BY <1>1, <1>2, <1>3 DEF TypeOK
<1>5. WorkerIsInStep'
  BY <1>1, <1>2 DEF IInv, WorkerIsInStep, TypeOK
<1>6. JobsAreInStep'
  BY <1>1, <1>2, <1>3 DEF IInv, JobsAreInStep, TypeOK
<1>7. WaitingJobsAreOpen'
  <2>1. \A o \in ToSet(waiting) : o \in Ops \ {op}
    BY <1>1 DEF IInv, WaitingJobsAreOpen, TypeOK, ToSet
  <2> QED BY <1>2, <2>1 DEF IInv, WaitingJobsAreOpen, Working
<1>8. ReportsAreOfOpenPages'
  BY <1>2 DEF IInv, ReportsAreOfOpenPages, Listens, Working
<1>9. SheetsAreInStep'
  BY <1>2 DEF IInv, SheetsAreInStep
<1>10. IdlesAreOfOpenPages'
  BY <1>1, <1>2 DEF IInv, IdlesAreOfOpenPages, TypeOK
<1> QED BY <1>4, <1>5, <1>6, <1>7, <1>8, <1>9, <1>10 DEF IInv

\* GTK ends the operation, or asks for its next page.
LEMMA NextPageKeepsIInv ==
    ASSUME IInv, NEW op \in Ops, NextPage(op)
    PROVE  IInv'
<1> USE ParametersAssumption
<1>1. /\ TypeOK /\ state[op] = "ready" /\ cancelling = None /\ at[op] \in 0 .. NPages
      /\ UNCHANGED <<sheets, flagVars, cancelled, cancelling, finish_idles,
                     closing, unheard, running, running_job, pc>>
  BY DEF IInv, TypeOK, NextPage, InMainLoop
<1>2. CASE /\ op \in gtk_cancelled \/ at[op] = NPages
           /\ End(op, IF op \in gtk_cancelled THEN "cancel" ELSE "apply")
           /\ UNCHANGED <<at, gtk_cancelled, job_print, waiting>>
  <2>1. PICK how \in {"apply", "cancel"} :
          how = IF op \in gtk_cancelled THEN "cancel" ELSE "apply"
    OBVIOUS
  <2>2. End(op, how) /\ (how = "apply" => at[op] = NPages)
    BY <1>2, <2>1
  <2>3. /\ at' \in [Ops -> 0 .. NPages] /\ \A o \in Ops \ {op} : at'[o] = at[o]
        /\ gtk_cancelled' \subseteq gtk_cancelled \cup {op}
        /\ UNCHANGED <<sheets, flagVars, jobVars, workerVars>>
    BY <1>1, <1>2 DEF TypeOK, jobVars, workerVars
  <2> QED BY <1>1, <2>2, <2>3, EndKeepsIInv
<1>3. CASE /\ op \notin gtk_cancelled
           /\ at[op] < NPages
           /\ at' = [at EXCEPT ![op] = @ + 1]
           /\ job_print' = job_print \cup {op}
           /\ op \in job_print /\ op \in cancelled
           /\ gtk_cancelled' = gtk_cancelled \cup {op}
           /\ End(op, "cancel")
           /\ UNCHANGED waiting
  <2>1. job_print' = job_print
    BY <1>3
  <2>2. at' \in [Ops -> 0 .. NPages] /\ \A o \in Ops \ {op} : at'[o] = at[o]
    BY <1>1, <1>3 DEF TypeOK
  <2>3. UNCHANGED <<sheets, flagVars, jobVars, workerVars>>
    BY <1>1, <1>3, <2>1 DEF jobVars, workerVars
  <2>4. PICK how \in {"apply", "cancel"} : how = "cancel"
    OBVIOUS
  <2>5. End(op, how) /\ how # "apply"
    BY <1>3, <2>4
  <2> QED BY <1>1, <1>3, <2>2, <2>3, <2>5, EndKeepsIInv
<1>4. CASE /\ op \notin gtk_cancelled
           /\ at[op] < NPages
           /\ at' = [at EXCEPT ![op] = @ + 1]
           /\ job_print' = job_print \cup {op}
           /\ ~ (op \in job_print /\ op \in cancelled)
           /\ state' = [state EXCEPT ![op] = "deferred"]
           /\ waiting' = Append(waiting, op)
           /\ UNCHANGED <<gtk_cancelled, result, print_queue>>
  <2> USE DEF flagVars
  <2>1. op \notin cancelled /\ op \notin ToSet(waiting)
    BY <1>1, <1>4 DEF IInv, JobsAreInStep, WaitingJobsAreOpen
  <2>2. op \notin reports /\ ~ Working(op)
    BY <1>1, <2>1 DEF IInv, ReportsAreOfOpenPages, Listens
  <2>3. /\ waiting' \in Seq(Ops) /\ IsInjective(waiting')
        /\ ToSet(waiting') = ToSet(waiting) \cup {op}
    BY <1>1, <1>4, <2>1, AppendAdds DEF TypeOK
  <2>4. /\ state' \in [Ops -> {"new", "ready", "deferred", "ended"}]
        /\ state'[op] = "deferred" /\ \A o \in Ops \ {op} : state'[o] = state[o]
        /\ at' \in [Ops -> 0 .. NPages] /\ at'[op] = at[op] + 1
        /\ \A o \in Ops \ {op} : at'[o] = at[o]
    BY <1>1, <1>4 DEF TypeOK
  <2>5. TypeOK'
    BY <1>1, <1>4, <2>3, <2>4 DEF TypeOK
  <2>6. WorkerIsInStep'
    BY <1>1, <1>4, <2>4 DEF IInv, WorkerIsInStep, TypeOK
  <2>7. JobsAreInStep'
    BY <1>1, <1>4, <2>4 DEF IInv, JobsAreInStep, TypeOK
  <2>8. WaitingJobsAreOpen'
    <3>1. \A o \in ToSet(waiting) : o \in Ops \ {op}
      BY <1>1, <2>1 DEF TypeOK, ToSet
    <3>2. ASSUME NEW o \in ToSet(waiting')
          PROVE  /\ o \in job_print' \ cancelled' /\ state'[o] = "deferred"
                 /\ o \notin reports' /\ ~ Working(o)'
      <4>1. CASE o = op
        BY <1>1, <1>4, <2>1, <2>2, <2>4, <4>1 DEF Working
      <4>2. CASE o # op
        BY <1>1, <1>4, <2>3, <2>4, <3>1, <4>2 DEF IInv, WaitingJobsAreOpen, Working
      <4> QED BY <4>1, <4>2
    <3> QED BY <3>2 DEF WaitingJobsAreOpen, Working
  <2>9. ReportsAreOfOpenPages'
    BY <1>1, <2>2, <2>4 DEF IInv, ReportsAreOfOpenPages, Listens, Working
  <2>10. SheetsAreInStep'
    BY <1>1, <1>4, <2>4 DEF IInv, SheetsAreInStep
  <2>11. IdlesAreOfOpenPages'
    BY <1>1, <2>4 DEF IInv, IdlesAreOfOpenPages, TypeOK
  <2> QED BY <2>5, <2>6, <2>7, <2>8, <2>9, <2>10, <2>11 DEF IInv
<1> QED BY <1>2, <1>3, <1>4 DEF NextPage

-----------------------------------------------------------------------------
(* Theorems *)

\* Every step preserves IInv.
LEMMA NextKeepsIInv == IInv /\ [Next]_vars => IInv'
<1> SUFFICES ASSUME IInv, [Next]_vars PROVE IInv'
  OBVIOUS
<1>1. ASSUME NEW op \in Ops, BeginPrint(op) PROVE IInv'
  BY <1>1, BeginPrintKeepsIInv
<1>2. ASSUME NEW op \in Ops, NextPage(op) PROVE IInv'
  BY <1>2, NextPageKeepsIInv
<1>3. ASSUME NEW op \in Ops, JobFinished(op) PROVE IInv'
  BY <1>3, JobFinishedKeepsIInv
<1>4. ASSUME NEW op \in Ops, DrawPageFinishIdle(op) PROVE IInv'
  BY <1>4, DrawPageFinishIdleKeepsIInv
<1>5. CASE Cancel
  BY <1>5, CancelOldestKeepsIInv DEF Cancel
<1>6. CASE PrintCancel
  BY <1>6, CancelOldestKeepsIInv DEF PrintCancel
<1>7. CASE Close
  BY <1>7, CloseKeepsIInv
<1>8. CASE EmitCancelled
  BY <1>8, EmitCancelledKeepsIInv
<1>9. CASE Worker
  BY <1>9, TakeJobKeepsIInv, RunKeepsIInv DEF Worker
<1>10. CASE UNCHANGED vars
  <2> USE <1>10 DEF vars, gtkVars, jobVars, flagVars, workerVars
  <2>1. TypeOK' /\ WorkerIsInStep' /\ JobsAreInStep' /\ SheetsAreInStep'
    BY DEF IInv, TypeOK, WorkerIsInStep, JobsAreInStep, SheetsAreInStep
  <2>2. WaitingJobsAreOpen' /\ ReportsAreOfOpenPages' /\ IdlesAreOfOpenPages'
    BY DEF IInv, WaitingJobsAreOpen, ReportsAreOfOpenPages, Listens, Working,
           IdlesAreOfOpenPages
  <2> QED BY <2>1, <2>2 DEF IInv
<1> QED BY <1>1, <1>2, <1>3, <1>4, <1>5, <1>6, <1>7, <1>8, <1>9, <1>10
        DEF Next, User, MainLoop

LEMMA AlwaysIInv == Spec => []IInv
<1>1. Init => IInv
  BY InitIInv
<1>2. IInv /\ [Next]_vars => IInv'
  BY NextKeepsIInv
<1> QED BY <1>1, <1>2, PTL DEF Spec

\* The state stays well formed, and no idle that ends a cancelled page finds it
\* closed, or its operation freed, except after the late store of an id: for
\* every number of operations and pages.
THEOREM PagesAreAlwaysInHand == Spec => []PagesAreInHand
<1>1. IInv => PagesAreInHand
  BY DEF IInv, PagesAreInHand
<1> QED BY <1>1, AlwaysIInv, PTL

\* Whatever the worker and the main thread interleave, an operation that nobody
\* has cancelled sends every page once, in order and drawn.
THEOREM PrintedPagesAreAlwaysThePages == Spec => []PrintedPagesAreThePages
<1>1. IInv => PrintedPagesAreThePages
  BY DEF IInv, SheetsAreInStep, PrintedPagesAreThePages, Drawn
<1> QED BY <1>1, AlwaysIInv, PTL

\* gtk_print_operation_draw_page_finish is never called for a page on whose
\* context the worker draws.
THEOREM NothingIsEverFinishedWhileDrawn == Spec => NothingIsFinishedWhileDrawn
<1> DEFINE Step == \A op \in Ops :
                     sheets'[op] # sheets[op] => ~ (running = op /\ pc \in {"run", "draw"})
<1>1. ASSUME IInv, Next
      PROVE  Step
  <2> SUFFICES ASSUME NEW o \in Ops, sheets'[o] # sheets[o],
                      running = o, pc \in {"run", "draw"}
               PROVE  FALSE
    OBVIOUS
  <2>1. running_job = o /\ Working(o) /\ TypeOK
    BY <1>1 DEF IInv, WorkerIsInStep, Working
  <2>2. \A op \in Ops : FinishPage(op) => o = op
    BY <2>1, FinishPageFinishes
  <2>3. ASSUME NEW op \in Ops, JobFinished(op)
        PROVE  FALSE
    <3>1. FinishPage(op) /\ op \notin cancelled /\ op \in reports /\ op = o
      BY <2>2, <2>3 DEF JobFinished
    <3> QED BY <1>1, <2>1, <3>1 DEF IInv, ReportsAreOfOpenPages
  <2>4. ASSUME NEW op \in Ops, DrawPageFinishIdle(op)
        PROVE  FALSE
    BY <2>1, <2>2, <2>4 DEF DrawPageFinishIdle
  <2>5. CASE EmitCancelled
    <3>1. cancelling \in Ops
      BY <2>1, <2>5 DEF EmitCancelled, TypeOK
    <3> QED BY <2>1, <2>2, <2>5, <3>1 DEF EmitCancelled
  <2>6. ASSUME NEW op \in Ops, BeginPrint(op) \/ NextPage(op)
        PROVE  FALSE
    BY <2>6 DEF BeginPrint, NextPage
  <2>7. CASE Cancel \/ PrintCancel \/ Close
    BY <2>7 DEF Cancel, PrintCancel, Close, gtkVars
  <2>8. CASE Worker
    BY <2>8 DEF Worker, TakeJob, TestCancellable, SetRunningJob, ResetFlags, DrawPage,
                TestAgain, SetFinished, AddIdle, StoreIdleId, Leave, gtkVars
  <2> QED BY <1>1, <2>3, <2>4, <2>5, <2>6, <2>7, <2>8 DEF Next, User, MainLoop
<1>2. IInv /\ [Next]_vars => [Step]_vars
  BY <1>1
<1>3. Init /\ [][Next]_vars => []IInv
  BY AlwaysIInv DEF Spec
<1> QED BY <1>2, <1>3, PTL DEF Spec, NothingIsFinishedWhileDrawn

-----------------------------------------------------------------------------
(* PrintExport: the inductive invariant *)

\* The state is well formed.  The places and pages of the operations are not
\* part of it: they come out of the loops of export_print_page.
ExportTypes ==
    /\ settings \in Plans
    /\ accepted \subseteq Exports
    /\ temp_file \cup idle \cup sent \cup job_export \subseteq accepted
    /\ done \cup stopped \cup due \subseteq accepted
    /\ answers \in [Exports -> Seq(PE!Results)]
    /\ export_queue \in Seq(accepted) /\ IsInjective(export_queue)
    /\ window_queue \in [Windows -> Seq(accepted)]
    /\ queued \in Seq(accepted) /\ IsInjective(queued)
    /\ taken \in accepted \cup {Null}
    /\ exported \in BOOLEAN
    /\ file \in accepted \cup {Null}
    /\ mispopped \in BOOLEAN

\* What is in the files are sequences of pages, each written by an operation.
FilesAreWritten ==
    /\ DOMAIN written = Exports
    /\ \A op \in Exports : \E S : written[op] \in Seq(S)
    /\ \A op \in Exports : \A i \in DOMAIN written[op] : written[op][i].by \in accepted

\* The job of op is queued, drawn or about to report.
InFlight(op) == op \in ToSet(queued) \/ taken = op \/ op \in due

NotBegun(op) == op \notin idle \cup sent \cup job_export /\ ~ InFlight(op)

AnsweredCancel(op) == "cancel" \in ToSet(answers[op])

\* An operation is due to go on, has a job in flight, or is with the printer,
\* and its job is in one place.
OneStageAtATime ==
    /\ idle \cap sent = {}
    /\ \A op \in Exports : InFlight(op) => op \notin idle \cup sent
    /\ taken \notin ToSet(queued) \cup due
    /\ ToSet(queued) \cap due = {}

\* Only the oldest operation of the document's queue may have begun.
YoungerHaveNotBegun ==
    \A op \in ToSet(export_queue) : op # Last(export_queue) =>
        NotBegun(op) /\ (op \in temp_file => answers[op] = <<>>)

\* What a progress bar can cancel has not ended.
WindowsListTheUnanswered ==
    \A w \in Windows : \A op \in ToSet(window_queue[w]) :
        WindowOf[op] = w /\ answers[op] = <<>>

\* What an operation has answered, by what it still does.
AnswersAreInStep ==
    \A op \in Exports :
        /\ op \notin accepted => answers[op] = <<>>
        /\ op \in idle => answers[op] = <<>>
        /\ op \in sent => answers[op] \in {<<>>, <<"cancel">>}
        /\ InFlight(op) => answers[op] = <<>> \/ AnsweredCancel(op)
        /\ InFlight(op) /\ op \in job_export => answers[op] = <<>>

\* As long as the right operations leave it, the queue holds those that have
\* not ended, and the exporter writes the file of the oldest.
QueueIsInStep ==
    /\ ToSet(export_queue) = {op \in accepted : answers[op] = <<>>}
    /\ ToSet(export_queue) \subseteq temp_file
    /\ export_queue # <<>> =>
         file = IF Last(export_queue) \in sent THEN Null ELSE Last(export_queue)

\* Who has written into another's file is cancelled and writes no more.
StrayedHaveStopped ==
    \A op \in Exports : \A i \in DOMAIN written[op] :
        LET other == written[op][i].by
        IN  other # op =>
              /\ AnsweredCancel(other)
              /\ other \notin ToSet(queued)
              /\ ~ (taken = other /\ ~ exported)

\* It has written one page there.
StraysAreSingle ==
    \A op, later \in Exports :
      \A i \in DOMAIN written[op], j \in DOMAIN written[later] :
        LET other == written[op][i].by
        IN  other \notin {op, later} /\ written[later][j].by = other =>
              op = later /\ i = j

\* The inductive invariant.
ExportInv ==
    /\ ExportTypes
    /\ FilesAreWritten
    /\ OneStageAtATime
    /\ YoungerHaveNotBegun
    /\ WindowsListTheUnanswered
    /\ AnswersAreInStep
    /\ ~ mispopped => QueueIsInStep
    /\ ~ mispopped => StrayedHaveStopped /\ StraysAreSingle

\* The operators of PrintExport's libraries are those of the lemmas.
LEMMA ExportOperators ==
    /\ \A q : PE!IsInjective(q) = IsInjective(q)
    /\ \A q : PE!Last(q) = Last(q) /\ PE!Front(q) = Front(q)
    /\ \A q, gone : PE!Removing(q, gone) = Removing(q, gone)
    /\ \A q : PE!Range(q) = ToSet(q)
BY DEF PE!IsInjective, IsInjective, PE!Last, Last, PE!Front, Front,
       PE!Removing, Removing, PE!Range, ToSet

\* What the parameters are.
LEMMA ExportParameters ==
    WindowOf \in [Exports -> Windows] /\ Null \notin Exports
BY ExportsAssumption DEF PE!ParametersAssumption

\* The members of the queues are accepted operations.
LEMMA ExportQueuesAreOfAccepted ==
    ASSUME ExportTypes
    PROVE  /\ ToSet(export_queue) \subseteq accepted
           /\ ToSet(queued) \subseteq accepted
           /\ \A w \in Windows : ToSet(window_queue[w]) \subseteq accepted
           /\ accepted \subseteq Exports /\ Null \notin accepted
           /\ export_queue # <<>> => Last(export_queue) \in ToSet(export_queue)
<1>1. \A q \in Seq(accepted) : ToSet(q) \subseteq accepted
  BY DEF ToSet
<1>2. \A w \in Windows : window_queue[w] \in Seq(accepted)
  BY DEF ExportTypes
<1> QED BY <1>1, <1>2, LastIsMember, ExportParameters DEF ExportTypes

\* ExportInv holds when nothing is printed yet.
LEMMA InitExportInv == PE!Init => ExportInv
<1> SUFFICES ASSUME PE!Init PROVE ExportInv
  OBVIOUS
<1> USE DEF PE!Init
<1>1. \A S : <<>> \in Seq(S) /\ IsInjective(<<>>) /\ ToSet(<<>>) = {} /\ DOMAIN <<>> = {}
  BY DEF IsInjective, ToSet
<1>2. ExportTypes
  BY <1>1 DEF ExportTypes
<1>3. \A op \in Exports : answers[op] = <<>> /\ written[op] = <<>>
  OBVIOUS
<1>4. FilesAreWritten
  BY <1>1, <1>3 DEF FilesAreWritten
<1>5. \A op \in Exports : ~ InFlight(op)
  BY <1>1, ExportParameters DEF InFlight
<1>6. OneStageAtATime
  BY <1>1, <1>5 DEF OneStageAtATime
<1>7. YoungerHaveNotBegun /\ WindowsListTheUnanswered
  BY <1>1 DEF YoungerHaveNotBegun, WindowsListTheUnanswered
<1>8. AnswersAreInStep
  BY <1>3, <1>5 DEF AnswersAreInStep
<1>9. QueueIsInStep
  BY <1>1 DEF QueueIsInStep
<1>10. StrayedHaveStopped /\ StraysAreSingle
  BY <1>1, <1>3 DEF StrayedHaveStopped, StraysAreSingle
<1> QED BY <1>2, <1>4, <1>6, <1>7, <1>8, <1>9, <1>10 DEF ExportInv

-----------------------------------------------------------------------------
(* PrintExport: the steps of the worker *)

\* The worker takes the head of the queue of the scheduler.
LEMMA ExportTakeJobKeeps == ExportInv /\ PE!TakeJob => ExportInv'
<1> SUFFICES ASSUME ExportInv, PE!TakeJob PROVE ExportInv'
  OBVIOUS
<1>1. /\ taken = Null /\ queued # <<>>
      /\ taken' = Head(queued) /\ queued' = Tail(queued) /\ exported' = FALSE
      /\ UNCHANGED <<settings, accepted, temp_file, idle, sent, answers, export_queue,
                     window_queue, mispopped, job_export, done, stopped, due, file,
                     written>>
  BY DEF PE!TakeJob, PE!opVars, PE!queueVars, PE!jobVars, PE!exporterVars
<1>2. /\ ExportTypes /\ queued \in Seq(accepted) /\ IsInjective(queued)
      /\ ToSet(queued) \subseteq accepted /\ Null \notin accepted
      /\ accepted \subseteq Exports
  BY ExportQueuesAreOfAccepted DEF ExportInv, ExportTypes
<1>3. /\ taken' \in ToSet(queued) /\ taken' \in accepted
      /\ queued' \in Seq(accepted) /\ IsInjective(queued')
      /\ ToSet(queued') = ToSet(queued) \ {taken'}
  BY <1>1, <1>2, TailPops
<1>4. \A op \in accepted : InFlight(op)' <=> InFlight(op)
  BY <1>1, <1>2, <1>3 DEF InFlight
<1>5. ExportTypes'
  BY <1>1, <1>2, <1>3 DEF ExportTypes
<1>6. \A op \in Exports \ accepted : ~ InFlight(op) /\ ~ InFlight(op)'
  BY <1>1, <1>2, <1>3, ExportParameters DEF InFlight, ExportTypes
<1>7. FilesAreWritten'
  BY <1>1 DEF ExportInv, FilesAreWritten
<1>8. OneStageAtATime'
  BY <1>1, <1>2, <1>3, <1>4, <1>6 DEF ExportInv, OneStageAtATime
<1>9. YoungerHaveNotBegun'
  <2>1. ToSet(export_queue) \subseteq accepted
    BY <1>2, ExportQueuesAreOfAccepted
  <2> QED BY <1>1, <1>4, <2>1 DEF ExportInv, YoungerHaveNotBegun, NotBegun
<1>10. WindowsListTheUnanswered' /\ AnswersAreInStep' /\ (~ mispopped => QueueIsInStep)'
  BY <1>1, <1>4, <1>6 DEF ExportInv, WindowsListTheUnanswered, AnswersAreInStep,
                          QueueIsInStep, AnsweredCancel
<1>11. (~ mispopped => StrayedHaveStopped /\ StraysAreSingle)'
  BY <1>1, <1>3 DEF ExportInv, StrayedHaveStopped, StraysAreSingle, AnsweredCancel
<1> QED BY <1>5, <1>7, <1>8, <1>9, <1>10, <1>11 DEF ExportInv

\* The page goes to the file that is open, by the job that is drawn.
LEMMA ExportPageWrites ==
    ASSUME ExportInv, PE!ExportPage, file # Null
    PROVE  /\ FilesAreWritten'
           /\ \A op \in Exports : \A i \in DOMAIN written'[op] :
                \/ i \in DOMAIN written[op] /\ written'[op][i] = written[op][i]
                \/ op = file /\ i = Len(written[file]) + 1 /\ written'[op][i].by = taken
<1> DEFINE r == [page |-> job_page[taken], by |-> taken]
<1>1. /\ file \in Exports /\ taken \in accepted
      /\ written' = [written EXCEPT ![file] = Append(@, r)]
      /\ FilesAreWritten /\ UNCHANGED accepted
  BY DEF ExportInv, ExportTypes, PE!ExportPage, PE!opVars
<1>2. r.by = taken
  OBVIOUS
<1> HIDE DEF r
<1>3. PICK S : written[file] \in Seq(S)
  BY <1>1 DEF FilesAreWritten
<1>4. /\ \E T : Append(written[file], r) \in Seq(T)
      /\ DOMAIN written[file] = 1 .. Len(written[file]) /\ Len(written[file]) \in Nat
      /\ DOMAIN Append(written[file], r) = 1 .. Len(written[file]) + 1
      /\ \A i \in 1 .. Len(written[file]) :
           Append(written[file], r)[i] = written[file][i]
      /\ Append(written[file], r)[Len(written[file]) + 1] = r
  BY <1>3, AppendIsASequence
<1>5. /\ DOMAIN written' = Exports
      /\ written'[file] = Append(written[file], r)
      /\ \A op \in Exports \ {file} : written'[op] = written[op]
  BY <1>1 DEF FilesAreWritten
<1>6. \A op \in Exports : \A i \in DOMAIN written'[op] :
        \/ i \in DOMAIN written[op] /\ written'[op][i] = written[op][i]
        \/ op = file /\ i = Len(written[file]) + 1 /\ written'[op][i].by = taken
  BY <1>2, <1>4, <1>5
<1>7. \A op \in Exports : \E T : written'[op] \in Seq(T)
  BY <1>1, <1>4, <1>5 DEF FilesAreWritten
<1>8. FilesAreWritten'
  BY <1>1, <1>5, <1>6, <1>7 DEF FilesAreWritten
<1> QED BY <1>6, <1>8

\* The job of an operation that has not answered writes its operation's file.
LEMMA UnansweredWriteTheirFile ==
    ASSUME ExportInv, ~ mispopped, taken # Null, file # Null, file # taken
    PROVE  AnsweredCancel(taken)
<1>1. taken \in accepted /\ taken \in Exports /\ InFlight(taken)
  BY DEF ExportInv, ExportTypes, InFlight
<1>2. SUFFICES ASSUME answers[taken] = <<>> PROVE FALSE
  BY <1>1 DEF ExportInv, AnswersAreInStep
<1>3. taken \in ToSet(export_queue)
  BY <1>1, <1>2 DEF ExportInv, QueueIsInStep
<1>4. taken = Last(export_queue)
  BY <1>1, <1>3 DEF ExportInv, YoungerHaveNotBegun, NotBegun
<1>5. taken \notin sent
  BY <1>1 DEF ExportInv, OneStageAtATime
<1>6. export_queue # <<>>
  BY <1>3 DEF ToSet
<1> QED BY <1>4, <1>5, <1>6 DEF ExportInv, QueueIsInStep

\* The worker exports a page.
LEMMA ExportPageKeeps == ExportInv /\ PE!ExportPage => ExportInv'
<1> SUFFICES ASSUME ExportInv, PE!ExportPage PROVE ExportInv'
  OBVIOUS
<1>1. /\ taken # Null /\ ~ exported /\ exported' = TRUE /\ done' = done \ {taken}
      /\ UNCHANGED <<settings, accepted, temp_file, idle, sent, answers, export_queue,
                     window_queue, mispopped, job_export, stopped, due, file,
                     queued, taken>>
  BY DEF PE!ExportPage, PE!opVars, PE!queueVars
<1>2. \A op : InFlight(op)' <=> InFlight(op)
  BY <1>1 DEF InFlight
<1>3. ExportTypes'
  BY <1>1 DEF ExportInv, ExportTypes
<1>4. OneStageAtATime' /\ YoungerHaveNotBegun'
  BY <1>1, <1>2 DEF ExportInv, OneStageAtATime, YoungerHaveNotBegun, NotBegun
<1>5. WindowsListTheUnanswered' /\ AnswersAreInStep' /\ (~ mispopped => QueueIsInStep)'
  BY <1>1, <1>2 DEF ExportInv, WindowsListTheUnanswered, AnswersAreInStep,
                    QueueIsInStep, AnsweredCancel
<1>6. CASE file = Null
  <2>1. UNCHANGED written
    BY <1>6 DEF PE!ExportPage
  <2>2. FilesAreWritten'
    BY <1>1, <2>1 DEF ExportInv, FilesAreWritten
  <2>3. (~ mispopped => StrayedHaveStopped /\ StraysAreSingle)'
    BY <1>1, <2>1 DEF ExportInv, StrayedHaveStopped, StraysAreSingle, AnsweredCancel
  <2> QED BY <1>3, <1>4, <1>5, <2>2, <2>3 DEF ExportInv
<1>7. CASE file # Null
  <2>1. /\ FilesAreWritten'
        /\ \A op \in Exports : \A i \in DOMAIN written'[op] :
             \/ i \in DOMAIN written[op] /\ written'[op][i] = written[op][i]
             \/ op = file /\ i = Len(written[file]) + 1 /\ written'[op][i].by = taken
    BY <1>7, ExportPageWrites
  <2>2. ASSUME ~ mispopped
        PROVE  StrayedHaveStopped'
    <3>1. StrayedHaveStopped
      BY <2>2 DEF ExportInv
    <3>2. file # taken => AnsweredCancel(taken) /\ taken \notin ToSet(queued)
      BY <1>1, <1>7, <2>2, UnansweredWriteTheirFile DEF ExportInv, OneStageAtATime
    <3> QED BY <1>1, <2>1, <3>1, <3>2 DEF StrayedHaveStopped, AnsweredCancel
  <2>3. ASSUME ~ mispopped
        PROVE  StraysAreSingle'
    <3>1. StrayedHaveStopped /\ StraysAreSingle
      BY <2>3 DEF ExportInv
    <3>2. \A op \in Exports : \A i \in DOMAIN written[op] :
            op # taken => written[op][i].by # taken
      BY <1>1, <3>1 DEF StrayedHaveStopped
    <3>3. SUFFICES ASSUME NEW op \in Exports, NEW later \in Exports,
                          NEW i \in DOMAIN written'[op], NEW j \in DOMAIN written'[later],
                          written'[op][i].by \notin {op, later},
                          written'[later][j].by = written'[op][i].by
                   PROVE  op = later /\ i = j
      BY DEF StraysAreSingle
    <3>4. CASE written'[op][i].by = taken
      BY <2>1, <3>2, <3>3, <3>4
    <3>5. CASE written'[op][i].by # taken
      <4>1. /\ i \in DOMAIN written[op] /\ written'[op][i] = written[op][i]
            /\ j \in DOMAIN written[later] /\ written'[later][j] = written[later][j]
        BY <2>1, <3>3, <3>5
      <4> QED BY <3>1, <3>3, <4>1 DEF StraysAreSingle
    <3> QED BY <3>4, <3>5
  <2>4. (~ mispopped => StrayedHaveStopped /\ StraysAreSingle)'
    BY <1>1, <2>2, <2>3
  <2> QED BY <1>3, <1>4, <1>5, <2>1, <2>4 DEF ExportInv
<1> QED BY <1>6, <1>7

\* The worker is done with a job.
LEMMA ExportEndJobKeeps == ExportInv /\ PE!EndJob => ExportInv'
<1> SUFFICES ASSUME ExportInv, PE!EndJob PROVE ExportInv'
  OBVIOUS
<1>1. /\ exported /\ taken # Null /\ taken' = Null /\ exported' = FALSE
      /\ \/ UNCHANGED <<done, due>>
         \/ done' = done \cup {taken} /\ due' = due \cup {taken}
      /\ UNCHANGED <<settings, accepted, temp_file, idle, sent, answers, export_queue,
                     window_queue, mispopped, job_export, stopped, file, written,
                     queued>>
  BY DEF PE!EndJob, PE!opVars, PE!queueVars, PE!exporterVars
<1>2. /\ taken \in accepted /\ Null \notin accepted /\ accepted \subseteq Exports
      /\ ToSet(queued) \subseteq accepted /\ ToSet(export_queue) \subseteq accepted
      /\ due \subseteq accepted
  BY <1>1, ExportQueuesAreOfAccepted DEF ExportInv, ExportTypes
<1>3. \A op \in Exports : InFlight(op)' => InFlight(op)
  BY <1>1, <1>2, ExportParameters DEF InFlight
<1>4. ExportTypes'
  BY <1>1, <1>2 DEF ExportInv, ExportTypes
<1>5. FilesAreWritten'
  BY <1>1 DEF ExportInv, FilesAreWritten
<1>6. OneStageAtATime'
  BY <1>1, <1>2, <1>3 DEF ExportInv, OneStageAtATime
<1>7. YoungerHaveNotBegun'
  BY <1>1, <1>2, <1>3 DEF ExportInv, YoungerHaveNotBegun, NotBegun
<1>8. WindowsListTheUnanswered' /\ AnswersAreInStep' /\ (~ mispopped => QueueIsInStep)'
  BY <1>1, <1>3 DEF ExportInv, WindowsListTheUnanswered, AnswersAreInStep,
                    QueueIsInStep, AnsweredCancel
<1>9. (~ mispopped => StrayedHaveStopped /\ StraysAreSingle)'
  BY <1>1, <1>2 DEF ExportInv, FilesAreWritten, StrayedHaveStopped, StraysAreSingle,
                    AnsweredCancel
<1> QED BY <1>4, <1>5, <1>6, <1>7, <1>8, <1>9 DEF ExportInv

\* A job reports, and its operation goes on if it still listens.
LEMMA ExportJobFinishedKeeps ==
    ASSUME ExportInv, NEW op \in Exports, PE!JobFinished(op)
    PROVE  ExportInv'
<1>1. /\ op \in due /\ due' = due \ {op}
      /\ \/ idle' = idle
         \/ op \in job_export /\ idle' = idle \cup {op}
      /\ UNCHANGED <<settings, accepted, temp_file, sent, answers, export_queue,
                     window_queue, mispopped, job_export, done, stopped, file, written,
                     queued, taken, exported>>
  BY DEF PE!JobFinished, PE!queueVars, PE!workerVars, PE!exporterVars
<1>2. /\ InFlight(op) /\ op \in accepted /\ op \notin idle \cup sent
      /\ op \notin ToSet(queued) /\ taken # op
  BY <1>1 DEF ExportInv, ExportTypes, OneStageAtATime, InFlight
<1>3. /\ ~ InFlight(op)'
      /\ \A o \in Exports \ {op} : InFlight(o)' <=> InFlight(o)
  BY <1>1, <1>2 DEF InFlight
<1>4. op \in job_export => answers[op] = <<>>
  BY <1>2 DEF ExportInv, AnswersAreInStep
<1>5. ExportTypes'
  BY <1>1, <1>2 DEF ExportInv, ExportTypes
<1>6. FilesAreWritten'
  BY <1>1 DEF ExportInv, FilesAreWritten
<1>7. OneStageAtATime'
  BY <1>1, <1>2, <1>3 DEF ExportInv, OneStageAtATime
<1>8. YoungerHaveNotBegun'
  <2>1. ToSet(export_queue) \subseteq Exports
    BY ExportQueuesAreOfAccepted DEF ExportInv
  <2>2. ASSUME NEW o \in ToSet(export_queue), o # Last(export_queue)
        PROVE  NotBegun(o)' /\ (o \in temp_file => answers[o] = <<>>)
    <3>1. NotBegun(o) /\ o # op
      BY <1>2, <2>2 DEF ExportInv, YoungerHaveNotBegun, NotBegun
    <3> QED BY <1>1, <1>3, <2>1, <2>2, <3>1 DEF ExportInv, YoungerHaveNotBegun, NotBegun
  <2> QED BY <1>1, <2>2 DEF YoungerHaveNotBegun
<1>9. WindowsListTheUnanswered' /\ (~ mispopped => QueueIsInStep)'
  BY <1>1 DEF ExportInv, WindowsListTheUnanswered, QueueIsInStep
<1>10. AnswersAreInStep'
  BY <1>1, <1>3, <1>4 DEF ExportInv, AnswersAreInStep, AnsweredCancel
<1>11. (~ mispopped => StrayedHaveStopped /\ StraysAreSingle)'
  BY <1>1 DEF ExportInv, StrayedHaveStopped, StraysAreSingle, AnsweredCancel
<1> QED BY <1>5, <1>6, <1>7, <1>8, <1>9, <1>10, <1>11 DEF ExportInv

-----------------------------------------------------------------------------
(* PrintExport: the steps that begin and end operations *)

\* A file that is opened anew loses its pages; nothing else does.
LEMMA OpeningKeepsFiles ==
    ASSUME FilesAreWritten, ExportTypes, accepted \subseteq accepted', NEW next,
           written' = written \/ written' = [written EXCEPT ![next] = <<>>]
    PROVE  /\ FilesAreWritten'
           /\ \A op \in Exports : \A i \in DOMAIN written'[op] :
                i \in DOMAIN written[op] /\ written'[op][i] = written[op][i]
<1>1. DOMAIN written' = Exports
  BY DEF FilesAreWritten
<1>2. \A op \in Exports : written'[op] = written[op] \/ written'[op] = <<>>
  BY DEF FilesAreWritten
<1>3. \A S : <<>> \in Seq(S)
  OBVIOUS
<1>4. DOMAIN <<>> = {}
  OBVIOUS
<1>5. \A op \in Exports : \E S : written'[op] \in Seq(S)
  BY <1>2, <1>3 DEF FilesAreWritten
<1>6. \A op \in Exports : \A i \in DOMAIN written'[op] :
        i \in DOMAIN written[op] /\ written'[op][i] = written[op][i]
  BY <1>2, <1>4
<1>7. \A op \in Exports : \A i \in DOMAIN written'[op] : written'[op][i].by \in accepted'
  BY <1>6 DEF FilesAreWritten
<1> QED BY <1>1, <1>5, <1>6, <1>7 DEF FilesAreWritten

\* Nobody strays by it.
LEMMA OpeningKeepsStrays ==
    ASSUME StrayedHaveStopped, StraysAreSingle,
           \A op \in Exports : \A i \in DOMAIN written'[op] :
              i \in DOMAIN written[op] /\ written'[op][i] = written[op][i],
           FilesAreWritten, ToSet(queued') \cap accepted \subseteq ToSet(queued),
           UNCHANGED <<taken, exported>>,
           \A op \in accepted : AnsweredCancel(op) => AnsweredCancel(op)'
    PROVE  StrayedHaveStopped' /\ StraysAreSingle'
<1>1. StrayedHaveStopped'
  <2> SUFFICES ASSUME NEW op \in Exports, NEW i \in DOMAIN written'[op],
                      written'[op][i].by # op
               PROVE  /\ "cancel" \in ToSet(answers'[written'[op][i].by])
                      /\ written'[op][i].by \notin ToSet(queued')
                      /\ ~ (taken = written'[op][i].by /\ ~ exported)
    BY DEF StrayedHaveStopped, AnsweredCancel
  <2>1. i \in DOMAIN written[op] /\ written'[op][i].by = written[op][i].by
    OBVIOUS
  <2>2. written[op][i].by \in accepted
    BY <2>1 DEF FilesAreWritten
  <2>3. /\ AnsweredCancel(written[op][i].by)
        /\ written[op][i].by \notin ToSet(queued)
        /\ ~ (taken = written[op][i].by /\ ~ exported)
    BY <2>1 DEF StrayedHaveStopped
  <2> QED BY <2>1, <2>2, <2>3 DEF AnsweredCancel
<1>2. StraysAreSingle'
  <2> SUFFICES ASSUME NEW op \in Exports, NEW later \in Exports,
                      NEW i \in DOMAIN written'[op], NEW j \in DOMAIN written'[later],
                      written'[op][i].by \notin {op, later},
                      written'[later][j].by = written'[op][i].by
               PROVE  op = later /\ i = j
    BY DEF StraysAreSingle
  <2> QED BY DEF StraysAreSingle
<1> QED BY <1>1, <1>2

\* What ev_print_operation_export_begin does.
LEMMA BeginBegins ==
    ASSUME NEW next, NEW files, NEW idles, NEW open, PE!Begin(next, files, idles, open)
    PROVE  /\ next \in files =>
                /\ file' = next /\ idle' = idles \cup {next}
                /\ written' = [written EXCEPT ![next] = <<>>]
           /\ next \notin files =>
                file' = open /\ idle' = idles /\ written' = written
BY DEF PE!Begin

\* The user accepts a print dialog.
LEMMA AcceptKeeps ==
    ASSUME ExportInv, NEW op \in Exports, PE!Accept(op)
    PROVE  ExportInv'
<1> DEFINE next == IF export_queue = <<>> THEN op ELSE Null
<1>1. /\ op \notin accepted /\ accepted' = accepted \cup {op}
      /\ temp_file' = temp_file \cup {op}
      /\ PE!Begin(next, temp_file', idle, file)
      /\ export_queue' = <<op>> \o export_queue
      /\ window_queue' = [window_queue EXCEPT ![WindowOf[op]] = <<op>> \o @]
      /\ UNCHANGED <<settings, sent, answers, mispopped, job_export, done, stopped,
                     due, queued, taken, exported>>
  BY DEF PE!Accept, PE!jobVars, PE!workerVars
<1>2. /\ ExportTypes /\ ToSet(export_queue) \subseteq accepted
      /\ ToSet(queued) \subseteq accepted /\ Null \notin accepted'
      /\ accepted \subseteq Exports /\ op # Null
      /\ \A w \in Windows : ToSet(window_queue[w]) \subseteq accepted
  BY <1>1, ExportQueuesAreOfAccepted, ExportParameters DEF ExportInv
<1>3. Null \notin temp_file'
  BY <1>1, <1>2 DEF ExportTypes
<1>4. /\ export_queue = <<>> =>
           /\ file' = op /\ idle' = idle \cup {op}
           /\ written' = [written EXCEPT ![op] = <<>>]
      /\ export_queue # <<>> => UNCHANGED <<file, idle, written>>
  <2>1. next \in temp_file' <=> export_queue = <<>>
    BY <1>1, <1>3
  <2> HIDE DEF next
  <2>2. /\ next \in temp_file' =>
             /\ file' = next /\ idle' = idle \cup {next}
             /\ written' = [written EXCEPT ![next] = <<>>]
        /\ next \notin temp_file' => file' = file /\ idle' = idle /\ written' = written
    BY <1>1, BeginBegins
  <2> QED BY <2>1, <2>2 DEF next
<1> HIDE DEF next
<1>5. /\ export_queue' \in Seq(accepted') /\ IsInjective(export_queue')
      /\ ToSet(export_queue') = ToSet(export_queue) \cup {op}
      /\ Last(export_queue') = IF export_queue = <<>> THEN op ELSE Last(export_queue)
  <2>1. export_queue \in Seq(accepted') /\ op \in accepted' /\ op \notin ToSet(export_queue)
    BY <1>1, <1>2, SequencesOfMore DEF ExportTypes
  <2> QED BY <1>1, <1>2, <2>1, PrependAdds DEF ExportTypes
<1>6. /\ window_queue' \in [Windows -> Seq(accepted')]
      /\ \A w \in Windows : ToSet(window_queue'[w]) =
            IF w = WindowOf[op] THEN ToSet(window_queue[w]) \cup {op}
            ELSE ToSet(window_queue[w])
  <2> DEFINE v == WindowOf[op]
  <2>1. v \in Windows /\ window_queue \in [Windows -> Seq(accepted)]
    BY <1>2, ExportParameters DEF ExportTypes
  <2> HIDE DEF v
  <2>2. \A w \in Windows : window_queue[w] \in Seq(accepted')
    BY <1>1, <2>1, SequencesOfMore
  <2>3. /\ <<op>> \o window_queue[v] \in Seq(accepted')
        /\ ToSet(<<op>> \o window_queue[v]) = ToSet(window_queue[v]) \cup {op}
    <3>1. op \in accepted' /\ <<op>> \in Seq(accepted') /\ ToSet(<<op>>) = {op}
      BY <1>1 DEF ToSet
    <3> QED BY <2>1, <2>2, <3>1, PrependedMembers
  <2>4. window_queue' = [window_queue EXCEPT ![v] = <<op>> \o @]
    BY <1>1 DEF v
  <2>5. window_queue' \in [Windows -> Seq(accepted')]
    BY <2>1, <2>2, <2>3, <2>4
  <2> QED BY <2>1, <2>3, <2>4, <2>5 DEF v
<1>7. /\ NotBegun(op) /\ op \notin temp_file /\ answers[op] = <<>>
      /\ \A w \in Windows : op \notin ToSet(window_queue[w])
  BY <1>1, <1>2 DEF ExportInv, ExportTypes, NotBegun, InFlight, AnswersAreInStep
<1>8. \A o : InFlight(o)' <=> InFlight(o)
  BY <1>1 DEF InFlight
<1>9. queued \in Seq(accepted')
  BY <1>1, SequencesOfMore DEF ExportInv, ExportTypes
<1>10. ExportTypes'
  <2>1. /\ temp_file' \cup idle' \cup sent \cup job_export \subseteq accepted'
        /\ accepted' \subseteq Exports /\ file' \in accepted' \cup {Null}
    BY <1>1, <1>2, <1>4 DEF ExportTypes
  <2> QED BY <1>1, <1>2, <1>5, <1>6, <1>9, <2>1 DEF ExportTypes
<1>11. /\ FilesAreWritten'
       /\ \A o \in Exports : \A i \in DOMAIN written'[o] :
            i \in DOMAIN written[o] /\ written'[o][i] = written[o][i]
  BY <1>1, <1>2, <1>4, OpeningKeepsFiles DEF ExportInv
<1>12. OneStageAtATime'
  BY <1>1, <1>4, <1>7, <1>8 DEF ExportInv, OneStageAtATime, NotBegun
<1>13. YoungerHaveNotBegun'
  <2> SUFFICES ASSUME NEW o \in ToSet(export_queue'), o # Last(export_queue')
               PROVE  NotBegun(o)' /\ (o \in temp_file' => answers'[o] = <<>>)
    BY DEF YoungerHaveNotBegun
  <2>1. export_queue # <<>>
    BY <1>5 DEF ToSet
  <2>2. NotBegun(o) /\ (o \in temp_file' => answers[o] = <<>>)
    BY <1>1, <1>5, <1>7, <2>1 DEF ExportInv, YoungerHaveNotBegun
  <2> QED BY <1>1, <1>4, <1>8, <2>1, <2>2 DEF NotBegun
<1>14. WindowsListTheUnanswered'
  <2> SUFFICES ASSUME NEW w \in Windows, NEW o \in ToSet(window_queue'[w])
               PROVE  WindowOf[o] = w /\ answers'[o] = <<>>
    BY DEF WindowsListTheUnanswered
  <2>1. o \in ToSet(window_queue[w]) \/ (o = op /\ w = WindowOf[op])
    BY <1>6
  <2> QED BY <1>1, <1>7, <2>1 DEF ExportInv, WindowsListTheUnanswered
<1>15. AnswersAreInStep'
  BY <1>1, <1>4, <1>7, <1>8 DEF ExportInv, AnswersAreInStep, AnsweredCancel
<1>16. (~ mispopped => QueueIsInStep)'
  <2> SUFFICES ASSUME ~ mispopped
               PROVE  QueueIsInStep'
    BY <1>1
  <2>1. QueueIsInStep
    BY DEF ExportInv
  <2>2. ToSet(export_queue') = {o \in accepted' : answers'[o] = <<>>}
    BY <1>1, <1>5, <1>7, <2>1 DEF QueueIsInStep
  <2>3. ToSet(export_queue') \subseteq temp_file'
    BY <1>1, <1>5, <2>1 DEF QueueIsInStep
  <2>4. op \notin sent
    BY <1>7 DEF NotBegun
  <2>5. file' = IF Last(export_queue') \in sent' THEN Null ELSE Last(export_queue')
    BY <1>1, <1>4, <1>5, <2>1, <2>4 DEF QueueIsInStep
  <2> QED BY <2>2, <2>3, <2>5 DEF QueueIsInStep
<1>17. (~ mispopped => StrayedHaveStopped /\ StraysAreSingle)'
  BY <1>1, <1>11, OpeningKeepsStrays DEF ExportInv, AnsweredCancel
<1> QED BY <1>10, <1>11, <1>12, <1>13, <1>14, <1>15, <1>16, <1>17 DEF ExportInv

\* What all ways to end op have in common: it is answered, and the next operation
\* of the queue begins, with the file open if there is none.  What is said of
\* the rest is what the ends of an operation may change.
Ends(op, how, open) ==
    /\ PE!Done(op, how)
    /\ PE!RunNext(op, temp_file', idle \ {op}, open)
    /\ temp_file' = temp_file \/ temp_file' = temp_file \ {op}
    /\ sent' = sent \/ sent' = sent \ {op}
    /\ done' \cup stopped' \subseteq accepted /\ job_export' \subseteq job_export
    /\ queued' \in Seq(accepted) /\ IsInjective(queued')
    /\ ToSet(queued') \subseteq ToSet(queued)
    /\ UNCHANGED <<settings, accepted, due, taken, exported>>

\* Done answers, and takes the operation out of the queue of its window.
LEMMA DoneAnswers ==
    ASSUME ExportTypes, NEW op \in accepted, NEW how \in PE!Results, PE!Done(op, how)
    PROVE  /\ answers' \in [Exports -> Seq(PE!Results)]
           /\ answers'[op] = Append(answers[op], how) /\ answers'[op] # <<>>
           /\ \A o \in Exports \ {op} : answers'[o] = answers[o]
           /\ \A o \in Exports : AnsweredCancel(o) => AnsweredCancel(o)'
           /\ how = "cancel" => AnsweredCancel(op)'
           /\ window_queue' \in [Windows -> Seq(accepted)]
           /\ \A w \in Windows : ToSet(window_queue'[w]) =
                IF w = WindowOf[op] THEN ToSet(window_queue[w]) \ {op}
                ELSE ToSet(window_queue[w])
<1>1. /\ op \in Exports /\ answers \in [Exports -> Seq(PE!Results)]
      /\ answers[op] \in Seq(PE!Results)
  BY DEF ExportTypes
<1>2. answers' = [answers EXCEPT ![op] = Append(@, how)]
  BY DEF PE!Done
<1>3. /\ Append(answers[op], how) \in Seq(PE!Results)
      /\ ToSet(Append(answers[op], how)) = ToSet(answers[op]) \cup {how}
      /\ Append(answers[op], how) # <<>>
  <2>1. ToSet(<<>>) = {}
    BY DEF ToSet
  <2> QED BY <1>1, <2>1, AppendAdds
<1>4. /\ answers' \in [Exports -> Seq(PE!Results)]
      /\ answers'[op] = Append(answers[op], how)
      /\ \A o \in Exports \ {op} : answers'[o] = answers[o]
  BY <1>1, <1>2, <1>3
<1>5. /\ \A o \in Exports : AnsweredCancel(o) => AnsweredCancel(o)'
      /\ how = "cancel" => AnsweredCancel(op)'
  BY <1>3, <1>4 DEF AnsweredCancel
<1> DEFINE v == WindowOf[op]
<1>6. /\ v \in Windows /\ window_queue \in [Windows -> Seq(accepted)]
      /\ window_queue' = [window_queue EXCEPT ![v] = Removing(@, {op})]
  BY <1>1, ExportParameters, ExportOperators DEF ExportTypes, PE!Done
<1> HIDE DEF v
<1>7. /\ Removing(window_queue[v], {op}) \in Seq(accepted)
      /\ ToSet(Removing(window_queue[v], {op})) = ToSet(window_queue[v]) \ {op}
  <2>1. window_queue[v] \in Seq(accepted)
    BY <1>6
  <2> QED BY <2>1, RemovingDrops
<1>8. /\ window_queue' \in [Windows -> Seq(accepted)]
      /\ \A w \in Windows : ToSet(window_queue'[w]) =
           IF w = v THEN ToSet(window_queue[w]) \ {op} ELSE ToSet(window_queue[w])
  BY <1>6, <1>7
<1> QED BY <1>3, <1>4, <1>5, <1>8 DEF v

\* The oldest operation leaves the queue, and the one after begins if it has
\* its file.
LEMMA RunNextBegins ==
    ASSUME ExportTypes, NEW op, NEW open,
           PE!RunNext(op, temp_file', idle \ {op}, open), temp_file' \subseteq accepted
    PROVE  /\ export_queue' \in Seq(accepted) /\ IsInjective(export_queue')
           /\ export_queue = <<>> => export_queue' = <<>> /\ ToSet(export_queue') = {}
           /\ export_queue # <<>> =>
                ToSet(export_queue') = ToSet(export_queue) \ {Last(export_queue)}
           /\ export_queue' # <<>> => Last(export_queue') \in ToSet(export_queue')
           /\ \/ /\ export_queue' # <<>> /\ Last(export_queue') \in temp_file'
                 /\ file' = Last(export_queue')
                 /\ idle' = (idle \ {op}) \cup {Last(export_queue')}
                 /\ written' = [written EXCEPT ![Last(export_queue')] = <<>>]
              \/ /\ export_queue' # <<>> => Last(export_queue') \notin temp_file'
                 /\ file' = open /\ idle' = idle \ {op} /\ written' = written
           /\ mispopped' \in BOOLEAN
           /\ ~ mispopped' => ~ mispopped /\ (export_queue = <<>> \/ op = Last(export_queue))
<1>1. /\ export_queue \in Seq(accepted) /\ IsInjective(export_queue)
      /\ mispopped \in BOOLEAN
  BY DEF ExportTypes
<1>2. export_queue' = IF export_queue = <<>> THEN <<>> ELSE Front(export_queue)
  BY ExportOperators DEF PE!RunNext, PE!Popped
<1>3. /\ <<>> \in Seq(accepted) /\ IsInjective(<<>>) /\ ToSet(<<>>) = {}
  BY DEF IsInjective, ToSet
<1>4. /\ export_queue' \in Seq(accepted) /\ IsInjective(export_queue')
      /\ export_queue = <<>> => export_queue' = <<>> /\ ToSet(export_queue') = {}
      /\ export_queue # <<>> =>
           ToSet(export_queue') = ToSet(export_queue) \ {Last(export_queue)}
  BY <1>1, <1>2, <1>3, FrontPops
<1>5. export_queue' # <<>> => Last(export_queue') \in ToSet(export_queue')
  BY <1>4, LastIsMember
<1> DEFINE next == IF export_queue' = <<>> THEN Null ELSE Last(export_queue')
<1>6. PE!Begin(next, temp_file', idle \ {op}, open)
  <2>1. export_queue' = PE!Popped
    BY DEF PE!RunNext
  <2> QED BY <2>1, ExportOperators DEF PE!RunNext
<1>7. Null \notin temp_file'
  BY ExportQueuesAreOfAccepted
<1>8. /\ next \in temp_file' =>
           /\ file' = next /\ idle' = (idle \ {op}) \cup {next}
           /\ written' = [written EXCEPT ![next] = <<>>]
      /\ next \notin temp_file' =>
           file' = open /\ idle' = idle \ {op} /\ written' = written
  <2> HIDE DEF next
  <2> QED BY <1>6, BeginBegins
<1>9. /\ mispopped' \in BOOLEAN
      /\ ~ mispopped' => ~ mispopped /\ (export_queue = <<>> \/ op = Last(export_queue))
  <2>1. mispopped' = (mispopped \/ (export_queue # <<>> /\ Last(export_queue) # op))
    BY ExportOperators DEF PE!RunNext, PE!MisPops
  <2> QED BY <1>1, <2>1
<1>10. CASE next \in temp_file'
  BY <1>4, <1>5, <1>7, <1>8, <1>9, <1>10
<1>11. CASE next \notin temp_file'
  BY <1>4, <1>5, <1>8, <1>9, <1>11
<1> QED BY <1>10, <1>11

\* The end of an operation keeps ExportInv: of one that has not begun only if it
\* loses its file, of one with a job in flight only if it is cancelled, and then
\* the job is let go.
LEMMA EndsKeep ==
    ASSUME ExportInv, NEW op \in accepted, NEW how \in PE!Results,
           NEW open \in accepted \cup {Null}, Ends(op, how, open),
           op \notin temp_file' \/ ~ NotBegun(op),
           op \in sent' => how = "cancel" /\ answers[op] = <<>>,
           InFlight(op) => how = "cancel" /\ op \notin job_export'
    PROVE  ExportInv'
<1>1. /\ ExportTypes /\ FilesAreWritten
      /\ ToSet(export_queue) \subseteq accepted /\ ToSet(queued) \subseteq accepted
      /\ accepted \subseteq Exports /\ temp_file' \subseteq accepted
  BY ExportQueuesAreOfAccepted DEF ExportInv, ExportTypes, Ends
<1>2. /\ answers' \in [Exports -> Seq(PE!Results)]
      /\ answers'[op] = Append(answers[op], how) /\ answers'[op] # <<>>
      /\ \A o \in Exports \ {op} : answers'[o] = answers[o]
      /\ \A o \in Exports : AnsweredCancel(o) => AnsweredCancel(o)'
      /\ how = "cancel" => AnsweredCancel(op)'
      /\ window_queue' \in [Windows -> Seq(accepted)]
      /\ \A w \in Windows : ToSet(window_queue'[w]) =
           IF w = WindowOf[op] THEN ToSet(window_queue[w]) \ {op}
           ELSE ToSet(window_queue[w])
  BY <1>1, DoneAnswers DEF Ends
<1>3. /\ export_queue' \in Seq(accepted) /\ IsInjective(export_queue')
      /\ export_queue = <<>> => export_queue' = <<>> /\ ToSet(export_queue') = {}
      /\ export_queue # <<>> =>
           ToSet(export_queue') = ToSet(export_queue) \ {Last(export_queue)}
      /\ export_queue' # <<>> => Last(export_queue') \in ToSet(export_queue')
      /\ \/ /\ export_queue' # <<>> /\ Last(export_queue') \in temp_file'
            /\ file' = Last(export_queue')
            /\ idle' = (idle \ {op}) \cup {Last(export_queue')}
            /\ written' = [written EXCEPT ![Last(export_queue')] = <<>>]
         \/ /\ export_queue' # <<>> => Last(export_queue') \notin temp_file'
            /\ file' = open /\ idle' = idle \ {op} /\ written' = written
      /\ mispopped' \in BOOLEAN
      /\ ~ mispopped' => ~ mispopped /\ (export_queue = <<>> \/ op = Last(export_queue))
  BY <1>1, RunNextBegins DEF Ends
<1>4. /\ temp_file' = temp_file \/ temp_file' = temp_file \ {op}
      /\ sent' = sent \/ sent' = sent \ {op}
      /\ done' \cup stopped' \subseteq accepted /\ job_export' \subseteq job_export
      /\ queued' \in Seq(accepted) /\ IsInjective(queued')
      /\ ToSet(queued') \subseteq ToSet(queued)
      /\ UNCHANGED <<settings, accepted, due, taken, exported>>
  BY DEF Ends
<1>5. \A o : InFlight(o)' => InFlight(o)
  BY <1>4 DEF InFlight
<1>6. \A o \in ToSet(export_queue') :
        /\ o \in ToSet(export_queue) /\ NotBegun(o)
        /\ o \in temp_file' => answers[o] = <<>> /\ o # op
  <2> SUFFICES ASSUME NEW o \in ToSet(export_queue')
               PROVE  /\ o \in ToSet(export_queue) /\ NotBegun(o)
                      /\ o \in temp_file' => answers[o] = <<>> /\ o # op
    OBVIOUS
  <2>1. o \in ToSet(export_queue) /\ o # Last(export_queue)
    BY <1>3
  <2>2. NotBegun(o) /\ (o \in temp_file => answers[o] = <<>>)
    BY <2>1 DEF ExportInv, YoungerHaveNotBegun
  <2> QED BY <1>4, <2>1, <2>2
<1>7. /\ idle' \subseteq (idle \ {op}) \cup ToSet(export_queue')
      /\ \A o \in idle' \ idle : o = Last(export_queue') /\ o \in temp_file'
  BY <1>3
<1>8. ExportTypes'
  <2>1. idle' \subseteq accepted /\ file' \in accepted \cup {Null}
    BY <1>1, <1>3, <1>6 DEF ExportTypes
  <2> QED BY <1>1, <1>2, <1>3, <1>4, <2>1 DEF ExportTypes
<1>9. /\ FilesAreWritten'
      /\ \A o \in Exports : \A i \in DOMAIN written'[o] :
           i \in DOMAIN written[o] /\ written'[o][i] = written[o][i]
  <2>1. CASE written' = written
    BY <1>1, <1>4, <2>1, OpeningKeepsFiles
  <2>2. CASE written' = [written EXCEPT ![Last(export_queue')] = <<>>]
    BY <1>1, <1>4, <2>2, OpeningKeepsFiles
  <2> QED BY <1>3, <2>1, <2>2
<1>10. OneStageAtATime'
  <2>1. \A o \in idle' : o \in idle \/ NotBegun(o)
    BY <1>6, <1>7
  <2> QED BY <1>4, <1>5, <2>1 DEF ExportInv, OneStageAtATime, NotBegun
<1>11. YoungerHaveNotBegun'
  <2> SUFFICES ASSUME NEW o \in ToSet(export_queue'), o # Last(export_queue')
               PROVE  NotBegun(o)' /\ (o \in temp_file' => answers'[o] = <<>>)
    BY DEF YoungerHaveNotBegun
  <2>1. /\ NotBegun(o) /\ o \in Exports
        /\ o \in temp_file' => answers[o] = <<>> /\ o # op
    BY <1>1, <1>6
  <2>2. o \notin idle'
    BY <1>7, <2>1 DEF NotBegun
  <2>3. NotBegun(o)'
    BY <1>4, <1>5, <2>1, <2>2 DEF NotBegun
  <2> QED BY <1>2, <2>1, <2>3
<1>12. WindowsListTheUnanswered'
  <2> SUFFICES ASSUME NEW w \in Windows, NEW o \in ToSet(window_queue'[w])
               PROVE  WindowOf[o] = w /\ answers'[o] = <<>>
    BY DEF WindowsListTheUnanswered
  <2>1. o \in ToSet(window_queue[w]) /\ (o = op => w # WindowOf[op])
    BY <1>2
  <2>2. WindowOf[o] = w /\ answers[o] = <<>>
    BY <2>1 DEF ExportInv, WindowsListTheUnanswered
  <2>3. o \in Exports
    BY <2>1, ExportQueuesAreOfAccepted DEF ExportInv, ExportTypes
  <2> QED BY <1>2, <2>1, <2>2, <2>3
<1>13. AnswersAreInStep'
  <2> SUFFICES ASSUME NEW o \in Exports
               PROVE  /\ o \notin accepted => answers'[o] = <<>>
                      /\ o \in idle' => answers'[o] = <<>>
                      /\ o \in sent' => answers'[o] \in {<<>>, <<"cancel">>}
                      /\ InFlight(o)' => answers'[o] = <<>> \/ AnsweredCancel(o)'
                      /\ InFlight(o)' /\ o \in job_export' => answers'[o] = <<>>
    BY <1>4 DEF AnswersAreInStep
  <2>1. /\ o \notin accepted => answers[o] = <<>>
        /\ o \in idle => answers[o] = <<>>
        /\ o \in sent => answers[o] \in {<<>>, <<"cancel">>}
        /\ InFlight(o) => answers[o] = <<>> \/ AnsweredCancel(o)
        /\ InFlight(o) /\ o \in job_export => answers[o] = <<>>
    BY DEF ExportInv, AnswersAreInStep
  <2>2. CASE o = op
    <3>1. o \notin idle'
      BY <1>3, <1>6, <1>7, <2>2
    <3>2. o \in sent' => answers'[o] = <<"cancel">>
      <4>1. Append(<<>>, "cancel") = <<"cancel">>
        OBVIOUS
      <4> QED BY <1>2, <2>2, <4>1
    <3> QED BY <1>2, <1>5, <2>2, <3>1, <3>2
  <2>3. CASE o # op
    <3>1. o \in idle' => answers[o] = <<>>
      BY <1>3, <1>6, <1>7, <2>1
    <3>2. answers'[o] = answers[o] /\ (AnsweredCancel(o) => AnsweredCancel(o)')
      BY <1>2, <2>3
    <3> QED BY <1>4, <1>5, <2>1, <3>1, <3>2
  <2> QED BY <2>2, <2>3
<1>14. (~ mispopped => QueueIsInStep)'
  <2> SUFFICES ASSUME ~ mispopped'
               PROVE  QueueIsInStep'
    OBVIOUS
  <2>1. QueueIsInStep /\ (export_queue = <<>> \/ op = Last(export_queue))
    BY <1>3 DEF ExportInv
  <2>2. ToSet(export_queue) = {o \in accepted : answers[o] = <<>>}
    BY <2>1 DEF QueueIsInStep
  <2>3. ToSet(export_queue') = ToSet(export_queue) \ {op}
    <3>1. CASE export_queue = <<>>
      <4>1. ToSet(export_queue) = {}
        BY <3>1 DEF ToSet
      <4> QED BY <1>3, <3>1, <4>1
    <3>2. CASE export_queue # <<>>
      BY <1>3, <2>1, <3>2
    <3> QED BY <3>1, <3>2
  <2>4. {o \in accepted : answers'[o] = <<>>} = {o \in accepted : answers[o] = <<>>} \ {op}
    BY <1>1, <1>2
  <2>5. ToSet(export_queue') = {o \in accepted' : answers'[o] = <<>>}
    BY <1>4, <2>2, <2>3, <2>4
  <2>6. ToSet(export_queue') \subseteq temp_file'
    BY <1>4, <2>1, <2>3 DEF QueueIsInStep
  <2>7. ASSUME export_queue' # <<>>
        PROVE  file' = Last(export_queue') /\ Last(export_queue') \notin sent'
    BY <1>3, <1>4, <1>6, <2>6, <2>7 DEF NotBegun
  <2> QED BY <2>5, <2>6, <2>7 DEF QueueIsInStep
<1>15. (~ mispopped => StrayedHaveStopped /\ StraysAreSingle)'
  <2> SUFFICES ASSUME ~ mispopped'
               PROVE  StrayedHaveStopped' /\ StraysAreSingle'
    OBVIOUS
  <2>1. StrayedHaveStopped /\ StraysAreSingle
    BY <1>3 DEF ExportInv
  <2>2. \A o \in accepted : AnsweredCancel(o) => AnsweredCancel(o)'
    BY <1>1, <1>2
  <2>3. ToSet(queued') \cap accepted \subseteq ToSet(queued)
    BY <1>4
  <2> QED BY <1>1, <1>4, <1>9, <2>1, <2>2, <2>3, OpeningKeepsStrays
<1> QED BY <1>8, <1>9, <1>10, <1>11, <1>12, <1>13, <1>14, <1>15 DEF ExportInv

\* The oldest operation of a window is cancelled.
LEMMA ExportCancelKeeps ==
    ASSUME ExportInv, NEW w \in Windows, PE!Cancel(w)
    PROVE  ExportInv'
<1> DEFINE op == Last(window_queue[w])
<1>1. /\ op \in accepted /\ answers[op] = <<>>
      /\ op \in ToSet(window_queue[w])
  <2>1. window_queue[w] \in Seq(accepted) /\ window_queue[w] # <<>>
    BY ExportOperators DEF ExportInv, ExportTypes, PE!Cancel
  <2>2. op \in ToSet(window_queue[w]) /\ op \in accepted
    BY <2>1, LastIsMember
  <2> QED BY <2>2 DEF ExportInv, WindowsListTheUnanswered
<1>2. PE!ExportCancel(op) /\ UNCHANGED <<taken, exported>>
  BY ExportOperators DEF PE!Cancel
<1>3. \/ stopped' = stopped \cup {op} /\ queued' = Removing(queued, {op})
      \/ UNCHANGED <<stopped, queued>>
  BY ExportOperators DEF PE!Cancel
<1> HIDE DEF op
<1>4. /\ job_export' = job_export \ {op} /\ temp_file' = temp_file \ {op}
      /\ PE!Done(op, "cancel")
      /\ PE!RunNext(op, temp_file', idle \ {op}, file)
      /\ UNCHANGED <<settings, accepted, sent, done, due>>
  BY <1>2 DEF PE!ExportCancel
<1>5. queued \in Seq(accepted) /\ IsInjective(queued)
  BY DEF ExportInv, ExportTypes
<1>6. /\ queued' \in Seq(accepted) /\ IsInjective(queued')
      /\ ToSet(queued') \subseteq ToSet(queued)
  BY <1>3, <1>5, RemovingDrops
<1>7. done' \cup stopped' \subseteq accepted
  BY <1>1, <1>3, <1>4 DEF ExportInv, ExportTypes
<1>8. Ends(op, "cancel", file)
  BY <1>2, <1>4, <1>6, <1>7 DEF Ends
<1>9. "cancel" \in PE!Results /\ file \in accepted \cup {Null}
  BY DEF PE!Results, ExportInv, ExportTypes
<1>10. op \notin temp_file' /\ op \notin job_export'
  BY <1>4
<1> QED BY <1>1, <1>8, <1>9, <1>10, EndsKeep

\* The printer has an answer for an operation, cancelled or not.
LEMMA PrinterAnswersKeeps ==
    ASSUME ExportInv, NEW op \in Exports, PE!PrinterAnswers(op)
    PROVE  ExportInv'
<1>1. PICK how \in {"apply", "error"} : PE!Done(op, how)
  BY DEF PE!PrinterAnswers
<1>2. /\ op \in sent /\ sent' = sent \ {op} /\ temp_file' = temp_file \ {op}
      /\ PE!RunNext(op, temp_file', idle, file)
      /\ UNCHANGED <<settings, accepted, job_export, done, stopped, due, queued,
                     taken, exported>>
  BY DEF PE!PrinterAnswers, PE!jobVars, PE!workerVars
<1>3. op \in accepted /\ op \notin idle /\ ~ InFlight(op)
  BY <1>2 DEF ExportInv, ExportTypes, OneStageAtATime
<1>4. idle \ {op} = idle
  BY <1>3
<1>5. /\ queued \in Seq(accepted) /\ IsInjective(queued)
      /\ done \cup stopped \subseteq accepted
      /\ file \in accepted \cup {Null}
  BY DEF ExportInv, ExportTypes
<1>6. Ends(op, how, file)
  BY <1>1, <1>2, <1>4, <1>5 DEF Ends
<1>7. how \in PE!Results
  BY DEF PE!Results
<1> QED BY <1>2, <1>3, <1>5, <1>6, <1>7, EndsKeep

-----------------------------------------------------------------------------
(* PrintExport: the pages of an operation *)

\* An operation that is due to go on is the oldest of the queue, unless the
\* queue has been mispopped.
LEMMA DueIsTheOldest ==
    ASSUME ExportInv, NEW op \in idle
    PROVE  /\ op \in accepted /\ op \in Exports /\ ~ InFlight(op) /\ op \notin sent
           /\ answers[op] = <<>> /\ ~ NotBegun(op)
           /\ op \in ToSet(export_queue) => op = Last(export_queue)
           /\ ~ mispopped => op \in ToSet(export_queue)
<1>1. op \in accepted /\ op \in Exports
  BY DEF ExportInv, ExportTypes
<1>2. ~ InFlight(op) /\ op \notin sent
  BY <1>1 DEF ExportInv, OneStageAtATime
<1>3. answers[op] = <<>>
  BY <1>1 DEF ExportInv, AnswersAreInStep
<1>4. ~ NotBegun(op) /\ (op \in ToSet(export_queue) => op = Last(export_queue))
  BY DEF ExportInv, YoungerHaveNotBegun, NotBegun
<1>5. ~ mispopped => op \in ToSet(export_queue)
  BY <1>1, <1>3 DEF ExportInv, QueueIsInStep
<1> QED BY <1>1, <1>2, <1>3, <1>4, <1>5

\* Nothing is due any more for an operation whose file is gone.
LEMMA NoPageKeeps ==
    ASSUME ExportInv, NEW op, idle' = idle \ {op},
           UNCHANGED <<settings, accepted, temp_file, sent, answers, export_queue,
                       window_queue, mispopped, job_export, done, stopped, due, file,
                       written, queued, taken, exported>>
    PROVE  ExportInv'
<1>1. \A o : InFlight(o)' <=> InFlight(o)
  BY DEF InFlight
<1>2. ExportTypes' /\ FilesAreWritten'
  BY DEF ExportInv, ExportTypes, FilesAreWritten
<1>3. OneStageAtATime' /\ YoungerHaveNotBegun'
  BY <1>1 DEF ExportInv, OneStageAtATime, YoungerHaveNotBegun, NotBegun
<1>4. WindowsListTheUnanswered' /\ AnswersAreInStep'
  BY <1>1 DEF ExportInv, WindowsListTheUnanswered, AnswersAreInStep, AnsweredCancel
<1>5. (~ mispopped => QueueIsInStep)'
  BY DEF ExportInv, QueueIsInStep
<1>6. (~ mispopped => StrayedHaveStopped /\ StraysAreSingle)'
  BY DEF ExportInv, StrayedHaveStopped, StraysAreSingle, AnsweredCancel
<1> QED BY <1>2, <1>3, <1>4, <1>5, <1>6 DEF ExportInv

\* The file goes to the printer.
LEMMA SendKeeps ==
    ASSUME ExportInv, NEW op \in idle, PE!Send(op),
           UNCHANGED <<settings, accepted, job_export, done, stopped, due, queued,
                       taken, exported>>
    PROVE  ExportInv'
<1>1. /\ sent' = sent \cup {op} /\ idle' = idle \ {op} /\ file' = Null
      /\ UNCHANGED <<temp_file, answers, export_queue, window_queue, mispopped, written>>
  BY DEF PE!Send, PE!queueVars
<1>2. /\ op \in accepted /\ op \in Exports /\ ~ InFlight(op) /\ op \notin sent
      /\ answers[op] = <<>> /\ ~ NotBegun(op)
      /\ op \in ToSet(export_queue) => op = Last(export_queue)
      /\ ~ mispopped => op \in ToSet(export_queue)
  BY DueIsTheOldest
<1>3. \A o : InFlight(o)' <=> InFlight(o)
  BY <1>1 DEF InFlight
<1>4. ExportTypes' /\ FilesAreWritten'
  BY <1>1, <1>2 DEF ExportInv, ExportTypes, FilesAreWritten
<1>5. OneStageAtATime'
  BY <1>1, <1>2, <1>3 DEF ExportInv, OneStageAtATime
<1>6. YoungerHaveNotBegun'
  BY <1>1, <1>2, <1>3 DEF ExportInv, YoungerHaveNotBegun, NotBegun
<1>7. WindowsListTheUnanswered' /\ AnswersAreInStep'
  BY <1>1, <1>2, <1>3 DEF ExportInv, WindowsListTheUnanswered, AnswersAreInStep,
                          AnsweredCancel
<1>8. (~ mispopped => QueueIsInStep)'
  BY <1>1, <1>2 DEF ExportInv, QueueIsInStep
<1>9. (~ mispopped => StrayedHaveStopped /\ StraysAreSingle)'
  BY <1>1 DEF ExportInv, StrayedHaveStopped, StraysAreSingle, AnsweredCancel
<1> QED BY <1>4, <1>5, <1>6, <1>7, <1>8, <1>9 DEF ExportInv

\* The next page goes to the scheduler.
LEMMA PushPageKeeps ==
    ASSUME ExportInv, NEW op \in idle, PE!PushPage(op),
           UNCHANGED <<settings, accepted, done, stopped, due, taken, exported>>
    PROVE  ExportInv'
<1>1. /\ job_export' = job_export \cup {op} /\ idle' = idle \ {op}
      /\ queued' = Append(queued, op)
      /\ UNCHANGED <<temp_file, sent, answers, export_queue, window_queue, mispopped,
                     file, written>>
  BY DEF PE!PushPage, PE!queueVars, PE!exporterVars
<1>2. /\ op \in accepted /\ op \in Exports /\ ~ InFlight(op) /\ op \notin sent
      /\ answers[op] = <<>> /\ ~ NotBegun(op)
      /\ op \in ToSet(export_queue) => op = Last(export_queue)
  BY DueIsTheOldest
<1>3. /\ queued' \in Seq(accepted) /\ IsInjective(queued')
      /\ ToSet(queued') = ToSet(queued) \cup {op}
  <2>1. queued \in Seq(accepted) /\ IsInjective(queued) /\ op \notin ToSet(queued)
    BY <1>2 DEF ExportInv, ExportTypes, InFlight
  <2> QED BY <1>1, <1>2, <2>1, AppendAdds
<1>4. \A o : o # op => (InFlight(o)' <=> InFlight(o))
  BY <1>1, <1>3 DEF InFlight
<1>5. ExportTypes' /\ FilesAreWritten'
  BY <1>1, <1>2, <1>3 DEF ExportInv, ExportTypes, FilesAreWritten
<1>6. OneStageAtATime'
  <2>1. op \notin due /\ taken # op /\ op \notin idle' \cup sent'
    BY <1>1, <1>2 DEF InFlight
  <2> QED BY <1>1, <1>3, <1>4, <2>1 DEF ExportInv, OneStageAtATime
<1>7. YoungerHaveNotBegun'
  BY <1>1, <1>2, <1>4 DEF ExportInv, YoungerHaveNotBegun, NotBegun
<1>8. WindowsListTheUnanswered' /\ AnswersAreInStep'
  BY <1>1, <1>2, <1>4 DEF ExportInv, WindowsListTheUnanswered, AnswersAreInStep,
                          AnsweredCancel
<1>9. (~ mispopped => QueueIsInStep)'
  BY <1>1 DEF ExportInv, QueueIsInStep
<1>10. (~ mispopped => StrayedHaveStopped /\ StraysAreSingle)'
  <2>1. ~ AnsweredCancel(op)
    BY <1>2 DEF AnsweredCancel, ToSet
  <2> QED BY <1>1, <1>3, <2>1
          DEF ExportInv, StrayedHaveStopped, StraysAreSingle, AnsweredCancel
<1> QED BY <1>5, <1>6, <1>7, <1>8, <1>9, <1>10 DEF ExportInv

\* An operation that cannot send its file ends.
LEMMA ConcludeKeeps ==
    ASSUME ExportInv, NEW op \in idle, NEW how \in {"apply", "error"},
           PE!Conclude(op, how),
           UNCHANGED <<settings, accepted, job_export, done, stopped, due, queued,
                       taken, exported>>
    PROVE  ExportInv'
<1>1. /\ temp_file' = temp_file \/ temp_file' = temp_file \ {op}
      /\ PE!Done(op, how) /\ PE!RunNext(op, temp_file', idle \ {op}, Null)
      /\ UNCHANGED sent
  BY DEF PE!Conclude
<1>2. /\ op \in accepted /\ ~ InFlight(op) /\ op \notin sent /\ ~ NotBegun(op)
  BY DueIsTheOldest
<1>3. /\ queued \in Seq(accepted) /\ IsInjective(queued)
      /\ done \cup stopped \subseteq accepted
  BY DEF ExportInv, ExportTypes
<1>4. Ends(op, how, Null)
  BY <1>1, <1>3 DEF Ends
<1>5. how \in PE!Results
  BY DEF PE!Results
<1> QED BY <1>1, <1>2, <1>4, <1>5, EndsKeep

\* An operation goes on: with a page, or it is printed.
LEMMA PrintPageKeeps ==
    ASSUME ExportInv, NEW op \in Exports, PE!PrintPage(op)
    PROVE  ExportInv'
<1>1. op \in idle /\ UNCHANGED <<settings, accepted, done, stopped, due, taken, exported>>
  BY DEF PE!PrintPage
<1>2. CASE op \notin temp_file
  <2>1. /\ idle' = idle \ {op}
        /\ UNCHANGED <<temp_file, sent, answers, export_queue, window_queue, mispopped,
                       job_export, file, written, queued>>
    BY <1>2 DEF PE!PrintPage, PE!queueVars, PE!exporterVars
  <2> QED BY <1>1, <2>1, NoPageKeeps
<1>3. CASE op \in temp_file /\ PE!PushPage(op)
  BY <1>1, <1>3, PushPageKeeps
<1>4. CASE op \in temp_file /\ PE!Send(op) /\ UNCHANGED <<job_export, queued>>
  BY <1>1, <1>4, SendKeeps
<1>5. ASSUME op \in temp_file, NEW how \in {"apply", "error"}, PE!Conclude(op, how),
             UNCHANGED <<job_export, queued>>
      PROVE  ExportInv'
  BY <1>1, <1>5, ConcludeKeeps
<1> QED BY <1>2, <1>3, <1>4, <1>5 DEF PE!PrintPage

\* Every step preserves ExportInv.
LEMMA NextExportInv == ExportInv /\ [PE!Next]_PE!vars => ExportInv'
<1> SUFFICES ASSUME ExportInv, [PE!Next]_PE!vars PROVE ExportInv'
  OBVIOUS
<1>1. ASSUME NEW op \in Exports, PE!Accept(op) PROVE ExportInv'
  BY <1>1, AcceptKeeps
<1>2. ASSUME NEW w \in Windows, PE!Cancel(w) PROVE ExportInv'
  BY <1>2, ExportCancelKeeps
<1>3. CASE PE!Worker
  BY <1>3, ExportTakeJobKeeps, ExportPageKeeps, ExportEndJobKeeps DEF PE!Worker
<1>4. ASSUME NEW op \in Exports, PE!PrintPage(op) PROVE ExportInv'
  BY <1>4, PrintPageKeeps
<1>5. ASSUME NEW op \in Exports, PE!JobFinished(op) PROVE ExportInv'
  BY <1>5, ExportJobFinishedKeeps
<1>6. ASSUME NEW op \in Exports, PE!PrinterAnswers(op) PROVE ExportInv'
  BY <1>6, PrinterAnswersKeeps
<1>7. CASE UNCHANGED PE!vars
  <2> USE <1>7 DEF PE!vars, PE!opVars, PE!queueVars, PE!jobVars, PE!workerVars,
                   PE!exporterVars
  <2>1. UNCHANGED <<settings, accepted, temp_file, idle, sent, answers, export_queue,
                    window_queue, mispopped, job_export, done, stopped, due, file,
                    written, queued, taken, exported>>
    OBVIOUS
  <2>2. ExportTypes' /\ FilesAreWritten'
    BY <2>1 DEF ExportInv, ExportTypes, FilesAreWritten
  <2>3. OneStageAtATime' /\ YoungerHaveNotBegun'
    BY <2>1 DEF ExportInv, OneStageAtATime, YoungerHaveNotBegun, NotBegun, InFlight
  <2>4. WindowsListTheUnanswered' /\ AnswersAreInStep'
    BY <2>1 DEF ExportInv, WindowsListTheUnanswered, AnswersAreInStep, AnsweredCancel,
                InFlight
  <2>5. (~ mispopped => QueueIsInStep)'
    BY <2>1 DEF ExportInv, QueueIsInStep
  <2>6. (~ mispopped => StrayedHaveStopped /\ StraysAreSingle)'
    BY <2>1 DEF ExportInv, StrayedHaveStopped, StraysAreSingle, AnsweredCancel
  <2> QED BY <2>2, <2>3, <2>4, <2>5, <2>6 DEF ExportInv
<1> QED BY <1>1, <1>2, <1>3, <1>4, <1>5, <1>6, <1>7
        DEF PE!Next, PE!User, PE!MainLoop, PE!Printer

LEMMA AlwaysExportInv == ExportsSpec => []ExportInv
<1>1. PE!Init => ExportInv
  BY InitExportInv
<1>2. ExportInv /\ [PE!Next]_PE!vars => ExportInv'
  BY NextExportInv
<1> QED BY <1>1, <1>2, PTL DEF ExportsSpec, PE!Spec

-----------------------------------------------------------------------------
(* PrintExport: the pages of an operation, one after the other *)

\* What After computes: from Start, one NextPlace after the other.
LEMMA AfterUnfolds ==
    ASSUME NEW s
    PROVE  /\ PE!After(s, 0) = PE!Start(s)
           /\ \A n \in Nat : PE!After(s, n + 1) = PE!NextPlace(s, PE!After(s, n)).at
<1> DEFINE Step(f, i) == IF i = 0 THEN PE!Start(s) ELSE PE!NextPlace(s, f[i - 1]).at
           Solves(f, n) == f = [i \in 0 .. n |-> Step(f, i)]
<1>1. ASSUME NEW n \in Nat, NEW g, Solves(g, n)
      PROVE  \E f : Solves(f, n + 1)
  <2> DEFINE f == [i \in 0 .. n + 1 |-> IF i = n + 1 THEN Step(g, n + 1) ELSE g[i]]
  <2>1. g[0] = PE!Start(s)
    BY <1>1
  <2>2. ASSUME NEW i \in 0 .. n + 1
        PROVE  f[i] = Step(f, i)
    <3>1. CASE i = n + 1
      <4>1. n \in 0 .. n + 1 /\ n # n + 1 /\ i - 1 = n /\ i # 0
        BY <3>1
      <4>2. f[n] = g[n] /\ f[i] = Step(g, n + 1)
        BY <3>1, <4>1
      <4> QED BY <3>1, <4>1, <4>2
    <3>2. CASE i # n + 1 /\ i # 0
      <4>1. i \in 0 .. n /\ i - 1 \in 0 .. n + 1 /\ i - 1 # n + 1
        BY <3>2
      <4>2. f[i] = g[i] /\ f[i - 1] = g[i - 1]
        BY <3>2, <4>1
      <4> QED BY <1>1, <3>2, <4>1, <4>2
    <3>3. CASE i = 0
      <4>1. 0 # n + 1
        OBVIOUS
      <4> QED BY <2>1, <3>3, <4>1
    <3> QED BY <3>1, <3>2, <3>3
  <2>3. Solves(f, n + 1)
    BY <2>2
  <2> HIDE DEF f
  <2> QED BY <2>3
<1>2. \E f : Solves(f, 0)
  <2> DEFINE f == [i \in 0 .. 0 |-> PE!Start(s)]
  <2>1. Solves(f, 0)
    OBVIOUS
  <2> HIDE DEF f
  <2> QED BY <2>1
<1>3. ASSUME NEW f, NEW g, NEW n \in Nat, NEW m \in Nat, Solves(f, n), Solves(g, m)
      PROVE  \A i \in Nat : i <= n /\ i <= m => f[i] = g[i]
  <2> DEFINE apart == {i \in Nat : i <= n /\ i <= m /\ f[i] # g[i]}
  <2>1. SUFFICES ASSUME apart # {} PROVE FALSE
    OBVIOUS
  <2>2. PICK i \in apart : \A k \in apart : i <= k
    <3>1. apart \in SUBSET Nat
      OBVIOUS
    <3> HIDE DEF apart
    <3> QED BY <2>1, <3>1, LeastNumber
  <2>3. i \in Nat /\ i <= n /\ i <= m /\ f[i] # g[i]
    BY <2>2
  <2>4. CASE i = 0
    <3>1. f[0] = PE!Start(s) /\ g[0] = PE!Start(s)
      BY <1>3
    <3> QED BY <2>3, <2>4, <3>1
  <2>5. CASE i # 0
    <3>1. i - 1 \in Nat /\ i - 1 <= n /\ i - 1 <= m /\ ~ (i <= i - 1)
      BY <2>3, <2>5
    <3>2. f[i - 1] = g[i - 1]
      BY <2>2, <3>1
    <3>3. i \in 0 .. n /\ i \in 0 .. m
      BY <2>3
    <3>4. f[i] = Step(f, i) /\ g[i] = Step(g, i)
      BY <1>3, <3>3
    <3> QED BY <2>3, <2>5, <3>2, <3>4
  <2> QED BY <2>4, <2>5
<1> DEFINE unsolved == {n \in Nat : ~ \E f : Solves(f, n)}
<1>4. unsolved = {}
  <2> HIDE DEF Solves
  <2>1. SUFFICES ASSUME unsolved # {} PROVE FALSE
    OBVIOUS
  <2>2. PICK n \in unsolved : \A k \in unsolved : n <= k
    <3>1. unsolved \in SUBSET Nat
      OBVIOUS
    <3> HIDE DEF unsolved
    <3> QED BY <2>1, <3>1, LeastNumber
  <2>3. n \in Nat /\ ~ \E f : Solves(f, n)
    BY <2>2
  <2>4. n - 1 \in Nat /\ ~ (n <= n - 1)
    BY <1>2, <2>3
  <2>5. PICK g : Solves(g, n - 1)
    BY <2>2, <2>4
  <2>6. \E f : Solves(f, (n - 1) + 1)
    BY <1>1, <2>4, <2>5
  <2> QED BY <2>3, <2>6
<1> DEFINE after(n) == CHOOSE f : Solves(f, n)
<1>5. \A n \in Nat : PE!After(s, n) = after(n)[n]
  BY DEF PE!After
<1> HIDE DEF Solves
<1>6. \A n \in Nat : Solves(after(n), n)
  BY <1>4
<1> HIDE DEF after
<1>7. PE!After(s, 0) = PE!Start(s)
  BY <1>5, <1>6 DEF Solves
<1>8. ASSUME NEW n \in Nat
      PROVE  PE!After(s, n + 1) = PE!NextPlace(s, PE!After(s, n)).at
  <2>1. n + 1 \in Nat /\ n <= n /\ n <= n + 1
    OBVIOUS
  <2>2. after(n + 1)[n] = after(n)[n]
    BY <1>3, <1>6, <2>1
  <2>3. after(n + 1)[n + 1] = Step(after(n + 1), n + 1)
    <3>1. n + 1 \in 0 .. n + 1
      OBVIOUS
    <3> QED BY <1>6, <2>1, <3>1 DEF Solves
  <2>4. n + 1 # 0 /\ (n + 1) - 1 = n
    OBVIOUS
  <2> QED BY <1>5, <2>1, <2>2, <2>3, <2>4
<1> QED BY <1>7, <1>8

\* The page of op is still to be drawn.
Ahead(op) == op \in ToSet(queued) \/ (taken = op /\ ~ exported)

\* The number of pages that an operation has in its file.
OwnPages(op) == Len(written[op]) - PE!Strayed(op)

\* Where it has come to with them.
TurnOf(op) == PE!After(settings[op], OwnPages(op))

\* An operation listens to its job until it ends.
JobsAreHeld ==
    \A op \in Exports : InFlight(op) /\ answers[op] = <<>> => op \in job_export

\* A job that goes on although its operation has ended is drawn before any page
\* of an operation that has not: it is the head of the queue and the worker is
\* free to take it; and a job that counts as finished is alone.
StragglersGoFirst ==
    /\ \A op \in ToSet(queued) :
         answers[op] # <<>> => op = Head(queued) /\ taken = Null
    /\ taken # Null /\ answers[taken] = <<>> => queued = <<>>
    /\ \A op \in done : answers[op] = <<>> =>
         ToSet(queued) \subseteq {op} /\ taken \in {Null, op}

\* Such a job finds the file of another operation empty.
StragglersFindNothing ==
    \A op \in Exports :
        Ahead(op) /\ answers[op] # <<>> /\ file \notin {Null, op} => written[file] = <<>>

\* A page of another operation is the first in a file.
StraysAreFirst ==
    \A op \in Exports : \A i \in DOMAIN written[op] : i = 1 \/ written[op][i].by = op

\* Who waits for its turn has nothing of its own yet.
YoungerHaveNothing ==
    /\ \A op \in Exports \ accepted : written[op] = <<>>
    /\ \A op \in ToSet(export_queue) : op # Last(export_queue) =>
        /\ op \notin done
        /\ written[op] = <<>>
        /\ place[op] = PE!Start(settings[op])

\* The pages of op in its file are those of the loops.
PagesAreTurns(op) ==
    \A n \in 1 .. OwnPages(op) :
        /\ PE!NextPlace(settings[op], PE!After(settings[op], n - 1)).more
        /\ written[op][n + PE!Strayed(op)].page = PE!After(settings[op], n).page

\* The loops are where the file is, or one page ahead.
PlaceIsTurn(op) ==
    LET next == PE!NextPlace(settings[op], TurnOf(op))
    IN  /\ answers[op] = <<>> /\ op \in idle \cup due => place[op] = TurnOf(op)
        /\ answers[op] = <<>> /\ taken = op /\ exported => place[op] = TurnOf(op)
        /\ Ahead(op) => /\ next.more /\ place[op] = next.at
                        /\ job_page[op] = next.at.page
        /\ PE!IsPrinted(op) => ~ next.more

\* What is added to ExportInv, as long as the right operations leave the queue.
InTurn ==
    /\ DOMAIN place = Exports /\ DOMAIN job_page = Exports
    /\ JobsAreHeld
    /\ StragglersGoFirst
    /\ StragglersFindNothing
    /\ StraysAreFirst
    /\ YoungerHaveNothing
    /\ \A op \in accepted : PagesAreTurns(op) /\ PlaceIsTurn(op)

PagesInv == ~ mispopped => InTurn

\* A queue is empty if nobody is in it.
LEMMA NobodyWaits ==
    ASSUME NEW S, NEW q \in Seq(S)
    PROVE  q = <<>> <=> ToSet(q) = {}
<1>1. CASE q = <<>>
  BY <1>1 DEF ToSet
<1>2. CASE q # <<>>
  <2>1. 1 \in DOMAIN q
    BY <1>2
  <2>2. q[1] \in ToSet(q)
    BY <2>1 DEF ToSet
  <2> QED BY <1>2, <2>2
<1> QED BY <1>1, <1>2

\* An operation that has begun and not ended is the oldest of the queue, and
\* the exporter has its file until it is sent.
LEMMA BegunIsTheOldest ==
    ASSUME ExportInv, ~ mispopped, NEW op \in accepted, answers[op] = <<>>, ~ NotBegun(op)
    PROVE  /\ op \in ToSet(export_queue) /\ export_queue # <<>> /\ op = Last(export_queue)
           /\ op \notin sent => file = op
<1>1. op \in ToSet(export_queue)
  BY DEF ExportInv, QueueIsInStep
<1>2. op = Last(export_queue)
  BY <1>1 DEF ExportInv, YoungerHaveNotBegun
<1>3. export_queue # <<>>
  BY <1>1, NobodyWaits DEF ExportInv, ExportTypes
<1> QED BY <1>1, <1>2, <1>3 DEF ExportInv, QueueIsInStep

\* Who is in a queue or has a job in flight is an accepted operation, and has
\* begun.
LEMMA InFlightHasBegun ==
    ASSUME ExportInv, NEW op, InFlight(op), op # Null
    PROVE  op \in accepted /\ op \in Exports /\ ~ NotBegun(op) /\ op \notin idle \cup sent
<1>1. op \in accepted /\ op \in Exports
  BY ExportQueuesAreOfAccepted DEF ExportInv, ExportTypes, InFlight
<1> QED BY <1>1 DEF ExportInv, OneStageAtATime, NotBegun

\* An operation whose file is as it was is where it was.
LEMMA SameFileSameTurn ==
    ASSUME NEW op, written'[op] = written[op], UNCHANGED settings
    PROVE  /\ PE!Strayed(op)' = PE!Strayed(op) /\ OwnPages(op)' = OwnPages(op)
           /\ TurnOf(op)' = TurnOf(op)
           /\ PagesAreTurns(op) => PagesAreTurns(op)'
BY DEF PE!Strayed, OwnPages, TurnOf, PagesAreTurns

\* An operation whose file is empty is at its start.
LEMMA EmptyFileFirstTurn ==
    ASSUME NEW op, written'[op] = <<>>, UNCHANGED settings
    PROVE  /\ OwnPages(op)' = 0 /\ TurnOf(op)' = PE!Start(settings[op])
           /\ PagesAreTurns(op)'
<1>1. OwnPages(op)' = 0
  BY DEF PE!Strayed, OwnPages
<1> QED BY <1>1, AfterUnfolds DEF TurnOf, PagesAreTurns

\* The place of an operation stays its turn if nothing about it changes.
LEMMA PlaceStaysTurn ==
    ASSUME NEW op, PlaceIsTurn(op), TurnOf(op)' = TurnOf(op),
           UNCHANGED <<settings, job_page>>,
           answers'[op] = answers[op], place'[op] = place[op],
           op \in idle' \cup due' => op \in idle \cup due \/ (taken = op /\ exported),
           taken' = op /\ exported' => taken = op /\ exported,
           Ahead(op)' => Ahead(op), op \in sent' => op \in sent
    PROVE  PlaceIsTurn(op)'
BY DEF PlaceIsTurn, PE!IsPrinted, PE!IsCancelled

\* Nothing is printed yet.
LEMMA InitInTurn == PE!Init => InTurn
<1> SUFFICES ASSUME PE!Init PROVE InTurn
  OBVIOUS
<1>1. /\ accepted = {} /\ done = {} /\ due = {} /\ taken = Null /\ queued = <<>>
      /\ export_queue = <<>>
      /\ DOMAIN place = Exports /\ DOMAIN job_page = Exports
      /\ \A op \in Exports : written[op] = <<>>
  BY DEF PE!Init
<1>2. ToSet(<<>>) = {}
  BY DEF ToSet
<1>3. \A op \in Exports : ~ InFlight(op) /\ ~ Ahead(op)
  BY <1>1, <1>2, ExportParameters DEF InFlight, Ahead
<1>4. DOMAIN <<>> = {}
  OBVIOUS
<1>5. JobsAreHeld /\ StragglersGoFirst /\ StragglersFindNothing
  BY <1>1, <1>2, <1>3 DEF JobsAreHeld, StragglersGoFirst, StragglersFindNothing
<1>6. StraysAreFirst /\ YoungerHaveNothing
  BY <1>1, <1>2, <1>4 DEF StraysAreFirst, YoungerHaveNothing
<1> QED BY <1>1, <1>5, <1>6 DEF InTurn

\* The worker takes the head of the queue: one that goes on although its
\* operation has ended, or the oldest.
LEMMA TakeJobInTurn ==
    ASSUME ExportInv, ~ mispopped, InTurn, PE!TakeJob
    PROVE  InTurn'
<1>1. /\ taken = Null /\ queued # <<>>
      /\ taken' = Head(queued) /\ queued' = Tail(queued) /\ exported' = FALSE
      /\ UNCHANGED <<settings, accepted, place, temp_file, idle, sent, answers,
                     export_queue, window_queue, mispopped, job_export, job_page, done,
                     stopped, due, file, written>>
  BY DEF PE!TakeJob, PE!opVars, PE!queueVars, PE!jobVars, PE!exporterVars
<1>2. /\ queued \in Seq(accepted) /\ IsInjective(queued)
      /\ ToSet(queued) \subseteq accepted /\ Null \notin accepted
      /\ accepted \subseteq Exports
  BY ExportQueuesAreOfAccepted DEF ExportInv, ExportTypes
<1>3. /\ taken' \in ToSet(queued) /\ taken' \in accepted
      /\ queued' \in Seq(accepted) /\ ToSet(queued') = ToSet(queued) \ {taken'}
  BY <1>1, <1>2, TailPops
<1>4. \A op \in Exports : Ahead(op)' => Ahead(op)
  BY <1>1, <1>3 DEF Ahead
<1>5. JobsAreHeld'
  <2>1. \A op \in Exports : InFlight(op)' => InFlight(op)
    BY <1>1, <1>3 DEF InFlight
  <2> QED BY <1>1, <2>1 DEF InTurn, JobsAreHeld
<1>6. StragglersGoFirst'
  <2>1. \A op \in ToSet(queued) : answers[op] # <<>> => op = taken'
    BY <1>1 DEF InTurn, StragglersGoFirst
  <2>2. ASSUME answers[taken'] = <<>>
        PROVE  queued' = <<>>
    <3>1. \A op \in ToSet(queued) : answers[op] = <<>>
      BY <2>1, <2>2
    <3>2. \A op \in ToSet(queued) : op = Last(export_queue)
      <4> SUFFICES ASSUME NEW op \in ToSet(queued) PROVE op = Last(export_queue)
        OBVIOUS
      <4>1. op \in accepted /\ InFlight(op) /\ op # Null
        BY <1>2 DEF InFlight
      <4> QED BY <3>1, <4>1, InFlightHasBegun, BegunIsTheOldest
    <3>3. ToSet(queued') = {}
      BY <1>3, <3>2
    <3> QED BY <1>3, <3>3, NobodyWaits
  <2>3. \A op \in done : answers[op] = <<>> =>
          ToSet(queued') \subseteq {op} /\ taken' \in {Null, op}
    BY <1>3 DEF InTurn, StragglersGoFirst
  <2> QED BY <1>1, <1>3, <2>1, <2>2, <2>3 DEF StragglersGoFirst
<1>7. StragglersFindNothing' /\ StraysAreFirst' /\ YoungerHaveNothing'
  BY <1>1, <1>4 DEF InTurn, StragglersFindNothing, StraysAreFirst, YoungerHaveNothing
<1>8. ASSUME NEW op \in accepted
      PROVE  PagesAreTurns(op)' /\ PlaceIsTurn(op)'
  <2>1. PagesAreTurns(op)' /\ TurnOf(op)' = TurnOf(op)
    BY <1>1, SameFileSameTurn DEF InTurn
  <2>2. PlaceIsTurn(op)'
    <3>1. PlaceIsTurn(op) /\ op \in Exports
      BY <1>2 DEF InTurn
    <3> QED BY <1>1, <1>4, <2>1, <3>1, PlaceStaysTurn
  <2> QED BY <2>1, <2>2
<1> QED BY <1>1, <1>5, <1>6, <1>7, <1>8 DEF InTurn

\* What a page adds to the file that is open.
LEMMA ExportPageAppends ==
    ASSUME ExportInv, PE!ExportPage, file # Null
    PROVE  /\ file \in accepted /\ \A op \in Exports \ {file} : written'[op] = written[op]
           /\ Len(written[file]) \in Nat /\ (written[file] = <<>> <=> Len(written[file]) = 0)
           /\ written'[file] # <<>> /\ Len(written'[file]) = Len(written[file]) + 1
           /\ DOMAIN written'[file] = 1 .. Len(written[file]) + 1
           /\ \A i \in 1 .. Len(written[file]) : written'[file][i] = written[file][i]
           /\ written'[file][Len(written[file]) + 1] = [page |-> job_page[taken], by |-> taken]
<1> DEFINE r == [page |-> job_page[taken], by |-> taken]
           q == written[file]
<1>1. /\ file \in Exports /\ file \in accepted
      /\ written' = [written EXCEPT ![file] = Append(@, r)]
      /\ DOMAIN written = Exports
  BY DEF ExportInv, ExportTypes, FilesAreWritten, PE!ExportPage
<1>2. PICK S : q \in Seq(S)
  BY <1>1 DEF ExportInv, FilesAreWritten
<1>3. /\ written'[file] = Append(q, r)
      /\ \A op \in Exports \ {file} : written'[op] = written[op]
  BY <1>1
<1> HIDE DEF r, q
<1>4. PICK T : Append(q, r) \in Seq(T)
  BY <1>2, AppendIsASequence
<1>5. /\ Len(q) \in Nat
      /\ DOMAIN Append(q, r) = 1 .. Len(q) + 1
      /\ \A i \in 1 .. Len(q) : Append(q, r)[i] = q[i]
      /\ Append(q, r)[Len(q) + 1] = r
  BY <1>2, AppendIsASequence
<1>6. q = <<>> <=> Len(q) = 0
  BY <1>2
<1>7. Len(Append(q, r)) = Len(q) + 1 /\ Append(q, r) # <<>>
  BY <1>4, <1>5
<1>8. r = [page |-> job_page[taken], by |-> taken]
  BY DEF r
<1> QED BY <1>1, <1>3, <1>5, <1>6, <1>7, <1>8 DEF q

\* A page counts for the operation whose file it is, if it has drawn it, and
\* for nobody else.
LEMMA ExportPageTurns ==
    ASSUME ExportInv, ~ mispopped, InTurn, PE!ExportPage, file # Null
    PROVE  /\ file = taken => /\ OwnPages(file)' = OwnPages(file) + 1
                              /\ TurnOf(file)' = PE!NextPlace(settings[file], TurnOf(file)).at
           /\ file # taken => TurnOf(file)' = TurnOf(file)
           /\ PagesAreTurns(file)'
           /\ \A i \in DOMAIN written'[file] : i = 1 \/ written'[file][i].by = file
<1> DEFINE n == Len(written[file])
           r == [page |-> job_page[taken], by |-> taken]
<1>1. /\ file \in accepted /\ n \in Nat /\ (written[file] = <<>> <=> n = 0)
      /\ written'[file] # <<>> /\ Len(written'[file]) = n + 1
      /\ DOMAIN written'[file] = 1 .. n + 1
      /\ \A i \in 1 .. n : written'[file][i] = written[file][i]
      /\ written'[file][n + 1] = r
  BY ExportPageAppends
<1>2. r.page = job_page[taken] /\ r.by = taken
  OBVIOUS
<1>3. /\ taken # Null /\ ~ exported /\ UNCHANGED <<settings, file>>
      /\ taken \in accepted /\ file \in Exports /\ Ahead(taken)
  BY <1>1 DEF PE!ExportPage, PE!opVars, ExportInv, ExportTypes, Ahead
<1>4. DOMAIN written[file] = 1 .. n
  <2>1. PICK S : written[file] \in Seq(S)
    BY <1>3 DEF ExportInv, FilesAreWritten
  <2> QED BY <2>1
<1>5. PagesAreTurns(file) /\ PlaceIsTurn(taken)
  BY <1>1, <1>3 DEF InTurn
<1> HIDE DEF n, r
<1>6. CASE file = taken
  <2>1. PE!Strayed(file)' = PE!Strayed(file) /\ PE!Strayed(file) \in Nat
    <3>1. CASE n = 0
      BY <1>1, <1>2, <1>3, <1>6, <3>1 DEF PE!Strayed
    <3>2. CASE n # 0
      <4>1. 1 \in 1 .. n
        BY <1>1, <3>2
      <4>2. written'[file][1] = written[file][1]
        BY <1>1, <4>1
      <4> QED BY <1>1, <1>3, <3>2, <4>2 DEF PE!Strayed
    <3> QED BY <3>1, <3>2
  <2>2. OwnPages(file)' = OwnPages(file) + 1 /\ OwnPages(file) + PE!Strayed(file) = n
    BY <1>1, <1>3, <2>1 DEF OwnPages, n
  <2>3. OwnPages(file) \in Nat
    <3>1. PE!Strayed(file) = 0 \/ (PE!Strayed(file) = 1 /\ n # 0)
      BY <1>1 DEF PE!Strayed
    <3>2. OwnPages(file) = n - PE!Strayed(file)
      BY DEF OwnPages, n
    <3> QED BY <1>1, <3>1, <3>2
  <2>4. PE!After(settings[file], OwnPages(file) + 1) =
          PE!NextPlace(settings[file], TurnOf(file)).at
    BY <2>3, AfterUnfolds DEF TurnOf
  <2>5. TurnOf(file)' = PE!NextPlace(settings[file], TurnOf(file)).at
    BY <1>3, <2>2, <2>4 DEF TurnOf
  <2>6. /\ PE!NextPlace(settings[file], TurnOf(file)).more
        /\ job_page[taken] = PE!NextPlace(settings[file], TurnOf(file)).at.page
    BY <1>3, <1>5, <1>6 DEF PlaceIsTurn
  <2>7. ASSUME NEW k \in 1 .. OwnPages(file) + 1
        PROVE  /\ PE!NextPlace(settings[file], PE!After(settings[file], k - 1)).more
               /\ written'[file][k + PE!Strayed(file)].page = PE!After(settings[file], k).page
    <3>1. CASE k = OwnPages(file) + 1
      <4>1. k - 1 = OwnPages(file) /\ k + PE!Strayed(file) = n + 1
        BY <2>1, <2>2, <2>3, <3>1
      <4> QED BY <1>1, <1>2, <2>4, <2>6, <3>1, <4>1 DEF TurnOf
    <3>2. CASE k # OwnPages(file) + 1
      <4>1. k \in 1 .. OwnPages(file) /\ k + PE!Strayed(file) \in 1 .. n
        BY <2>1, <2>2, <2>3, <3>2
      <4>2. written'[file][k + PE!Strayed(file)] = written[file][k + PE!Strayed(file)]
        BY <1>1, <4>1
      <4> QED BY <1>5, <4>1, <4>2 DEF PagesAreTurns
    <3> QED BY <3>1, <3>2
  <2>8. PagesAreTurns(file)'
    BY <1>3, <2>1, <2>2, <2>7 DEF PagesAreTurns
  <2>9. \A i \in DOMAIN written'[file] : i = 1 \/ written'[file][i].by = file
    <3> SUFFICES ASSUME NEW i \in 1 .. n + 1, i # 1
                 PROVE  written'[file][i].by = file
      BY <1>1
    <3>1. CASE i = n + 1
      BY <1>1, <1>2, <1>6, <3>1
    <3>2. CASE i # n + 1
      <4>1. i \in 1 .. n
        BY <1>1, <3>2
      <4> QED BY <1>1, <1>3, <1>4, <4>1 DEF InTurn, StraysAreFirst
    <3> QED BY <3>1, <3>2
  <2> QED BY <1>6, <2>2, <2>5, <2>8, <2>9
<1>7. CASE file # taken
  <2>1. answers[taken] # <<>>
    <3>1. AnsweredCancel(taken)
      BY <1>3, <1>7, UnansweredWriteTheirFile
    <3> QED BY <3>1 DEF AnsweredCancel, ToSet
  <2>2. written[file] = <<>> /\ n = 0
    <3>1. taken \in Exports
      BY <1>3 DEF ExportInv, ExportTypes
    <3> QED BY <1>1, <1>3, <1>7, <2>1, <3>1 DEF InTurn, StragglersFindNothing
  <2>3. PE!Strayed(file)' = 1 /\ OwnPages(file)' = 0
    <3>1. Len(written'[file]) = 1 /\ written'[file][1] = r
      BY <1>1, <2>2
    <3>2. PE!Strayed(file)' = 1
      BY <1>1, <1>2, <1>3, <1>7, <3>1 DEF PE!Strayed
    <3> QED BY <1>3, <3>1, <3>2 DEF OwnPages
  <2>4. OwnPages(file) = 0
    BY <1>1, <2>2 DEF PE!Strayed, OwnPages, n
  <2>5. TurnOf(file)' = TurnOf(file) /\ PagesAreTurns(file)'
    BY <1>3, <2>3, <2>4 DEF TurnOf, PagesAreTurns
  <2> QED BY <1>1, <1>7, <2>2, <2>5
<1> QED BY <1>6, <1>7

\* The worker exports a page: its operation is where its loops are again.
LEMMA ExportPageInTurn ==
    ASSUME ExportInv, ~ mispopped, InTurn, PE!ExportPage
    PROVE  InTurn'
<1>1. /\ taken # Null /\ ~ exported /\ exported' = TRUE /\ done' = done \ {taken}
      /\ UNCHANGED <<settings, accepted, place, temp_file, idle, sent, answers,
                     export_queue, window_queue, mispopped, job_export, job_page,
                     stopped, due, queued, taken, file>>
  BY DEF PE!ExportPage, PE!opVars, PE!queueVars
<1>2. /\ taken \in accepted /\ taken \in Exports /\ InFlight(taken) /\ ~ NotBegun(taken)
      /\ taken \notin idle \cup sent \cup due /\ taken \notin ToSet(queued)
      /\ accepted \subseteq Exports /\ Null \notin accepted
      /\ ToSet(queued) \subseteq accepted /\ ToSet(export_queue) \subseteq accepted
  <2>1. InFlight(taken)
    BY DEF InFlight
  <2> QED BY <1>1, <2>1, InFlightHasBegun, ExportQueuesAreOfAccepted
          DEF ExportInv, OneStageAtATime
<1>3. \A op \in Exports \ {file} : written'[op] = written[op]
  <2>1. CASE file = Null
    BY <2>1 DEF PE!ExportPage
  <2>2. CASE file # Null
    BY <2>2, ExportPageAppends
  <2> QED BY <2>1, <2>2
<1>4. \A op \in Exports : Ahead(op)' => Ahead(op) /\ op # taken
  BY <1>1, <1>2 DEF Ahead
<1>5. JobsAreHeld' /\ StragglersGoFirst'
  BY <1>1 DEF InTurn, JobsAreHeld, InFlight, StragglersGoFirst
<1>6. StragglersFindNothing'
  BY <1>1 DEF InTurn, StragglersGoFirst, StragglersFindNothing, Ahead
<1>7. StraysAreFirst'
  <2>1. file # Null => \A i \in DOMAIN written'[file] : i = 1 \/ written'[file][i].by = file
    BY ExportPageTurns
  <2>2. \A op \in Exports \ {file} :
          \A i \in DOMAIN written'[op] : i = 1 \/ written'[op][i].by = op
    BY <1>3 DEF InTurn, StraysAreFirst
  <2> QED BY <2>1, <2>2, ExportParameters DEF StraysAreFirst
<1>8. YoungerHaveNothing'
  <2>1. \A op \in Exports \ accepted : written'[op] = <<>>
    BY <1>3, ExportParameters DEF InTurn, YoungerHaveNothing, ExportInv, ExportTypes
  <2>2. ASSUME NEW op \in ToSet(export_queue), op # Last(export_queue)
        PROVE  op \notin done' /\ written'[op] = <<>> /\ place[op] = PE!Start(settings[op])
    <3>1. export_queue # <<>>
      BY <2>2, NobodyWaits DEF ExportInv, ExportTypes
    <3>2. op # file /\ op \in Exports
      BY <1>2, <2>2, <3>1 DEF ExportInv, QueueIsInStep
    <3> QED BY <1>1, <1>3, <2>2, <3>2 DEF InTurn, YoungerHaveNothing
  <2> QED BY <1>1, <2>1, <2>2 DEF YoungerHaveNothing
<1>9. ASSUME NEW op \in accepted
      PROVE  PagesAreTurns(op)' /\ PlaceIsTurn(op)'
  <2>1. PlaceIsTurn(op) /\ PagesAreTurns(op) /\ op \in Exports /\ op # Null
    BY <1>2 DEF InTurn
  <2>2. op # file => PagesAreTurns(op)' /\ TurnOf(op)' = TurnOf(op)
    BY <1>1, <1>3, <2>1, SameFileSameTurn
  <2>3. /\ op = file => PagesAreTurns(op)'
        /\ op = file /\ op # taken => TurnOf(op)' = TurnOf(op)
        /\ op = file /\ op = taken =>
             TurnOf(op)' = PE!NextPlace(settings[op], TurnOf(op)).at
    BY <1>1, <2>1, ExportPageTurns
  <2>4. CASE op # taken
    <3>1. TurnOf(op)' = TurnOf(op)
      BY <2>2, <2>3, <2>4
    <3>2. PlaceIsTurn(op)'
      BY <1>1, <1>4, <2>1, <2>4, <3>1, PlaceStaysTurn
    <3> QED BY <2>2, <2>3, <3>2
  <2>5. CASE op = taken
    <3>1. answers[op] = <<>> => file = op
      BY <1>2, <2>5, BegunIsTheOldest
    <3>2. answers[op] = <<>> => place[op] = TurnOf(op)'
      BY <1>1, <2>1, <2>3, <2>5, <3>1 DEF PlaceIsTurn, Ahead
    <3>3. ~ Ahead(op)'
      BY <1>4, <2>1, <2>5
    <3>4. ~ PE!IsPrinted(op)'
      <4>1. answers[op] = <<>> \/ AnsweredCancel(op)
        BY <1>2, <2>1, <2>5 DEF ExportInv, AnswersAreInStep
      <4>2. PE!IsCancelled(op)' <=> AnsweredCancel(op)
        BY <1>1, ExportOperators DEF PE!IsCancelled, AnsweredCancel
      <4>3. PE!Range(<<>>) = {}
        BY ExportOperators DEF ToSet
      <4> QED BY <1>1, <1>2, <2>5, <4>1, <4>2, <4>3 DEF PE!IsPrinted
    <3>5. PlaceIsTurn(op)'
      BY <1>1, <3>2, <3>3, <3>4 DEF PlaceIsTurn
    <3> QED BY <2>2, <2>3, <3>5
  <2> QED BY <2>4, <2>5
<1>10. DOMAIN place' = Exports /\ DOMAIN job_page' = Exports
  BY <1>1 DEF InTurn
<1> QED BY <1>1, <1>5, <1>6, <1>7, <1>8, <1>9, <1>10 DEF InTurn

\* The worker is done with a job: one that counts as finished is alone.
LEMMA EndJobInTurn ==
    ASSUME ExportInv, ~ mispopped, InTurn, PE!EndJob
    PROVE  InTurn'
<1>1. /\ exported /\ taken # Null /\ taken' = Null /\ exported' = FALSE
      /\ \/ UNCHANGED <<done, due>>
         \/ done' = done \cup {taken} /\ due' = due \cup {taken}
      /\ UNCHANGED <<settings, accepted, place, temp_file, idle, sent, answers,
                     export_queue, window_queue, mispopped, job_export, job_page,
                     stopped, file, written, queued>>
  BY DEF PE!EndJob, PE!opVars, PE!queueVars, PE!exporterVars
<1>2. /\ taken \in accepted /\ ~ NotBegun(taken)
      /\ accepted \subseteq Exports /\ Null \notin accepted /\ Null \notin Exports
  <2>1. InFlight(taken)
    BY DEF InFlight
  <2> QED BY <1>1, <2>1, InFlightHasBegun, ExportQueuesAreOfAccepted, ExportParameters
          DEF ExportInv
<1>3. \A op \in Exports : /\ InFlight(op)' => InFlight(op)
                          /\ Ahead(op)' => Ahead(op)
  BY <1>1, <1>2 DEF InFlight, Ahead
<1>4. JobsAreHeld'
  BY <1>1, <1>3 DEF InTurn, JobsAreHeld
<1>5. StragglersGoFirst'
  <2>1. answers[taken] = <<>> => ToSet(queued) = {}
    BY <1>1, NobodyWaits DEF InTurn, StragglersGoFirst, ExportInv, ExportTypes
  <2> QED BY <1>1, <2>1 DEF InTurn, StragglersGoFirst
<1>6. StragglersFindNothing' /\ StraysAreFirst'
  BY <1>1, <1>3 DEF InTurn, StragglersFindNothing, StraysAreFirst
<1>7. YoungerHaveNothing'
  <2>1. \A op \in ToSet(export_queue) : op # Last(export_queue) => op # taken
    BY <1>2 DEF ExportInv, YoungerHaveNotBegun
  <2> QED BY <1>1, <2>1 DEF InTurn, YoungerHaveNothing
<1>8. ASSUME NEW op \in accepted
      PROVE  PagesAreTurns(op)' /\ PlaceIsTurn(op)'
  <2>1. PagesAreTurns(op)' /\ TurnOf(op)' = TurnOf(op)
    BY <1>1, SameFileSameTurn DEF InTurn
  <2>2. PlaceIsTurn(op)'
    <3>1. PlaceIsTurn(op) /\ op \in Exports /\ op # Null
      BY <1>2 DEF InTurn
    <3> QED BY <1>1, <1>3, <2>1, <3>1, PlaceStaysTurn
  <2> QED BY <2>1, <2>2
<1> QED BY <1>1, <1>4, <1>5, <1>6, <1>7, <1>8 DEF InTurn

\* A job reports: its operation goes on from the page it has drawn.
LEMMA JobFinishedInTurn ==
    ASSUME ExportInv, ~ mispopped, InTurn, NEW op \in Exports, PE!JobFinished(op)
    PROVE  InTurn'
<1>1. /\ op \in due /\ due' = due \ {op}
      /\ idle' = idle \/ idle' = idle \cup {op}
      /\ UNCHANGED <<settings, accepted, place, temp_file, sent, answers, export_queue,
                     window_queue, mispopped, job_export, job_page, done, stopped, file,
                     written, queued, taken, exported>>
  BY DEF PE!JobFinished, PE!queueVars, PE!workerVars, PE!exporterVars
<1>2. \A o : /\ InFlight(o)' => InFlight(o)
             /\ Ahead(o)' <=> Ahead(o)
  BY <1>1 DEF InFlight, Ahead
<1>3. JobsAreHeld' /\ StragglersGoFirst' /\ StragglersFindNothing'
  BY <1>1, <1>2 DEF InTurn, JobsAreHeld, StragglersGoFirst, StragglersFindNothing
<1>4. StraysAreFirst' /\ YoungerHaveNothing'
  BY <1>1 DEF InTurn, StraysAreFirst, YoungerHaveNothing
<1>5. ASSUME NEW o \in accepted
      PROVE  PagesAreTurns(o)' /\ PlaceIsTurn(o)'
  <2>1. PagesAreTurns(o)' /\ TurnOf(o)' = TurnOf(o)
    BY <1>1, SameFileSameTurn DEF InTurn
  <2>2. PlaceIsTurn(o)'
    <3>1. PlaceIsTurn(o)
      BY DEF InTurn
    <3> QED BY <1>1, <1>2, <2>1, <3>1, PlaceStaysTurn
  <2> QED BY <2>1, <2>2
<1> QED BY <1>1, <1>3, <1>4, <1>5 DEF InTurn

\* The user accepts a print dialog: the operation is at its start.
LEMMA AcceptInTurn ==
    ASSUME ExportInv, ~ mispopped, InTurn, NEW op \in Exports, PE!Accept(op)
    PROVE  InTurn'
<1> DEFINE next == IF export_queue = <<>> THEN op ELSE Null
<1>1. /\ op \notin accepted /\ accepted' = accepted \cup {op}
      /\ place' = [place EXCEPT ![op] = PE!Start(settings[op])]
      /\ temp_file' = temp_file \cup {op}
      /\ PE!Begin(next, temp_file', idle, file)
      /\ export_queue' = <<op>> \o export_queue
      /\ UNCHANGED <<settings, sent, answers, mispopped, job_export, job_page, done,
                     stopped, due, queued, taken, exported>>
  BY DEF PE!Accept, PE!jobVars, PE!workerVars
<1>2. /\ ToSet(queued) \subseteq accepted /\ ToSet(export_queue) \subseteq accepted
      /\ accepted \subseteq Exports /\ Null \notin temp_file' /\ op # Null
      /\ taken \in accepted \cup {Null} /\ done \cup due \cup idle \cup sent \subseteq accepted
  BY <1>1, ExportQueuesAreOfAccepted, ExportParameters DEF ExportInv, ExportTypes
<1>3. /\ export_queue = <<>> =>
           /\ file' = op /\ idle' = idle \cup {op}
           /\ written' = [written EXCEPT ![op] = <<>>]
      /\ export_queue # <<>> => UNCHANGED <<file, idle, written>>
  <2>1. next \in temp_file' <=> export_queue = <<>>
    BY <1>1, <1>2
  <2> HIDE DEF next
  <2>2. /\ next \in temp_file' =>
             /\ file' = next /\ idle' = idle \cup {next}
             /\ written' = [written EXCEPT ![next] = <<>>]
        /\ next \notin temp_file' => file' = file /\ idle' = idle /\ written' = written
    BY <1>1, BeginBegins
  <2> QED BY <2>1, <2>2 DEF next
<1> HIDE DEF next
<1>4. /\ ToSet(export_queue') = ToSet(export_queue) \cup {op}
      /\ Last(export_queue') = IF export_queue = <<>> THEN op ELSE Last(export_queue)
  <2>1. export_queue \in Seq(accepted') /\ op \in accepted' /\ op \notin ToSet(export_queue)
    BY <1>1, <1>2, SequencesOfMore DEF ExportInv, ExportTypes
  <2> QED BY <1>1, <2>1, PrependAdds DEF ExportInv, ExportTypes
<1>5. /\ DOMAIN place' = Exports /\ place'[op] = PE!Start(settings[op])
      /\ \A o \in Exports \ {op} : place'[o] = place[o]
      /\ written'[op] = <<>>
      /\ \A o \in Exports \ {op} : written'[o] = written[o]
  BY <1>1, <1>3 DEF InTurn, YoungerHaveNothing, ExportInv, FilesAreWritten
<1>6. \A o : (InFlight(o)' <=> InFlight(o)) /\ (Ahead(o)' <=> Ahead(o))
  BY <1>1 DEF InFlight, Ahead
<1>7. ~ InFlight(op) /\ ~ Ahead(op)
  BY <1>1, <1>2 DEF InFlight, Ahead
<1>8. JobsAreHeld' /\ StragglersGoFirst'
  BY <1>1, <1>6 DEF InTurn, JobsAreHeld, StragglersGoFirst
<1>9. StragglersFindNothing'
  <2>1. file' = op \/ UNCHANGED <<file, written>>
    BY <1>3
  <2> QED BY <1>1, <1>5, <1>6, <2>1 DEF InTurn, StragglersFindNothing
<1>10. StraysAreFirst'
  <2>1. DOMAIN <<>> = {}
    OBVIOUS
  <2> QED BY <1>5, <2>1 DEF InTurn, StraysAreFirst
<1>11. YoungerHaveNothing'
  <2>1. \A o \in Exports \ accepted' : written'[o] = <<>>
    BY <1>1, <1>5 DEF InTurn, YoungerHaveNothing
  <2>2. ASSUME NEW o \in ToSet(export_queue'), o # Last(export_queue')
        PROVE  o \notin done /\ written'[o] = <<>> /\ place'[o] = PE!Start(settings[o])
    <3>1. export_queue # <<>>
      <4>1. ToSet(<<>>) = {}
        BY DEF ToSet
      <4> QED BY <1>4, <2>2, <4>1
    <3>2. CASE o = op
      BY <1>1, <1>2, <1>5, <3>2
    <3>3. CASE o # op
      <4>1. o \in ToSet(export_queue) /\ o # Last(export_queue) /\ o \in Exports
        BY <1>2, <1>4, <2>2, <3>1, <3>3
      <4> QED BY <1>5, <3>3, <4>1 DEF InTurn, YoungerHaveNothing
    <3> QED BY <3>2, <3>3
  <2> QED BY <1>1, <2>1, <2>2 DEF YoungerHaveNothing
<1>12. ASSUME NEW o \in accepted'
       PROVE  PagesAreTurns(o)' /\ PlaceIsTurn(o)'
  <2>1. CASE o = op
    <3>1. TurnOf(op)' = PE!Start(settings[op]) /\ PagesAreTurns(op)'
      BY <1>1, <1>5, EmptyFileFirstTurn
    <3>2. op \notin sent' /\ answers'[op] = <<>>
      BY <1>1, <1>2 DEF ExportInv, AnswersAreInStep
    <3>3. ~ PE!IsPrinted(op)'
      <4>1. PE!Range(<<>>) = {}
        BY ExportOperators DEF ToSet
      <4> QED BY <3>2, <4>1 DEF PE!IsPrinted
    <3>4. taken' # op /\ ~ Ahead(op)'
      BY <1>1, <1>2, <1>6, <1>7
    <3>5. PlaceIsTurn(op)'
      BY <1>5, <3>1, <3>3, <3>4 DEF PlaceIsTurn
    <3> QED BY <2>1, <3>1, <3>5
  <2>2. CASE o # op
    <3>1. o \in accepted /\ o \in Exports /\ PagesAreTurns(o) /\ PlaceIsTurn(o)
      BY <1>1, <1>2, <2>2 DEF InTurn
    <3>2. PagesAreTurns(o)' /\ TurnOf(o)' = TurnOf(o)
      BY <1>1, <1>5, <2>2, <3>1, SameFileSameTurn
    <3>3. o \in idle' => o \in idle
      BY <1>3, <2>2
    <3>4. PlaceIsTurn(o)'
      BY <1>1, <1>5, <1>6, <2>2, <3>1, <3>2, <3>3, PlaceStaysTurn
    <3> QED BY <3>2, <3>4
  <2> QED BY <2>1, <2>2
<1> QED BY <1>1, <1>5, <1>8, <1>9, <1>10, <1>11, <1>12 DEF InTurn

\* The end of an operation keeps InTurn: if its job goes on, it is one that
\* counts as finished, and if it is printed, it has no more pages.
LEMMA EndsInTurn ==
    ASSUME ExportInv, InTurn, ~ mispopped', NEW op \in accepted, NEW how \in PE!Results,
           NEW open, Ends(op, how, open), open = Null \/ open = file,
           UNCHANGED <<done, job_page>>, job_export \ {op} \subseteq job_export',
           queued' = queued \/ (answers[op] = <<>> /\ op \notin ToSet(queued')),
           op \in ToSet(queued') => answers[op] = <<>> /\ op \in done,
           DOMAIN place' = Exports, \A o \in Exports \ {op} : place'[o] = place[o],
           InFlight(op) => place'[op] = place[op],
           PE!IsPrinted(op)' => ~ PE!NextPlace(settings[op], TurnOf(op)).more
    PROVE  InTurn'
<1>1. /\ ExportTypes /\ FilesAreWritten
      /\ ToSet(export_queue) \subseteq accepted /\ ToSet(queued) \subseteq accepted
      /\ accepted \subseteq Exports /\ temp_file' \subseteq accepted /\ Null \notin accepted
  BY ExportQueuesAreOfAccepted DEF ExportInv, ExportTypes, Ends
<1>2. /\ answers'[op] # <<>> /\ \A o \in Exports \ {op} : answers'[o] = answers[o]
      /\ \A o \in Exports : answers[o] # <<>> => answers'[o] # <<>>
  BY <1>1, DoneAnswers DEF Ends
<1>3. /\ export_queue = <<>> => ToSet(export_queue') = {}
      /\ export_queue # <<>> =>
           ToSet(export_queue') = ToSet(export_queue) \ {Last(export_queue)}
      /\ \/ /\ Last(export_queue') \in ToSet(export_queue')
            /\ file' = Last(export_queue')
            /\ idle' = (idle \ {op}) \cup {Last(export_queue')}
            /\ written' = [written EXCEPT ![Last(export_queue')] = <<>>]
         \/ file' = open /\ idle' = idle \ {op} /\ written' = written
      /\ ~ mispopped /\ (export_queue = <<>> \/ op = Last(export_queue))
  BY <1>1, RunNextBegins DEF Ends
<1>4. /\ sent' \subseteq sent
      /\ queued' \in Seq(accepted) /\ IsInjective(queued')
      /\ ToSet(queued') \subseteq ToSet(queued)
      /\ UNCHANGED <<settings, accepted, due, taken, exported>>
  BY DEF Ends
<1>5. \A o : (InFlight(o)' => InFlight(o)) /\ (Ahead(o)' => Ahead(o))
  BY <1>4 DEF InFlight, Ahead
<1>6. \A o \in ToSet(export_queue') :
        /\ o \in ToSet(export_queue) /\ o # Last(export_queue) /\ o # op /\ NotBegun(o)
        /\ o \in accepted /\ o \in Exports /\ answers[o] = <<>>
        /\ o \notin done /\ written[o] = <<>> /\ place[o] = PE!Start(settings[o])
  <2> SUFFICES ASSUME NEW o \in ToSet(export_queue')
               PROVE  /\ o \in ToSet(export_queue) /\ o # Last(export_queue) /\ o # op
                      /\ NotBegun(o) /\ o \in accepted /\ o \in Exports
                      /\ answers[o] = <<>> /\ o \notin done /\ written[o] = <<>>
                      /\ place[o] = PE!Start(settings[o])
    OBVIOUS
  <2>1. o \in ToSet(export_queue) /\ o # Last(export_queue) /\ o # op
    BY <1>3
  <2>2. NotBegun(o) /\ answers[o] = <<>>
    BY <1>3, <2>1 DEF ExportInv, YoungerHaveNotBegun, QueueIsInStep
  <2> QED BY <1>1, <2>1, <2>2 DEF InTurn, YoungerHaveNothing
<1>7. \A o \in Exports : written'[o] = written[o] \/ (o = file' /\ written'[o] = <<>>)
  BY <1>3, <1>6 DEF ExportInv, FilesAreWritten
<1>8. \A o \in accepted : o # op /\ answers[o] = <<>> => NotBegun(o)
  <2> SUFFICES ASSUME NEW o \in accepted, o # op, answers[o] = <<>>, ~ NotBegun(o)
               PROVE  FALSE
    OBVIOUS
  <2> QED BY <1>3, BegunIsTheOldest
<1>9. JobsAreHeld'
  BY <1>2, <1>5 DEF InTurn, JobsAreHeld
<1>10. StragglersGoFirst'
  <2>1. ASSUME NEW o \in ToSet(queued'), answers'[o] # <<>>
        PROVE  o = Head(queued') /\ taken = Null
    <3>1. o \in accepted /\ o \in Exports /\ o \in ToSet(queued)
      BY <1>1, <1>4, <2>1
    <3>2. CASE o = op
      <4>1. ToSet(queued) \subseteq {op} /\ taken \in {Null, op}
        BY <2>1, <3>2 DEF InTurn, StragglersGoFirst
      <4>2. taken # op
        BY <3>1, <3>2 DEF ExportInv, OneStageAtATime
      <4>3. Head(queued') \in ToSet(queued')
        BY <1>4, <2>1, NobodyWaits, TailPops
      <4> QED BY <1>4, <3>2, <4>1, <4>2, <4>3
    <3>3. CASE o # op
      <4>1. o = Head(queued) /\ taken = Null
        BY <1>2, <2>1, <3>1, <3>3 DEF InTurn, StragglersGoFirst
      <4>2. CASE queued' = queued
        BY <4>1, <4>2
      <4>3. CASE queued' # queued
        <5>1. \A x \in ToSet(queued') : x = Head(queued)
          <6> SUFFICES ASSUME NEW x \in ToSet(queued'), x # Head(queued) PROVE FALSE
            OBVIOUS
          <6>1. x \in ToSet(queued) /\ x # op /\ x \in accepted
            BY <1>1, <1>4, <4>3
          <6>2. answers[x] = <<>>
            BY <6>1 DEF InTurn, StragglersGoFirst
          <6> QED BY <1>8, <6>1, <6>2 DEF NotBegun, InFlight
        <5>2. Head(queued') \in ToSet(queued')
          BY <1>4, <2>1, NobodyWaits, TailPops
        <5> QED BY <4>1, <5>1, <5>2
      <4> QED BY <4>2, <4>3
    <3> QED BY <3>2, <3>3
  <2>2. ASSUME taken # Null, answers'[taken] = <<>>
        PROVE  queued' = <<>>
    <3>1. taken \in Exports /\ answers[taken] = <<>>
      BY <1>1, <1>2, <2>2 DEF ExportTypes
    <3>2. queued = <<>>
      BY <2>2, <3>1 DEF InTurn, StragglersGoFirst
    <3>3. ToSet(queued') = {}
      BY <1>4, <3>2 DEF ToSet
    <3> QED BY <1>4, <3>3, NobodyWaits
  <2>3. ASSUME NEW o \in done, answers'[o] = <<>>
        PROVE  FALSE
    <3>1. o \in accepted /\ o \in Exports /\ o # op /\ answers[o] = <<>>
      BY <1>1, <1>2, <2>3 DEF ExportTypes
    <3>2. o \in ToSet(export_queue)
      BY <1>3, <3>1 DEF ExportInv, QueueIsInStep
    <3>3. o # Last(export_queue)
      BY <1>1, <1>3, <3>1, <3>2, NobodyWaits DEF ExportTypes
    <3> QED BY <3>2, <3>3 DEF InTurn, YoungerHaveNothing
  <2> QED BY <1>4, <2>1, <2>2, <2>3 DEF StragglersGoFirst
<1>11. StragglersFindNothing'
  <2> SUFFICES ASSUME NEW o \in Exports, Ahead(o), answers'[o] # <<>>,
                      file' # Null, file' # o, written'[file'] # <<>>
               PROVE  FALSE
    BY <1>5 DEF StragglersFindNothing
  <2>1. file' = file /\ written' = written
    BY <1>3, <1>6 DEF ExportInv, FilesAreWritten
  <2>2. CASE answers[o] # <<>>
    BY <2>1, <2>2 DEF InTurn, StragglersFindNothing
  <2>3. CASE answers[o] = <<>>
    <3>1. o = op
      BY <1>2, <2>3
    <3>2. InFlight(op)
      BY <3>1 DEF Ahead, InFlight
    <3>3. ~ NotBegun(op) /\ op \notin sent
      BY <1>1, <3>2, InFlightHasBegun
    <3>4. file = op
      BY <1>3, <2>3, <3>1, <3>3, BegunIsTheOldest
    <3> QED BY <2>1, <3>1, <3>4
  <2> QED BY <2>2, <2>3
<1>12. StraysAreFirst'
  <2>1. DOMAIN <<>> = {}
    OBVIOUS
  <2> QED BY <1>7, <2>1 DEF InTurn, StraysAreFirst
<1>13. YoungerHaveNothing'
  <2>1. \A o \in Exports \ accepted : written'[o] = <<>>
    BY <1>7 DEF InTurn, YoungerHaveNothing
  <2>2. \A o \in ToSet(export_queue') :
          o \notin done /\ written'[o] = <<>> /\ place'[o] = PE!Start(settings[o])
    BY <1>6, <1>7
  <2> QED BY <1>4, <2>1, <2>2 DEF YoungerHaveNothing
<1>14. ASSUME NEW o \in accepted
       PROVE  PagesAreTurns(o)' /\ PlaceIsTurn(o)'
  <2>1. o \in Exports /\ PagesAreTurns(o) /\ PlaceIsTurn(o)
    BY <1>1 DEF InTurn
  <2>2. CASE o = op
    <3>1. written'[op] = written[op]
      BY <1>3, <1>6, <2>1, <2>2 DEF ExportInv, FilesAreWritten
    <3>2. PagesAreTurns(op)' /\ TurnOf(op)' = TurnOf(op)
      BY <1>4, <2>1, <2>2, <3>1, SameFileSameTurn
    <3>3. Ahead(op)' => Ahead(op) /\ InFlight(op)
      BY <1>5 DEF Ahead, InFlight
    <3>4. PlaceIsTurn(op)'
      BY <1>2, <1>4, <2>1, <2>2, <3>2, <3>3 DEF PlaceIsTurn
    <3> QED BY <2>2, <3>2, <3>4
  <2>3. CASE o # op /\ o \notin idle' \ idle
    <3>1. written'[o] = written[o]
      <4>1. o # Last(export_queue') \/ written' = written
        BY <1>3, <1>6, <2>3 DEF NotBegun
      <4> QED BY <1>3, <2>1, <4>1 DEF ExportInv, FilesAreWritten
    <3>2. PagesAreTurns(o)' /\ TurnOf(o)' = TurnOf(o)
      BY <1>4, <2>1, <3>1, SameFileSameTurn
    <3>3. PlaceIsTurn(o)'
      BY <1>2, <1>4, <1>5, <2>1, <2>3, <3>2, PlaceStaysTurn
    <3> QED BY <3>2, <3>3
  <2>4. CASE o # op /\ o \in idle' \ idle
    <3>1. /\ o = Last(export_queue') /\ o \in ToSet(export_queue')
          /\ written' = [written EXCEPT ![o] = <<>>]
      BY <1>3, <2>4
    <3>2. NotBegun(o) /\ answers[o] = <<>> /\ place[o] = PE!Start(settings[o])
      BY <1>6, <3>1
    <3>3. written'[o] = <<>>
      BY <2>1, <3>1 DEF ExportInv, FilesAreWritten
    <3>4. TurnOf(o)' = PE!Start(settings[o]) /\ PagesAreTurns(o)'
      BY <1>4, <3>3, EmptyFileFirstTurn
    <3>5. ~ Ahead(o)' /\ taken # o /\ o \notin sent'
      BY <1>4, <1>5, <3>2 DEF NotBegun, InFlight, Ahead
    <3>6. answers'[o] = <<>> /\ place'[o] = PE!Start(settings[o])
      BY <1>2, <2>1, <2>4, <3>2
    <3>7. ~ PE!IsPrinted(o)'
      <4>1. PE!Range(<<>>) = {}
        BY ExportOperators DEF ToSet
      <4> QED BY <3>5, <3>6, <4>1 DEF PE!IsPrinted
    <3>8. PlaceIsTurn(o)'
      BY <1>4, <3>4, <3>5, <3>6, <3>7 DEF PlaceIsTurn
    <3> QED BY <3>4, <3>8
  <2> QED BY <2>2, <2>3, <2>4
<1>15. DOMAIN place' = Exports /\ DOMAIN job_page' = Exports
  BY DEF InTurn
<1> QED BY <1>4, <1>9, <1>10, <1>11, <1>12, <1>13, <1>14, <1>15 DEF InTurn

\* The oldest operation of a window is cancelled: its job goes on only if it
\* counts as finished.
LEMMA CancelInTurn ==
    ASSUME ExportInv, InTurn, ~ mispopped', NEW w \in Windows, PE!Cancel(w)
    PROVE  InTurn'
<1>1. PICK op \in accepted :
        /\ op \in Exports /\ answers[op] = <<>>
        /\ \/ /\ op \in job_export /\ op \notin done
              /\ stopped' = stopped \cup {op} /\ queued' = Removing(queued, {op})
           \/ /\ op \notin job_export \/ op \in done
              /\ UNCHANGED <<stopped, queued>>
        /\ PE!ExportCancel(op) /\ UNCHANGED <<taken, exported>>
  <2> DEFINE op == Last(window_queue[w])
  <2>1. window_queue[w] \in Seq(accepted) /\ window_queue[w] # <<>>
    BY DEF ExportInv, ExportTypes, PE!Cancel
  <2>2. op \in ToSet(window_queue[w]) /\ op \in accepted
    BY <2>1, LastIsMember
  <2>3. op \in Exports /\ answers[op] = <<>>
    BY <2>2 DEF ExportInv, ExportTypes, WindowsListTheUnanswered
  <2>4. /\ \/ /\ op \in job_export /\ op \notin done
              /\ stopped' = stopped \cup {op} /\ queued' = Removing(queued, {op})
           \/ /\ op \notin job_export \/ op \in done
              /\ UNCHANGED <<stopped, queued>>
        /\ PE!ExportCancel(op) /\ UNCHANGED <<taken, exported>>
    BY ExportOperators DEF PE!Cancel
  <2> HIDE DEF op
  <2> QED BY <2>2, <2>3, <2>4
<1>2. /\ job_export' = job_export \ {op} /\ temp_file' = temp_file \ {op}
      /\ PE!Done(op, "cancel")
      /\ PE!RunNext(op, temp_file', idle \ {op}, file)
      /\ UNCHANGED <<settings, accepted, place, sent, job_page, done, due>>
  BY <1>1 DEF PE!ExportCancel
<1>3. queued \in Seq(accepted) /\ IsInjective(queued)
  BY DEF ExportInv, ExportTypes
<1>4. /\ queued' \in Seq(accepted) /\ IsInjective(queued')
      /\ ToSet(queued') \subseteq ToSet(queued)
      /\ queued' = queued \/ op \notin ToSet(queued')
  BY <1>1, <1>3, RemovingDrops
<1>5. done' \cup stopped' \subseteq accepted
  BY <1>1, <1>2 DEF ExportInv, ExportTypes
<1>6. Ends(op, "cancel", file)
  BY <1>1, <1>2, <1>4, <1>5 DEF Ends
<1>7. op \in ToSet(queued') => op \in done
  <2>1. SUFFICES ASSUME op \in ToSet(queued'), op \notin done PROVE FALSE
    OBVIOUS
  <2>2. ~ mispopped
    BY <1>2 DEF PE!RunNext
  <2>3. op \in job_export
    BY <1>1, <1>4, <2>1, <2>2 DEF InTurn, JobsAreHeld, InFlight
  <2>4. queued' = Removing(queued, {op})
    BY <1>1, <2>1, <2>3
  <2> QED BY <1>3, <2>1, <2>4, RemovingDrops
<1>8. "cancel" \in PE!Results
  BY DEF PE!Results
<1>9. ~ PE!IsPrinted(op)'
  <2>1. AnsweredCancel(op)'
    BY <1>1, <1>2, <1>8, DoneAnswers DEF ExportInv
  <2>2. PE!IsCancelled(op)'
    BY <2>1, ExportOperators DEF PE!IsCancelled, AnsweredCancel
  <2> QED BY <2>2 DEF PE!IsPrinted
<1>10. DOMAIN place' = Exports
  BY <1>2 DEF InTurn
<1> QED BY <1>1, <1>2, <1>4, <1>6, <1>7, <1>8, <1>9, <1>10, EndsInTurn

\* The printer has an answer.
LEMMA PrinterAnswersInTurn ==
    ASSUME ExportInv, InTurn, ~ mispopped', NEW op \in Exports, PE!PrinterAnswers(op)
    PROVE  InTurn'
<1>1. PICK how \in {"apply", "error"} : PE!Done(op, how)
  BY DEF PE!PrinterAnswers
<1>2. /\ op \in sent /\ sent' = sent \ {op} /\ temp_file' = temp_file \ {op}
      /\ PE!RunNext(op, temp_file', idle, file)
      /\ UNCHANGED <<settings, accepted, place, job_export, job_page, done, stopped,
                     due, queued, taken, exported>>
  BY DEF PE!PrinterAnswers, PE!jobVars, PE!workerVars
<1>3. op \in accepted /\ op \notin idle /\ ~ InFlight(op)
  BY <1>2 DEF ExportInv, ExportTypes, OneStageAtATime
<1>4. idle \ {op} = idle
  BY <1>3
<1>5. /\ queued \in Seq(accepted) /\ IsInjective(queued)
      /\ done \cup stopped \subseteq accepted
  BY DEF ExportInv, ExportTypes
<1>6. Ends(op, how, file)
  BY <1>1, <1>2, <1>4, <1>5 DEF Ends
<1>7. how \in PE!Results
  BY DEF PE!Results
<1>8. PE!IsPrinted(op)' => ~ PE!NextPlace(settings[op], TurnOf(op)).more
  <2>1. AnsweredCancel(op) => AnsweredCancel(op)'
    BY <1>1, <1>3, <1>7, DoneAnswers DEF ExportInv
  <2>2. PE!IsPrinted(op)' => PE!IsPrinted(op)
    BY <1>2, <2>1, ExportOperators DEF PE!IsPrinted, PE!IsCancelled, AnsweredCancel
  <2>3. PlaceIsTurn(op)
    BY <1>3 DEF InTurn
  <2> QED BY <2>2, <2>3 DEF PlaceIsTurn
<1>9. DOMAIN place' = Exports /\ op \notin ToSet(queued')
  BY <1>2, <1>3 DEF InTurn, InFlight
<1> QED BY <1>2, <1>3, <1>6, <1>7, <1>8, <1>9, EndsInTurn

\* export_print_page finds the place after that of the file.
LEMMA PlaceOfTheDue ==
    ASSUME ExportInv, InTurn, NEW op \in idle
    PROVE  /\ op \in accepted /\ op \in Exports /\ ~ InFlight(op) /\ op \notin sent
           /\ ~ NotBegun(op) /\ answers[op] = <<>> /\ place[op] = TurnOf(op)
           /\ PagesAreTurns(op) /\ PlaceIsTurn(op)
           /\ DOMAIN place = Exports /\ DOMAIN job_page = Exports
BY DueIsTheOldest DEF InTurn, PlaceIsTurn

\* The operation ends without the printer: all its pages are in its file.
LEMMA ConcludeInTurn ==
    ASSUME ExportInv, InTurn, ~ mispopped', NEW op \in idle,
           NEW how \in {"apply", "error"}, PE!Conclude(op, how),
           ~ PE!NextPlace(settings[op], place[op]).more, NEW x,
           place' = [place EXCEPT ![op] = x],
           UNCHANGED <<settings, accepted, job_export, job_page, done, stopped, due,
                       queued, taken, exported>>
    PROVE  InTurn'
<1>1. /\ temp_file' = temp_file \/ temp_file' = temp_file \ {op}
      /\ PE!Done(op, how) /\ PE!RunNext(op, temp_file', idle \ {op}, Null)
      /\ UNCHANGED sent
  BY DEF PE!Conclude
<1>2. /\ op \in accepted /\ op \in Exports /\ ~ InFlight(op) /\ place[op] = TurnOf(op)
      /\ DOMAIN place = Exports
  BY PlaceOfTheDue
<1>3. /\ queued \in Seq(accepted) /\ IsInjective(queued)
      /\ done \cup stopped \subseteq accepted
  BY DEF ExportInv, ExportTypes
<1>4. Ends(op, how, Null)
  BY <1>1, <1>3 DEF Ends
<1>5. how \in PE!Results
  BY DEF PE!Results
<1>6. DOMAIN place' = Exports /\ \A o \in Exports \ {op} : place'[o] = place[o]
  BY <1>2
<1>7. op \notin ToSet(queued')
  BY <1>2 DEF InFlight
<1> QED BY <1>2, <1>4, <1>5, <1>6, <1>7, EndsInTurn

\* The file goes to the printer, with all its pages.
LEMMA SendInTurn ==
    ASSUME ExportInv, InTurn, ~ mispopped, NEW op \in idle, PE!Send(op),
           ~ PE!NextPlace(settings[op], place[op]).more, NEW x,
           place' = [place EXCEPT ![op] = x],
           UNCHANGED <<settings, accepted, job_export, job_page, done, stopped, due,
                       queued, taken, exported>>
    PROVE  InTurn'
<1>1. /\ sent' = sent \cup {op} /\ idle' = idle \ {op} /\ file' = Null
      /\ UNCHANGED <<temp_file, answers, export_queue, window_queue, mispopped, written>>
  BY DEF PE!Send, PE!queueVars
<1>2. /\ op \in accepted /\ op \in Exports /\ ~ InFlight(op) /\ place[op] = TurnOf(op)
      /\ DOMAIN place = Exports /\ ~ NotBegun(op) /\ answers[op] = <<>>
  BY PlaceOfTheDue
<1>3. \A o : (InFlight(o)' <=> InFlight(o)) /\ (Ahead(o)' <=> Ahead(o))
  BY DEF InFlight, Ahead
<1>4. DOMAIN place' = Exports /\ \A o \in Exports \ {op} : place'[o] = place[o]
  BY <1>2
<1>5. JobsAreHeld' /\ StragglersGoFirst' /\ StragglersFindNothing' /\ StraysAreFirst'
  BY <1>1, <1>3 DEF InTurn, JobsAreHeld, StragglersGoFirst, StragglersFindNothing,
                    StraysAreFirst
<1>6. YoungerHaveNothing'
  <2>1. \A o \in ToSet(export_queue) : o # Last(export_queue) => o # op /\ o \in Exports
    BY <1>2, ExportQueuesAreOfAccepted DEF ExportInv, YoungerHaveNotBegun
  <2> QED BY <1>1, <1>4, <2>1 DEF InTurn, YoungerHaveNothing
<1>7. ASSUME NEW o \in accepted
      PROVE  PagesAreTurns(o)' /\ PlaceIsTurn(o)'
  <2>1. /\ o \in Exports /\ PlaceIsTurn(o)
        /\ PagesAreTurns(o)' /\ TurnOf(o)' = TurnOf(o)
    BY <1>1, SameFileSameTurn, ExportQueuesAreOfAccepted DEF InTurn, ExportInv
  <2>2. CASE o = op
    <3>1. ~ Ahead(op) /\ op \notin due /\ taken # op /\ op \notin idle'
      BY <1>1, <1>2 DEF InFlight, Ahead
    <3> QED BY <1>2, <1>3, <2>1, <2>2, <3>1 DEF PlaceIsTurn
  <2>3. CASE o # op
    BY <1>1, <1>3, <1>4, <2>1, <2>3, PlaceStaysTurn
  <2> QED BY <2>1, <2>2, <2>3
<1> QED BY <1>4, <1>5, <1>6, <1>7 DEF InTurn

\* The next page goes to the scheduler.
LEMMA PushPageInTurn ==
    ASSUME ExportInv, InTurn, ~ mispopped, NEW op \in idle, PE!PushPage(op),
           PE!NextPlace(settings[op], place[op]).more,
           place' = [place EXCEPT ![op] = PE!NextPlace(settings[op], place[op]).at],
           UNCHANGED <<settings, accepted, done, stopped, due, taken, exported>>
    PROVE  InTurn'
<1> DEFINE next == PE!NextPlace(settings[op], place[op])
<1>1. /\ job_export' = job_export \cup {op} /\ idle' = idle \ {op}
      /\ job_page' = [job_page EXCEPT ![op] = place'[op].page]
      /\ queued' = Append(queued, op)
      /\ UNCHANGED <<temp_file, sent, answers, export_queue, window_queue, mispopped,
                     file, written>>
  BY DEF PE!PushPage, PE!queueVars, PE!exporterVars
<1>2. /\ op \in accepted /\ op \in Exports /\ ~ InFlight(op) /\ op \notin sent
      /\ ~ NotBegun(op) /\ answers[op] = <<>> /\ place[op] = TurnOf(op)
      /\ DOMAIN place = Exports /\ DOMAIN job_page = Exports
  BY PlaceOfTheDue
<1>3. /\ place'[op] = next.at /\ DOMAIN place' = Exports
      /\ \A o \in Exports \ {op} : place'[o] = place[o] /\ job_page'[o] = job_page[o]
      /\ job_page'[op] = next.at.page /\ DOMAIN job_page' = Exports
  BY <1>1, <1>2
<1>4. next.more
  OBVIOUS
<1> HIDE DEF next
<1>5. /\ queued \in Seq(accepted) /\ queued' \in Seq(accepted)
      /\ ToSet(queued') = ToSet(queued) \cup {op}
      /\ queued # <<>> => Head(queued') = Head(queued)
  <2>1. queued \in Seq(accepted) /\ IsInjective(queued) /\ op \notin ToSet(queued)
    BY <1>2 DEF ExportInv, ExportTypes, InFlight
  <2>2. queued # <<>> => Head(Append(queued, op)) = Head(queued)
    BY <1>2, <2>1
  <2> QED BY <1>1, <1>2, <2>1, <2>2, AppendAdds
<1>6. /\ \A o : o # op => (InFlight(o)' <=> InFlight(o)) /\ (Ahead(o)' <=> Ahead(o))
      /\ Ahead(op)'
  BY <1>1, <1>5 DEF InFlight, Ahead
<1>7. /\ accepted \subseteq Exports /\ ToSet(queued) \subseteq accepted
      /\ ToSet(export_queue) \subseteq accepted /\ taken \in accepted \cup {Null}
  BY ExportQueuesAreOfAccepted DEF ExportInv, ExportTypes
<1>8. JobsAreHeld'
  BY <1>1, <1>6 DEF InTurn, JobsAreHeld
<1>9. StragglersGoFirst'
  <2>1. ASSUME NEW o \in ToSet(queued'), answers[o] # <<>>
        PROVE  o = Head(queued') /\ taken = Null
    <3>1. o \in ToSet(queued)
      BY <1>2, <1>5, <2>1
    <3>2. o = Head(queued) /\ taken = Null
      BY <2>1, <3>1 DEF InTurn, StragglersGoFirst
    <3>3. queued # <<>>
      BY <1>5, <3>1, NobodyWaits
    <3> QED BY <1>5, <3>2, <3>3
  <2>2. ASSUME taken # Null, answers[taken] = <<>>
        PROVE  FALSE
    <3>1. InFlight(taken) /\ taken \in accepted
      BY <1>7, <2>2 DEF InFlight
    <3>2. ~ NotBegun(taken)
      BY <3>1 DEF NotBegun
    <3>3. taken = op
      BY <1>2, <2>2, <3>1, <3>2, BegunIsTheOldest
    <3> QED BY <1>2, <3>1, <3>3
  <2>3. ASSUME NEW o \in done, answers[o] = <<>>
        PROVE  ToSet(queued') \subseteq {o} /\ taken \in {Null, o}
    <3>1. o \in ToSet(export_queue)
      BY <2>3 DEF ExportInv, ExportTypes, QueueIsInStep
    <3>2. o = Last(export_queue)
      BY <3>1 DEF InTurn, YoungerHaveNothing
    <3>3. o = op
      BY <1>2, <3>2, BegunIsTheOldest
    <3> QED BY <1>5, <2>3, <3>3 DEF InTurn, StragglersGoFirst
  <2> QED BY <1>1, <2>1, <2>2, <2>3 DEF StragglersGoFirst
<1>10. StragglersFindNothing' /\ StraysAreFirst'
  BY <1>1, <1>2, <1>6 DEF InTurn, StragglersFindNothing, StraysAreFirst
<1>11. YoungerHaveNothing'
  <2>1. \A o \in ToSet(export_queue) : o # Last(export_queue) => o # op /\ o \in Exports
    BY <1>2, <1>7 DEF ExportInv, YoungerHaveNotBegun
  <2> QED BY <1>1, <1>3, <2>1 DEF InTurn, YoungerHaveNothing
<1>12. ASSUME NEW o \in accepted
       PROVE  PagesAreTurns(o)' /\ PlaceIsTurn(o)'
  <2>1. /\ o \in Exports /\ PlaceIsTurn(o)
        /\ PagesAreTurns(o)' /\ TurnOf(o)' = TurnOf(o)
    BY <1>1, <1>7, SameFileSameTurn DEF InTurn
  <2>2. CASE o = op
    <3>1. op \notin idle' \cup due' /\ taken' # op
      BY <1>1, <1>2 DEF InFlight
    <3>2. ~ PE!IsPrinted(op)'
      <4>1. PE!Range(<<>>) = {}
        BY ExportOperators DEF ToSet
      <4> QED BY <1>1, <1>2, <4>1 DEF PE!IsPrinted
    <3>3. next = PE!NextPlace(settings[op], TurnOf(op))
      BY <1>2 DEF next
    <3>4. PlaceIsTurn(op)'
      BY <1>3, <1>4, <2>1, <2>2, <3>1, <3>2, <3>3 DEF PlaceIsTurn
    <3> QED BY <2>1, <2>2, <3>4
  <2>3. CASE o # op
    <3>1. job_page'[o] = job_page[o] /\ place'[o] = place[o] /\ (Ahead(o)' <=> Ahead(o))
      BY <1>3, <1>6, <2>1, <2>3
    <3>2. PE!IsPrinted(o)' <=> PE!IsPrinted(o)
      BY <1>1 DEF PE!IsPrinted, PE!IsCancelled
    <3>3. PlaceIsTurn(o)'
      BY <1>1, <2>1, <3>1, <3>2 DEF PlaceIsTurn
    <3> QED BY <2>1, <3>3
  <2> QED BY <2>2, <2>3
<1> QED BY <1>3, <1>8, <1>9, <1>10, <1>11, <1>12 DEF InTurn

\* Nothing is due any more for an operation whose file is gone.
LEMMA NoPageInTurn ==
    ASSUME ExportInv, InTurn, NEW op, idle' = idle \ {op},
           UNCHANGED <<settings, accepted, place, temp_file, sent, answers, export_queue,
                       window_queue, mispopped, job_export, job_page, done, stopped, due,
                       file, written, queued, taken, exported>>
    PROVE  InTurn'
<1>1. \A o : (InFlight(o)' <=> InFlight(o)) /\ (Ahead(o)' <=> Ahead(o))
  BY DEF InFlight, Ahead
<1>2. JobsAreHeld' /\ StragglersGoFirst' /\ StragglersFindNothing'
  BY <1>1 DEF InTurn, JobsAreHeld, StragglersGoFirst, StragglersFindNothing
<1>3. StraysAreFirst' /\ YoungerHaveNothing'
  BY DEF InTurn, StraysAreFirst, YoungerHaveNothing
<1>4. ASSUME NEW o \in accepted
      PROVE  PagesAreTurns(o)' /\ PlaceIsTurn(o)'
  <2>1. PlaceIsTurn(o) /\ PagesAreTurns(o)' /\ TurnOf(o)' = TurnOf(o)
    BY SameFileSameTurn DEF InTurn
  <2> QED BY <1>1, <2>1, PlaceStaysTurn
<1> QED BY <1>2, <1>3, <1>4 DEF InTurn

\* An operation goes on.
LEMMA PrintPageInTurn ==
    ASSUME ExportInv, InTurn, ~ mispopped', NEW op \in Exports, PE!PrintPage(op)
    PROVE  InTurn'
<1> DEFINE next == PE!NextPlace(settings[op], place[op])
<1>1. op \in idle /\ UNCHANGED <<settings, accepted, done, stopped, due, taken, exported>>
  BY DEF PE!PrintPage
<1>2. CASE op \notin temp_file
  <2>1. /\ idle' = idle \ {op}
        /\ UNCHANGED <<place, temp_file, sent, answers, export_queue, window_queue,
                       mispopped, job_export, job_page, file, written, queued>>
    BY <1>2 DEF PE!PrintPage, PE!queueVars, PE!exporterVars
  <2> QED BY <1>1, <2>1, NoPageInTurn
<1>3. ASSUME op \in temp_file
      PROVE  /\ place' = [place EXCEPT ![op] = next.at]
             /\ \/ next.more /\ PE!PushPage(op)
                \/ /\ ~ next.more /\ UNCHANGED <<job_export, job_page, queued>>
                   /\ \/ PE!Send(op)
                      \/ \E how \in {"apply", "error"} : PE!Conclude(op, how)
  BY <1>3 DEF PE!PrintPage
<1>4. CASE op \in temp_file /\ PE!PushPage(op) /\ next.more
  <2>1. ~ mispopped
    BY <1>4 DEF PE!PushPage, PE!queueVars
  <2> QED BY <1>1, <1>3, <1>4, <2>1, PushPageInTurn
<1>5. CASE /\ op \in temp_file /\ PE!Send(op) /\ ~ next.more
           /\ UNCHANGED <<job_export, job_page, queued>>
  <2>1. ~ mispopped
    BY <1>5 DEF PE!Send, PE!queueVars
  <2> QED BY <1>1, <1>3, <1>5, <2>1, SendInTurn
<1>6. ASSUME op \in temp_file, NEW how \in {"apply", "error"}, PE!Conclude(op, how),
             ~ next.more, UNCHANGED <<job_export, job_page, queued>>
      PROVE  InTurn'
  BY <1>1, <1>3, <1>6, ConcludeInTurn
<1> HIDE DEF next
<1> QED BY <1>2, <1>3, <1>4, <1>5, <1>6

\* Every step preserves PagesInv.
LEMMA NextPagesInv == ExportInv /\ PagesInv /\ [PE!Next]_PE!vars => PagesInv'
<1> SUFFICES ASSUME ExportInv, PagesInv, [PE!Next]_PE!vars, ~ mispopped'
             PROVE  InTurn'
  BY DEF PagesInv
<1>1. ~ mispopped
  <2>1. \A op, files, idles, open : PE!RunNext(op, files, idles, open) => ~ mispopped
    BY DEF PE!RunNext
  <2>2. ASSUME NEW op \in Exports, PE!PrintPage(op)
        PROVE  ~ mispopped
    <3>1. UNCHANGED mispopped \/ \E files, idles, open : PE!RunNext(op, files, idles, open)
      BY <2>2 DEF PE!PrintPage, PE!PushPage, PE!Send, PE!Conclude, PE!queueVars
    <3> QED BY <2>1, <3>1
  <2>3. ASSUME NEW w \in Windows, PE!Cancel(w)
        PROVE  ~ mispopped
    BY <2>1, <2>3 DEF PE!Cancel, PE!ExportCancel
  <2>4. ASSUME NEW op \in Exports, PE!PrinterAnswers(op)
        PROVE  ~ mispopped
    BY <2>1, <2>4 DEF PE!PrinterAnswers
  <2>5. ASSUME NEW op \in Exports, PE!Accept(op) \/ PE!JobFinished(op)
        PROVE  ~ mispopped
    BY <2>5 DEF PE!Accept, PE!JobFinished, PE!queueVars
  <2>6. CASE PE!Worker
    BY <2>6 DEF PE!Worker, PE!TakeJob, PE!ExportPage, PE!EndJob, PE!queueVars
  <2>7. CASE UNCHANGED PE!vars
    BY <2>7 DEF PE!vars, PE!queueVars
  <2> QED BY <2>2, <2>3, <2>4, <2>5, <2>6, <2>7
          DEF PE!Next, PE!User, PE!MainLoop, PE!Printer
<1>2. InTurn
  BY <1>1 DEF PagesInv
<1>3. ASSUME NEW op \in Exports, PE!Accept(op) PROVE InTurn'
  BY <1>1, <1>2, <1>3, AcceptInTurn
<1>4. ASSUME NEW w \in Windows, PE!Cancel(w) PROVE InTurn'
  BY <1>2, <1>4, CancelInTurn
<1>5. CASE PE!Worker
  BY <1>1, <1>2, <1>5, TakeJobInTurn, ExportPageInTurn, EndJobInTurn DEF PE!Worker
<1>6. ASSUME NEW op \in Exports, PE!PrintPage(op) PROVE InTurn'
  BY <1>2, <1>6, PrintPageInTurn
<1>7. ASSUME NEW op \in Exports, PE!JobFinished(op) PROVE InTurn'
  BY <1>1, <1>2, <1>7, JobFinishedInTurn
<1>8. ASSUME NEW op \in Exports, PE!PrinterAnswers(op) PROVE InTurn'
  BY <1>2, <1>8, PrinterAnswersInTurn
<1>9. CASE UNCHANGED PE!vars
  <2> USE <1>9 DEF PE!vars, PE!opVars, PE!queueVars, PE!jobVars, PE!workerVars,
                   PE!exporterVars
  <2>1. UNCHANGED <<settings, accepted, place, temp_file, sent, answers, export_queue,
                    window_queue, mispopped, job_export, job_page, done, stopped, due,
                    file, written, queued, taken, exported>>
    OBVIOUS
  <2>2. Null \notin idle
    BY ExportQueuesAreOfAccepted DEF ExportInv, ExportTypes
  <2>3. idle' = idle \ {Null}
    BY <2>2
  <2> QED BY <1>2, <2>1, <2>3, NoPageInTurn
<1> QED BY <1>3, <1>4, <1>5, <1>6, <1>7, <1>8, <1>9
        DEF PE!Next, PE!User, PE!MainLoop, PE!Printer

LEMMA AlwaysPagesInv == ExportsSpec => []PagesInv
<1>1. PE!Init => PagesInv
  BY InitInTurn DEF PagesInv
<1>2. ExportInv /\ PagesInv /\ [PE!Next]_PE!vars => PagesInv'
  BY NextPagesInv
<1>3. ExportsSpec => []ExportInv
  BY AlwaysExportInv
<1> QED BY <1>1, <1>2, <1>3, PTL DEF ExportsSpec, PE!Spec

-----------------------------------------------------------------------------
(* PrintExport: the theorems *)

\* The queues, files and answers of the operations are well formed; as long as
\* the document's queue has been popped for the right ones, a page in the file of
\* another operation is the first one there and the only one of an operation that
\* was cancelled with the page on its way; and an operation's own pages are those
\* that the loops of export_print_page come to, none lost, doubled or out of turn:
\* for every number of operations, of windows and of pages.
THEOREM FilesAreAlwaysInOrder == ExportsSpec => []FilesAreInOrder
<1>1. ExportInv /\ PagesInv => FilesAreInOrder
  <2> SUFFICES ASSUME ExportInv, PagesInv PROVE FilesAreInOrder
    OBVIOUS
  <2>1. \A op \in Exports : \A i \in DOMAIN written[op] : written[op][i].by \in accepted
    BY DEF ExportInv, FilesAreWritten
  <2>2. PE!TypeOK
    BY <2>1, ExportOperators DEF ExportInv, ExportTypes, PE!TypeOK
  <2>3. \A op : PE!IsCancelled(op) <=> AnsweredCancel(op)
    BY ExportOperators DEF PE!IsCancelled, AnsweredCancel
  <2>4. PE!StrayPagesAreOfTheCancelled
    <3> SUFFICES ASSUME ~ mispopped, NEW op \in Exports, NEW later \in Exports,
                        NEW i \in DOMAIN written[op], NEW j \in DOMAIN written[later],
                        written[op][i].by \notin {op, later},
                        written[later][j].by = written[op][i].by
                 PROVE  op = later /\ i = j /\ PE!IsCancelled(written[op][i].by)
      BY DEF PE!StrayPagesAreOfTheCancelled
    <3> QED BY <2>3 DEF ExportInv, StrayedHaveStopped, StraysAreSingle
  <2>5. PE!StrayPagesComeFirst
    BY DEF PagesInv, InTurn, StraysAreFirst, PE!StrayPagesComeFirst
  <2>6. PE!OwnPagesComeInTurn
    <3> SUFFICES ASSUME ~ mispopped, NEW op \in accepted
                 PROVE  LET own == Len(written[op]) - PE!Strayed(op)
                            s == settings[op]
                        IN  /\ \A n \in 1 .. own :
                                 /\ PE!NextPlace(s, PE!After(s, n - 1)).more
                                 /\ written[op][n + PE!Strayed(op)].page =
                                      PE!After(s, n).page
                            /\ PE!IsPrinted(op) => ~ PE!NextPlace(s, PE!After(s, own)).more
      BY DEF PE!OwnPagesComeInTurn
    <3>1. PagesAreTurns(op) /\ PlaceIsTurn(op)
      BY DEF PagesInv, InTurn
    <3> QED BY <3>1 DEF PagesAreTurns, PlaceIsTurn, TurnOf, OwnPages
  <2> QED BY <2>2, <2>4, <2>5, <2>6 DEF FilesAreInOrder, PE!FilesAreInOrder
<1> QED BY <1>1, AlwaysExportInv, AlwaysPagesInv, PTL

\* An operation that has ended answers again only when it was cancelled with its
\* file at the printer, and the printer answers.
THEOREM OnlyThePrinterEndsAgain == ExportsSpec => EndsAgainOnlyFromThePrinter
<1> DEFINE Step == \A op \in Exports :
                     answers[op] # <<>> /\ answers'[op] # answers[op] =>
                        answers[op] = <<"cancel">> /\ op \in sent
<1>1. ASSUME ExportInv, PE!Next
      PROVE  Step
  <2> SUFFICES ASSUME NEW o \in Exports, answers[o] # <<>>, answers'[o] # answers[o]
               PROVE  answers[o] = <<"cancel">> /\ o \in sent
    OBVIOUS
  <2>1. ExportTypes
    BY <1>1 DEF ExportInv
  <2>2. \A op \in accepted, how \in PE!Results : PE!Done(op, how) => o = op
    BY <2>1, DoneAnswers
  <2>3. ASSUME NEW w \in Windows, PE!Cancel(w)
        PROVE  FALSE
    <3> DEFINE op == Last(window_queue[w])
    <3>1. window_queue[w] \in Seq(accepted) /\ window_queue[w] # <<>>
      BY <2>1, <2>3 DEF ExportTypes, PE!Cancel
    <3>2. op \in ToSet(window_queue[w]) /\ op \in accepted
      BY <3>1, LastIsMember
    <3>3. PE!Done(op, "cancel")
      BY <2>3, ExportOperators DEF PE!Cancel, PE!ExportCancel
    <3>4. answers[op] = <<>>
      BY <1>1, <3>2 DEF ExportInv, WindowsListTheUnanswered
    <3>5. "cancel" \in PE!Results
      BY DEF PE!Results
    <3> HIDE DEF op
    <3> QED BY <2>2, <3>2, <3>3, <3>4, <3>5
  <2>4. ASSUME NEW op \in Exports, PE!PrintPage(op)
        PROVE  FALSE
    <3>1. PICK how \in {"apply", "error"} : op \in idle /\ PE!Done(op, how)
      BY <2>4 DEF PE!PrintPage, PE!PushPage, PE!Send, PE!Conclude
    <3>2. op \in accepted /\ answers[op] = <<>>
      BY <1>1, <3>1, DueIsTheOldest
    <3>3. how \in PE!Results
      BY DEF PE!Results
    <3> QED BY <2>2, <3>1, <3>2, <3>3
  <2>5. ASSUME NEW op \in Exports, PE!PrinterAnswers(op)
        PROVE  answers[o] = <<"cancel">> /\ o \in sent
    <3>1. PICK how \in {"apply", "error"} : op \in sent /\ PE!Done(op, how)
      BY <2>5 DEF PE!PrinterAnswers
    <3>2. op \in accepted /\ answers[op] \in {<<>>, <<"cancel">>}
      BY <1>1, <3>1 DEF ExportInv, ExportTypes, AnswersAreInStep
    <3>3. how \in PE!Results
      BY DEF PE!Results
    <3> QED BY <2>2, <3>1, <3>2, <3>3
  <2>6. ASSUME NEW op \in Exports, PE!Accept(op) \/ PE!JobFinished(op)
        PROVE  FALSE
    BY <2>6 DEF PE!Accept, PE!JobFinished
  <2>7. CASE PE!Worker
    BY <2>7 DEF PE!Worker, PE!TakeJob, PE!ExportPage, PE!EndJob, PE!opVars
  <2> QED BY <1>1, <2>3, <2>4, <2>5, <2>6, <2>7
          DEF PE!Next, PE!User, PE!MainLoop, PE!Printer
<1>2. ASSUME ExportInv, [PE!Next]_PE!vars
      PROVE  [Step]_PE!vars
  BY <1>1, <1>2
<1>3. ExportsSpec => []ExportInv
  BY AlwaysExportInv
<1>4. ExportsSpec => [][Step]_PE!vars
  <2> HIDE DEF Step
  <2>1. ExportInv /\ [PE!Next]_PE!vars => [Step]_PE!vars
    BY <1>2
  <2> QED BY <1>3, <2>1, PTL DEF ExportsSpec, PE!Spec
<1> QED BY <1>4 DEF EndsAgainOnlyFromThePrinter, PE!EndsAgainOnlyFromThePrinter

=============================================================================
