------------------------- MODULE JobSchedulerProofs -------------------------
(***************************************************************************)
(* Machine-checked proofs about JobScheduler, for every set of jobs, every *)
(* number of priorities and every number of pushes.                        *)
(***************************************************************************)
EXTENDS JobScheduler, SequenceLemmas, FiniteSetTheorems, TLAPS

-----------------------------------------------------------------------------
(* Queues *)

\* Without removes exactly the entry it is asked to remove.
LEMMA WithoutRemoves ==
    ASSUME NEW S, NEW q \in Seq(S), NEW s \in ToSet(q), IsInjective(q)
    PROVE  /\ Without(q, s) \in Seq(S)
           /\ ToSet(Without(q, s)) = ToSet(q) \ {s}
           /\ IsInjective(Without(q, s))
<1> DEFINE i == CHOOSE i \in DOMAIN q : q[i] = s
<1>1. i \in DOMAIN q /\ q[i] = s
  BY DEF ToSet
<1>2. Without(q, s) = RemoveAt(q, i)
  BY DEF Without
<1> HIDE DEF i
<1> QED BY <1>1, <1>2, RemovingAnEntry

-----------------------------------------------------------------------------
(* The inductive invariant *)

\* Where the locals of the two threads point, and what the worker has already
\* undone of the entry it is destroying.
Shape ==
    /\ live \subseteq DOMAIN sjob
    /\ worker_sjob = 0 <=> worker_pc \in {"get", "waiting"}
    /\ worker_sjob # 0 => worker_sjob \in DOMAIN sjob
    /\ main_sjob # 0 => main_sjob \in DOMAIN sjob
    /\ main_pc # "ready" => main_job \in Jobs
    /\ main_pc = "handler" => main_sjob # 0
    /\ worker_pc \in {"unlist", "free"} => worker_sjob \notin handlers
    /\ worker_pc = "free" => worker_sjob \notin job_list
    /\ run_idles \subseteq LoopJobs

IInv ==
    /\ TypeOK
    /\ Shape
    /\ OneHolder
    /\ ReachableIsLive
    /\ NeverSleepsOnWork
    /\ RunningJobIsHeld

\* IInv holds before the first job is pushed.
LEMMA InitIInv == Init => IInv
<1> SUFFICES ASSUME Init PROVE IInv
  OBVIOUS
<1> USE JobsAssumption, BoundsAssumption
<1>1. TypeOK
  BY DEF Init, TypeOK, Priority, SJobs, WorkerPc, MainPc, Word, NoWord
<1>2. Queued = {}
  BY DEF Init, Queued, ToSet
<1>3. Shape
  BY DEF Init, Shape
<1>4. OneHolder
  BY <1>2 DEF Init, OneHolder, Held, LoopEntries, IsInjective, ToSet
<1>5. ReachableIsLive /\ NeverSleepsOnWork /\ RunningJobIsHeld
  BY <1>2 DEF Init, ReachableIsLive, NeverSleepsOnWork, RunningJobIsHeld
<1> QED BY <1>1, <1>3, <1>4, <1>5 DEF IInv

-----------------------------------------------------------------------------
(* What the steps do to the queues *)

\* Every allocated entry is typed, and so is the job of the worker's entry.
LEMMA EntriesAreTyped ==
    ASSUME TypeOK
    PROVE  /\ DOMAIN sjob = 1 .. Len(sjob) /\ Len(sjob) \in 0 .. MaxPush
           /\ DOMAIN sjob \subseteq SJobs /\ 0 \notin DOMAIN sjob
           /\ \A s \in DOMAIN sjob :
                sjob[s].job \in Jobs /\ sjob[s].priority \in Priority
           /\ worker_sjob \in DOMAIN sjob => WorkerJob \in Jobs
<1> DEFINE R == [job : Jobs, priority : Priority]
<1>1. sjob \in Seq(R)
  BY DEF TypeOK
<1> HIDE DEF R
<1>2. DOMAIN sjob = 1 .. Len(sjob) /\ Len(sjob) \in 0 .. MaxPush
  BY <1>1, BoundsAssumption DEF TypeOK
<1>3. \A s \in DOMAIN sjob : sjob[s] \in R
  BY <1>1, <1>2
<1>4. DOMAIN sjob \subseteq SJobs /\ 0 \notin DOMAIN sjob
  BY <1>2, BoundsAssumption DEF SJobs
<1>5. \A s \in DOMAIN sjob :
        sjob[s].job \in Jobs /\ sjob[s].priority \in Priority
  BY <1>3 DEF R
<1> QED BY <1>2, <1>4, <1>5 DEF WorkerJob

\* The well-formedness of the queues, apart from who else holds an entry.
QueuesOK(jq) ==
    /\ jq \in [Priority -> Seq(SJobs)]
    /\ \A p \in Priority : IsInjective(jq[p])
    /\ \A p, q \in Priority : p # q => ToSet(jq[p]) \cap ToSet(jq[q]) = {}

QueuedIn(jq) == UNION {ToSet(jq[p]) : p \in Priority}

\* Pushing an entry that is in no queue.
LEMMA QueuePush ==
    ASSUME NEW jq, QueuesOK(jq), NEW p \in Priority,
           NEW s \in SJobs, s \notin QueuedIn(jq)
    PROVE  LET new == [jq EXCEPT ![p] = Append(@, s)]
           IN  QueuesOK(new) /\ QueuedIn(new) = QueuedIn(jq) \cup {s}
<1> DEFINE new == [jq EXCEPT ![p] = Append(@, s)]
<1>1. /\ jq[p] \in Seq(SJobs) /\ IsInjective(jq[p])
      /\ \A q \in Priority : s \notin ToSet(jq[q])
  BY DEF QueuesOK, QueuedIn
<1>2. /\ Append(jq[p], s) \in Seq(SJobs)
      /\ ToSet(Append(jq[p], s)) = ToSet(jq[p]) \cup {s}
      /\ IsInjective(Append(jq[p], s))
  BY <1>1, AppendAdds
<1>3. /\ new \in [Priority -> Seq(SJobs)]
      /\ new[p] = Append(jq[p], s)
      /\ \A q \in Priority : q # p => new[q] = jq[q]
  BY <1>2 DEF QueuesOK
<1> HIDE DEF new
<1>4. QueuesOK(new)
  <2>1. \A q \in Priority : IsInjective(new[q])
    BY <1>2, <1>3 DEF QueuesOK
  <2>2. ASSUME NEW a \in Priority, NEW b \in Priority, a # b
        PROVE  ToSet(new[a]) \cap ToSet(new[b]) = {}
    <3>1. ToSet(jq[a]) \cap ToSet(jq[b]) = {}
      BY <2>2 DEF QueuesOK
    <3> QED BY <1>1, <1>2, <1>3, <2>2, <3>1
  <2> QED BY <1>3, <2>1, <2>2 DEF QueuesOK
<1>5. QueuedIn(new) = QueuedIn(jq) \cup {s}
  BY <1>2, <1>3 DEF QueuedIn
<1> QED BY <1>4, <1>5 DEF new

\* The queues `new' are the queues jq with entry s taken out of queue p.
TakenOut(jq, new, p, s) ==
    /\ p \in Priority
    /\ s \in ToSet(jq[p])
    /\ new \in [Priority -> Seq(SJobs)]
    /\ \A q \in Priority : q # p => new[q] = jq[q]
    /\ IsInjective(new[p])
    /\ ToSet(new[p]) = ToSet(jq[p]) \ {s}

\* Taking an entry out of a queue.
LEMMA QueueRemove ==
    ASSUME NEW jq, NEW new, NEW p, NEW s,
           QueuesOK(jq), TakenOut(jq, new, p, s)
    PROVE  QueuesOK(new) /\ QueuedIn(new) = QueuedIn(jq) \ {s}
<1> USE DEF TakenOut
<1>1. QueuesOK(new)
  <2>1. \A q \in Priority : IsInjective(new[q])
    BY DEF QueuesOK
  <2>2. \A q \in Priority : ToSet(new[q]) \subseteq ToSet(jq[q])
    OBVIOUS
  <2>3. ASSUME NEW a \in Priority, NEW b \in Priority, a # b
        PROVE  ToSet(new[a]) \cap ToSet(new[b]) = {}
    <3>1. ToSet(jq[a]) \cap ToSet(jq[b]) = {}
      BY <2>3 DEF QueuesOK
    <3> QED BY <2>2, <3>1
  <2> QED BY <2>1, <2>3 DEF QueuesOK
<1>2. \A q \in Priority : q # p => s \notin ToSet(jq[q])
  BY DEF QueuesOK
<1>3. \A x : x \in QueuedIn(new) <=> x \in QueuedIn(jq) /\ x # s
  BY <1>2 DEF QueuedIn
<1> QED BY <1>1, <1>3

\* The queues of a state that satisfies the invariant.
LEMMA QueuesAreOK ==
    ASSUME IInv
    PROVE  /\ QueuesOK(job_queue) /\ QueuedIn(job_queue) = Queued
           /\ Queued \subseteq live /\ live \subseteq DOMAIN sjob
           /\ job_queue \in [Priority -> Seq(SJobs)]
<1> QED BY DEF IInv, TypeOK, OneHolder, Shape, QueuesOK, QueuedIn, Queued

\* A pushed thread job is one more queued entry, a fresh one.
LEMMA PushQueues ==
    ASSUME IInv, NEW j \in Jobs, NEW p \in Priority, Push(j, p)
    PROVE  /\ QueuesOK(job_queue')
           /\ \/ /\ j \in ThreadJobs
                 /\ Queued' = Queued \cup {Len(sjob) + 1}
                 /\ worker_pc' # "waiting"
              \/ /\ j \in LoopJobs
                 /\ UNCHANGED <<job_queue, worker_pc>>
                 /\ Queued' = Queued
<1>1. /\ QueuesOK(job_queue) /\ QueuedIn(job_queue) = Queued
      /\ Queued \subseteq DOMAIN sjob
  BY QueuesAreOK
<1>2. Len(sjob) + 1 \in SJobs /\ Len(sjob) + 1 \notin DOMAIN sjob
  BY EntriesAreTyped, BoundsAssumption DEF IInv, Push, SJobs
<1>3. Queued' = QueuedIn(job_queue')
  BY DEF Queued, QueuedIn
<1>4. CASE j \in ThreadJobs
  <2>1. /\ job_queue' = [job_queue EXCEPT ![p] = Append(@, Len(sjob) + 1)]
        /\ worker_pc' # "waiting"
    BY <1>4, JobsAssumption DEF Push, Broadcast
  <2>2. QueuesOK(job_queue') /\ QueuedIn(job_queue') = Queued \cup {Len(sjob) + 1}
    BY <1>1, <1>2, <2>1, QueuePush
  <2> QED BY <1>3, <1>4, <2>1, <2>2
<1>5. CASE j \in LoopJobs
  <2>1. UNCHANGED <<job_queue, worker_pc>>
    BY <1>5, JobsAssumption DEF Push
  <2> QED BY <1>1, <1>3, <1>5, <2>1
<1> QED BY <1>4, <1>5 DEF Jobs

\* An entry that is found is moved: it stays queued, once.
LEMMA UpdateMoveQueues ==
    ASSUME IInv, UpdateMove
    PROVE  /\ QueuesOK(job_queue') /\ Queued' = Queued
           /\ worker_pc' = "waiting" => worker_pc = "waiting" /\ Queued = {}
<1>1. QueuesOK(job_queue)
  BY QueuesAreOK
<1>2. Queued = QueuedIn(job_queue) /\ Queued' = QueuedIn(job_queue')
  BY DEF Queued, QueuedIn
<1>3. NeverSleepsOnWork
  BY DEF IInv
<1>4. CASE InItsQueue(main_sjob)
  <2> DEFINE old == sjob[main_sjob].priority
             rest == Without(job_queue[old], main_sjob)
             removed == [job_queue EXCEPT ![old] = rest]
  <2>1. old \in Priority /\ main_priority \in Priority /\ main_sjob \in SJobs
    <3>1. main_sjob \in DOMAIN sjob
      BY <1>4 DEF IInv, Shape, InItsQueue
    <3> QED BY <3>1, EntriesAreTyped DEF IInv, TypeOK
  <2>2. main_sjob \in ToSet(job_queue[old])
    BY <1>4 DEF InItsQueue
  <2>3. job_queue[old] \in Seq(SJobs) /\ IsInjective(job_queue[old])
    BY <1>1, <2>1 DEF QueuesOK
  <2>4. /\ rest \in Seq(SJobs) /\ IsInjective(rest)
        /\ ToSet(rest) = ToSet(job_queue[old]) \ {main_sjob}
    BY <2>2, <2>3, WithoutRemoves
  <2>5. /\ worker_pc' # "waiting"
        /\ job_queue' = [removed EXCEPT ![main_priority] = Append(@, main_sjob)]
    BY <1>1, <1>4, <2>1 DEF UpdateMove, Broadcast, QueuesOK
  <2> HIDE DEF old, rest
  <2>6. /\ removed \in [Priority -> Seq(SJobs)]
        /\ removed[old] = rest
        /\ \A q \in Priority : q # old => removed[q] = job_queue[q]
    BY <1>1, <2>1, <2>4 DEF QueuesOK
  <2> HIDE DEF removed
  <2>7. TakenOut(job_queue, removed, old, main_sjob)
    BY <2>1, <2>2, <2>4, <2>6 DEF TakenOut
  <2>8. /\ QueuesOK(removed)
        /\ QueuedIn(removed) = QueuedIn(job_queue) \ {main_sjob}
    BY <1>1, <2>7, QueueRemove
  <2>9. /\ QueuesOK(job_queue')
        /\ QueuedIn(job_queue') = QueuedIn(removed) \cup {main_sjob}
    BY <2>1, <2>5, <2>8, QueuePush
  <2>10. main_sjob \in Queued
    BY <2>1, <2>2 DEF Queued
  <2> QED BY <1>1, <1>2, <2>5, <2>8, <2>9, <2>10
<1>5. CASE ~ InItsQueue(main_sjob)
  <2>1. UNCHANGED <<job_queue, worker_pc>>
    BY <1>5 DEF UpdateMove
  <2> QED BY <1>1, <1>2, <1>3, <2>1 DEF NeverSleepsOnWork
<1> QED BY <1>4, <1>5

\* The cancellation takes the entry of its job out, if it finds it.
LEMMA CancelHandlerQueues ==
    ASSUME IInv, CancelHandler
    PROVE  /\ QueuesOK(job_queue')
           /\ \/ /\ InItsQueue(main_sjob) /\ main_sjob \in Queued
                 /\ Queued' = Queued \ {main_sjob}
                 /\ Destroy({main_sjob})
              \/ /\ Queued' = Queued
                 /\ UNCHANGED <<job_queue, job_list, live, handlers>>
<1>1. QueuesOK(job_queue)
  BY QueuesAreOK
<1>2. Queued = QueuedIn(job_queue) /\ Queued' = QueuedIn(job_queue')
  BY DEF Queued, QueuedIn
<1>3. CASE InItsQueue(main_sjob)
  <2> DEFINE old == sjob[main_sjob].priority
             rest == Without(job_queue[old], main_sjob)
  <2>1. old \in Priority
    <3>1. main_sjob \in DOMAIN sjob
      BY <1>3 DEF IInv, Shape, InItsQueue
    <3> QED BY <3>1, EntriesAreTyped DEF IInv
  <2>2. main_sjob \in ToSet(job_queue[old])
    BY <1>3 DEF InItsQueue
  <2>3. job_queue[old] \in Seq(SJobs) /\ IsInjective(job_queue[old])
    BY <1>1, <2>1 DEF QueuesOK
  <2>4. /\ rest \in Seq(SJobs) /\ IsInjective(rest)
        /\ ToSet(rest) = ToSet(job_queue[old]) \ {main_sjob}
    BY <2>2, <2>3, WithoutRemoves
  <2>5. job_queue' = [job_queue EXCEPT ![old] = rest] /\ Destroy({main_sjob})
    BY <1>3 DEF CancelHandler
  <2> HIDE DEF old, rest
  <2>6. /\ job_queue' \in [Priority -> Seq(SJobs)]
        /\ job_queue'[old] = rest
        /\ \A q \in Priority : q # old => job_queue'[q] = job_queue[q]
    BY <1>1, <2>1, <2>4, <2>5 DEF QueuesOK
  <2>7. TakenOut(job_queue, job_queue', old, main_sjob)
    BY <2>1, <2>2, <2>4, <2>6 DEF TakenOut
  <2>8. /\ QueuesOK(job_queue')
        /\ QueuedIn(job_queue') = QueuedIn(job_queue) \ {main_sjob}
    BY <1>1, <2>7, QueueRemove
  <2>9. main_sjob \in Queued
    BY <2>1, <2>2 DEF Queued
  <2> QED BY <1>1, <1>2, <1>3, <2>5, <2>8, <2>9
<1>4. CASE ~ InItsQueue(main_sjob)
  <2>1. UNCHANGED <<job_queue, job_list, live, handlers>>
    BY <1>4 DEF CancelHandler
  <2> QED BY <1>1, <1>2, <2>1
<1> QED BY <1>3, <1>4

\* The worker pops a queued entry, or waits when nothing is queued.
LEMMA GetNextQueues ==
    ASSUME IInv, GetNext
    PROVE  /\ QueuesOK(job_queue')
           /\ \/ /\ worker_pc' = "check"
                 /\ worker_sjob' \in Queued
                 /\ Queued' = Queued \ {worker_sjob'}
              \/ /\ worker_pc' = "waiting"
                 /\ Queued = {} /\ Queued' = {}
                 /\ UNCHANGED <<worker_sjob, job_queue>>
<1>1. QueuesOK(job_queue)
  BY QueuesAreOK
<1>2. Queued = QueuedIn(job_queue) /\ Queued' = QueuedIn(job_queue')
  BY DEF Queued, QueuedIn
<1>3. ASSUME NEW p \in Priority, job_queue[p] # <<>>,
             worker_pc' = "check",
             worker_sjob' = Head(job_queue[p]),
             job_queue' = [job_queue EXCEPT ![p] = Tail(@)]
      PROVE  /\ QueuesOK(job_queue')
             /\ worker_sjob' \in Queued
             /\ Queued' = Queued \ {worker_sjob'}
  <2>1. job_queue[p] \in Seq(SJobs) /\ IsInjective(job_queue[p])
    BY <1>1 DEF QueuesOK
  <2>2. /\ Tail(job_queue[p]) \in Seq(SJobs) /\ IsInjective(Tail(job_queue[p]))
        /\ worker_sjob' \in ToSet(job_queue[p])
        /\ ToSet(Tail(job_queue[p])) = ToSet(job_queue[p]) \ {worker_sjob'}
    BY <1>3, <2>1, TailPops
  <2>3. /\ job_queue' \in [Priority -> Seq(SJobs)]
        /\ job_queue'[p] = Tail(job_queue[p])
        /\ \A q \in Priority : q # p => job_queue'[q] = job_queue[q]
    BY <1>1, <1>3, <2>2 DEF QueuesOK
  <2>4. TakenOut(job_queue, job_queue', p, worker_sjob')
    BY <2>2, <2>3 DEF TakenOut
  <2>5. /\ QueuesOK(job_queue')
        /\ QueuedIn(job_queue') = QueuedIn(job_queue) \ {worker_sjob'}
    BY <1>1, <2>4, QueueRemove
  <2>6. worker_sjob' \in Queued
    BY <2>2 DEF Queued
  <2> QED BY <1>2, <2>5, <2>6
<1>4. ASSUME \A p \in Priority : job_queue[p] = <<>>,
             UNCHANGED <<worker_sjob, job_queue>>
      PROVE  QueuesOK(job_queue') /\ Queued = {} /\ Queued' = {}
  BY <1>1, <1>4 DEF Queued, ToSet
<1> QED BY <1>3, <1>4 DEF GetNext

-----------------------------------------------------------------------------
(* Each conjunct of the invariant is preserved by every step *)

\* What the leaves below need to know of the state before the step.
LEMMA WorkerFacts ==
    ASSUME IInv
    PROVE  /\ worker_sjob # 0 => worker_sjob \in DOMAIN sjob /\ WorkerJob \in Jobs
           /\ worker_pc \notin {"get", "waiting"} => worker_sjob # 0
           /\ DOMAIN sjob \subseteq SJobs /\ 0 \notin DOMAIN sjob
           /\ None \notin Jobs
<1> QED BY EntriesAreTyped, JobsAssumption DEF IInv, Shape, Jobs

\* Emitting a signal keeps the record of the signals typed.
LEMMA EmitTyped ==
    ASSUME TypeOK, NEW j \in Jobs, NEW x \in {"finished", "cancelled"}, Emit(j, x)
    PROVE  signals' \in [Jobs -> Seq({"finished", "cancelled"})]
<1> DEFINE S == {"finished", "cancelled"}
<1>1. signals \in [Jobs -> Seq(S)]
  BY DEF TypeOK
<1>2. x \in S
  OBVIOUS
<1> HIDE DEF S
<1>3. Append(signals[j], x) \in Seq(S)
  BY <1>1, <1>2
<1>4. signals' \in [Jobs -> Seq(S)]
  BY <1>1, <1>3 DEF Emit
<1> QED BY <1>4 DEF S

\* TypeOK is preserved.
LEMMA TypeStep == IInv /\ [Next]_vars => TypeOK'
<1> SUFFICES ASSUME IInv, [Next]_vars PROVE TypeOK'
  OBVIOUS
<1> USE BoundsAssumption
<1>1. TypeOK
  BY DEF IInv
<1>2. /\ worker_sjob # 0 => WorkerJob \in Jobs
      /\ worker_pc \notin {"get", "waiting"} => worker_sjob # 0
      /\ main_pc # "ready" => main_job \in Jobs
  BY WorkerFacts DEF IInv, Shape
<1>3. /\ NoWord \in Word
      /\ \A w \in Word, b \in BOOLEAN :
           /\ [w EXCEPT !.cancelled = b] \in Word
           /\ [w EXCEPT !.failed = b] \in Word
           /\ [w EXCEPT !.finished = b] \in Word
           /\ [w EXCEPT !.failed = b, !.finished = FALSE] \in Word
           /\ [w EXCEPT !.finished = TRUE, !.failed = b] \in Word
  BY DEF NoWord, Word
<1>4. ASSUME NEW j \in Jobs, NEW p \in Priority, Push(j, p) PROVE TypeOK'
  <2>1. job_queue' \in [Priority -> Seq(SJobs)]
    BY <1>4, PushQueues DEF QueuesOK
  <2>2. /\ sjob' \in Seq([job : Jobs, priority : Priority])
        /\ Len(sjob') <= MaxPush /\ Len(sjob) + 1 \in SJobs
    BY <1>1, <1>4 DEF TypeOK, Push, SJobs
  <2>3. signals' \in [Jobs -> Seq({"finished", "cancelled"})]
    BY <1>1, <1>4 DEF TypeOK, Push
  <2>4. worker_pc' \in WorkerPc /\ run_idles' \in SUBSET Jobs
    BY <1>1, <1>4 DEF TypeOK, Push, Broadcast, WorkerPc
  <2> QED BY <1>1, <1>4, <2>1, <2>2, <2>3, <2>4 DEF TypeOK, Push, mainVars
<1>5. ASSUME NEW j \in Jobs, NEW p \in Priority, UpdateFind(j, p) PROVE TypeOK'
  <2>1. main_sjob' \in SJobs \cup {0}
    BY <1>1, <1>5 DEF TypeOK, UpdateFind
  <2> QED BY <1>1, <1>5, <2>1 DEF TypeOK, UpdateFind, MainGoto, MainPc,
             sjobVars, jobVars, loopVars, workerVars, mainVars
<1>6. ASSUME NEW j \in Jobs, CancelLoad(j) PROVE TypeOK'
  BY <1>1, <1>3, <1>6 DEF TypeOK, CancelLoad, MainGoto, MainPc, Emit, Destroy,
     sjobVars, jobVars, loopVars, workerVars, mainVars
<1>7. ASSUME NEW j \in Jobs, EmitFinished(j) PROVE TypeOK'
  <2>1. signals' \in [Jobs -> Seq({"finished", "cancelled"})]
    BY <1>1, <1>7, EmitTyped DEF TypeOK, EmitFinished
  <2> QED BY <1>1, <1>7, <2>1 DEF TypeOK, EmitFinished, workerVars, mainVars, sjobVars
<1>8. ASSUME NEW j \in Jobs, LoopJobIdle(j) PROVE TypeOK'
  <2>1. signals' \in [Jobs -> Seq({"finished", "cancelled"})]
    BY <1>1, <1>8, EmitTyped DEF TypeOK, LoopJobIdle
  <2>2. flags' \in [Jobs -> Word]
    <3>1. /\ flags \in [Jobs -> Word]
          /\ flags' = flags \/ flags' = [flags EXCEPT ![j] =
               [[flags[j] EXCEPT !.finished = TRUE] EXCEPT !.failed = FALSE]]
      BY <1>1, <1>8 DEF TypeOK, LoopJobIdle
    <3>2. [[flags[j] EXCEPT !.finished = TRUE] EXCEPT !.failed = FALSE] \in Word
      BY <1>3, <3>1
    <3> QED BY <3>1, <3>2
  <2>3. todo' \in [Jobs -> 1 .. LoopSteps] /\ run_idles' \in SUBSET Jobs
    <3>1. todo \in [Jobs -> 1 .. LoopSteps] /\ run_idles \in SUBSET Jobs
      BY <1>1 DEF TypeOK
    <3>2. \/ todo' = todo
          \/ todo[j] > 1 /\ todo' = [todo EXCEPT ![j] = todo[j] - 1]
      BY <1>8 DEF LoopJobIdle
    <3>3. run_idles' = run_idles \/ run_idles' = run_idles \ {j}
      BY <1>8 DEF LoopJobIdle
    <3>4. todo[j] \in 1 .. LoopSteps
      BY <3>1
    <3>5. todo[j] > 1 => todo[j] - 1 \in 1 .. LoopSteps
      BY <3>4
    <3> QED BY <3>1, <3>2, <3>3, <3>5
  <2>4. /\ job_list' \in SUBSET SJobs /\ live' \in SUBSET SJobs
        /\ handlers' \in SUBSET SJobs /\ sjob' = sjob
    BY <1>1, <1>8 DEF TypeOK, LoopJobIdle, Destroy, sjobVars
  <2> QED BY <1>1, <1>8, <2>1, <2>2, <2>3, <2>4
          DEF TypeOK, LoopJobIdle, workerVars, mainVars
<1>9. ASSUME UpdateMove PROVE TypeOK'
  <2>1. job_queue' \in [Priority -> Seq(SJobs)]
    BY <1>9, UpdateMoveQueues DEF QueuesOK
  <2>2. worker_pc' \in WorkerPc
    BY <1>1, <1>9 DEF TypeOK, UpdateMove, Broadcast, WorkerPc
  <2>3. 0 \in Priority
    BY DEF Priority
  <2> QED BY <1>1, <1>3, <1>9, <2>1, <2>2, <2>3
          DEF TypeOK, UpdateMove, MainReturns, MainPc, sjobVars, jobVars, loopVars
<1>10. ASSUME CancelStore PROVE TypeOK'
  BY <1>1, <1>10, <1>2, <1>3 DEF CancelStore, TypeOK,
     sjobVars, jobVars, loopVars, workerVars, mainVars, MainGoto, WorkerGoto, MainReturns, MainPc, WorkerPc, Emit,
     Destroy, StoreWord, QueuesOK, Priority
<1>11. ASSUME CancelFlag PROVE TypeOK'
  BY <1>1, <1>11, <1>2, <1>3 DEF CancelFlag, TypeOK,
     sjobVars, jobVars, loopVars, workerVars, mainVars, MainGoto, WorkerGoto, MainReturns, MainPc, WorkerPc, Emit,
     Destroy, StoreWord, QueuesOK, Priority
<1>12. ASSUME CancelEmission PROVE TypeOK'
  <2>1. main_sjob' \in SJobs \cup {0} /\ main_pc' \in MainPc
    BY <1>1, <1>12 DEF TypeOK, CancelEmission, PendingHandlers, MainPc
  <2> QED BY <1>1, <1>12, <2>1
          DEF TypeOK, CancelEmission, sjobVars, jobVars, loopVars, workerVars
<1>13. ASSUME CancelHandler PROVE TypeOK'
  BY <1>1, <1>13, <1>2, <1>3, CancelHandlerQueues DEF CancelHandler, TypeOK,
     sjobVars, jobVars, loopVars, workerVars, mainVars, MainGoto, WorkerGoto, MainReturns, MainPc, WorkerPc, Emit,
     Destroy, StoreWord, QueuesOK, Priority
<1>14. ASSUME CancelCheck PROVE TypeOK'
  <2>1. 0 \in Priority
    BY DEF Priority
  <2> QED BY <1>1, <1>3, <1>14, <2>1
          DEF TypeOK, CancelCheck, MainReturns, MainPc, sjobVars, jobVars,
              loopVars, workerVars
<1>15. ASSUME EmitCancelled PROVE TypeOK'
  <2>1. 0 \in Priority
    BY DEF Priority
  <2>2. signals' \in [Jobs -> Seq({"finished", "cancelled"})]
    BY <1>1, <1>2, <1>15, EmitTyped DEF EmitCancelled
  <2>3. /\ job_list' \in SUBSET SJobs /\ live' \in SUBSET SJobs
        /\ handlers' \in SUBSET SJobs
    BY <1>1, <1>15 DEF TypeOK, EmitCancelled, Destroy
  <2> QED BY <1>1, <1>3, <1>15, <2>1, <2>2, <2>3
          DEF TypeOK, EmitCancelled, MainReturns, MainPc, loopVars, workerVars
<1>16. ASSUME GetNext PROVE TypeOK'
  <2>1. /\ job_queue' \in [Priority -> Seq(SJobs)]
        /\ worker_sjob' \in SJobs \cup {0}
        /\ worker_pc' \in WorkerPc
    BY <1>1, <1>16, GetNextQueues, QueuesAreOK DEF TypeOK, QueuesOK, WorkerPc
  <2> QED BY <1>1, <1>16, <2>1
          DEF TypeOK, GetNext, sjobVars, jobVars, loopVars, mainVars
<1>17. ASSUME CheckCancelled PROVE TypeOK'
  BY <1>1, <1>17, <1>2, <1>3 DEF CheckCancelled, TypeOK,
     sjobVars, jobVars, loopVars, workerVars, mainVars, MainGoto, WorkerGoto, MainReturns, MainPc, WorkerPc, Emit,
     Destroy, StoreWord, QueuesOK, Priority
<1>18. ASSUME Claim PROVE TypeOK'
  BY <1>1, <1>18, <1>2, <1>3 DEF Claim, TypeOK,
     sjobVars, jobVars, loopVars, workerVars, mainVars, MainGoto, WorkerGoto, MainReturns, MainPc, WorkerPc, Emit,
     Destroy, StoreWord, QueuesOK, Priority
<1>19. ASSUME StartRun PROVE TypeOK'
  BY <1>1, <1>19, <1>2, <1>3 DEF StartRun, TypeOK,
     sjobVars, jobVars, loopVars, workerVars, mainVars, MainGoto, WorkerGoto, MainReturns, MainPc, WorkerPc, Emit,
     Destroy, StoreWord, QueuesOK, Priority
<1>20. ASSUME ResetFlags PROVE TypeOK'
  BY <1>1, <1>20, <1>2, <1>3 DEF ResetFlags, TypeOK,
     sjobVars, jobVars, loopVars, workerVars, mainVars, MainGoto, WorkerGoto, MainReturns, MainPc, WorkerPc, Emit,
     Destroy, StoreWord, QueuesOK, Priority
<1>21. ASSUME RunBody PROVE TypeOK'
  BY <1>1, <1>21, <1>2, <1>3 DEF RunBody, TypeOK,
     sjobVars, jobVars, loopVars, workerVars, mainVars, MainGoto, WorkerGoto, MainReturns, MainPc, WorkerPc, Emit,
     Destroy, StoreWord, QueuesOK, Priority
<1>22. ASSUME MarkOutcome PROVE TypeOK'
  BY <1>1, <1>22, <1>2, <1>3 DEF MarkOutcome, TypeOK,
     sjobVars, jobVars, loopVars, workerVars, mainVars, MainGoto, WorkerGoto, MainReturns, MainPc, WorkerPc, Emit,
     Destroy, StoreWord, QueuesOK, Priority
<1>23. ASSUME EmitCheck PROVE TypeOK'
  BY <1>1, <1>23, <1>2, <1>3 DEF EmitCheck, TypeOK,
     sjobVars, jobVars, loopVars, workerVars, mainVars, MainGoto, WorkerGoto, MainReturns, MainPc, WorkerPc, Emit,
     Destroy, StoreWord, QueuesOK, Priority
<1>24. ASSUME SetFinished PROVE TypeOK'
  BY <1>1, <1>24, <1>2, <1>3 DEF SetFinished, TypeOK,
     sjobVars, jobVars, loopVars, workerVars, mainVars, MainGoto, WorkerGoto, MainReturns, MainPc, WorkerPc, Emit,
     Destroy, StoreWord, QueuesOK, Priority
<1>25. ASSUME AddIdle PROVE TypeOK'
  BY <1>1, <1>25, <1>2, <1>3 DEF AddIdle, TypeOK,
     sjobVars, jobVars, loopVars, workerVars, mainVars, MainGoto, WorkerGoto, MainReturns, MainPc, WorkerPc, Emit,
     Destroy, StoreWord, QueuesOK, Priority
<1>26. ASSUME StoreId PROVE TypeOK'
  BY <1>1, <1>26, <1>2, <1>3 DEF StoreId, TypeOK,
     sjobVars, jobVars, loopVars, workerVars, mainVars, MainGoto, WorkerGoto, MainReturns, MainPc, WorkerPc, Emit,
     Destroy, StoreWord, QueuesOK, Priority
<1>27. ASSUME Unset PROVE TypeOK'
  BY <1>1, <1>27, <1>2, <1>3 DEF Unset, TypeOK,
     sjobVars, jobVars, loopVars, workerVars, mainVars, MainGoto, WorkerGoto, MainReturns, MainPc, WorkerPc, Emit,
     Destroy, StoreWord, QueuesOK, Priority
<1>28. ASSUME Disconnect PROVE TypeOK'
  BY <1>1, <1>28, <1>2, <1>3 DEF Disconnect, TypeOK,
     sjobVars, jobVars, loopVars, workerVars, mainVars, MainGoto, WorkerGoto, MainReturns, MainPc, WorkerPc, Emit,
     Destroy, StoreWord, QueuesOK, Priority
<1>29. ASSUME Unlist PROVE TypeOK'
  BY <1>1, <1>29, <1>2, <1>3 DEF Unlist, TypeOK,
     sjobVars, jobVars, loopVars, workerVars, mainVars, MainGoto, WorkerGoto, MainReturns, MainPc, WorkerPc, Emit,
     Destroy, StoreWord, QueuesOK, Priority
<1>30. ASSUME Free PROVE TypeOK'
  BY <1>1, <1>30, <1>2, <1>3 DEF Free, TypeOK,
     sjobVars, jobVars, loopVars, workerVars, mainVars, MainGoto, WorkerGoto, MainReturns, MainPc, WorkerPc, Emit,
     Destroy, StoreWord, QueuesOK, Priority
<1>31. ASSUME SpuriousWakeup PROVE TypeOK'
  BY <1>1, <1>31, <1>2, <1>3 DEF SpuriousWakeup, TypeOK,
     sjobVars, jobVars, loopVars, workerVars, mainVars, MainGoto, WorkerGoto, MainReturns, MainPc, WorkerPc, Emit,
     Destroy, StoreWord, QueuesOK, Priority
<1>32. ASSUME UNCHANGED vars PROVE TypeOK'
  BY <1>1, <1>32 DEF TypeOK, vars
<1> QED BY <1>4, <1>5, <1>6, <1>7, <1>8, <1>9, <1>10, <1>11, <1>12, <1>13,
           <1>14, <1>15, <1>16, <1>17, <1>18, <1>19, <1>20, <1>21, <1>22,
           <1>23, <1>24, <1>25, <1>26, <1>27, <1>28, <1>29, <1>30, <1>31,
           <1>32
     DEF Next, Client, MainLoop, Idles, Worker

\* A step that leaves the entries where they are.
Quiet ==
    /\ UNCHANGED <<job_queue, job_list, sjob, live, handlers, worker_sjob>>
    /\ worker_pc' = "waiting" => worker_pc = "waiting"

\* Every step but those of nine actions is quiet.
LEMMA StepKinds ==
    ASSUME [Next]_vars
    PROVE  \/ \E j \in Jobs, p \in Priority : Push(j, p)
           \/ \E j \in Jobs : LoopJobIdle(j)
           \/ UpdateMove \/ CancelHandler \/ EmitCancelled
           \/ GetNext \/ Disconnect \/ Unlist \/ Free
           \/ Quiet
<1>1. ASSUME NEW j \in Jobs, NEW p \in Priority, UpdateFind(j, p) PROVE Quiet
  BY <1>1 DEF Quiet, UpdateFind, sjobVars, workerVars
<1>2. ASSUME NEW j \in Jobs, CancelLoad(j) PROVE Quiet
  BY <1>2 DEF Quiet, CancelLoad, sjobVars, workerVars
<1>3. ASSUME NEW j \in Jobs, EmitFinished(j) PROVE Quiet
  BY <1>3 DEF Quiet, EmitFinished, sjobVars, workerVars
<1>4. ASSUME CancelStore PROVE Quiet
  BY <1>4 DEF Quiet, CancelStore, WorkerGoto, sjobVars, workerVars
<1>5. ASSUME CancelFlag PROVE Quiet
  BY <1>5 DEF Quiet, CancelFlag, WorkerGoto, sjobVars, workerVars
<1>6. ASSUME CancelEmission PROVE Quiet
  BY <1>6 DEF Quiet, CancelEmission, WorkerGoto, sjobVars, workerVars
<1>7. ASSUME CancelCheck PROVE Quiet
  BY <1>7 DEF Quiet, CancelCheck, WorkerGoto, sjobVars, workerVars
<1>8. ASSUME CheckCancelled PROVE Quiet
  BY <1>8 DEF Quiet, CheckCancelled, WorkerGoto, sjobVars, workerVars
<1>9. ASSUME Claim PROVE Quiet
  BY <1>9 DEF Quiet, Claim, WorkerGoto, sjobVars, workerVars
<1>10. ASSUME StartRun PROVE Quiet
  BY <1>10 DEF Quiet, StartRun, WorkerGoto, sjobVars, workerVars
<1>11. ASSUME ResetFlags PROVE Quiet
  BY <1>11 DEF Quiet, ResetFlags, WorkerGoto, sjobVars, workerVars
<1>12. ASSUME RunBody PROVE Quiet
  BY <1>12 DEF Quiet, RunBody, WorkerGoto, sjobVars, workerVars
<1>13. ASSUME MarkOutcome PROVE Quiet
  BY <1>13 DEF Quiet, MarkOutcome, WorkerGoto, sjobVars, workerVars
<1>14. ASSUME EmitCheck PROVE Quiet
  BY <1>14 DEF Quiet, EmitCheck, WorkerGoto, sjobVars, workerVars
<1>15. ASSUME SetFinished PROVE Quiet
  BY <1>15 DEF Quiet, SetFinished, WorkerGoto, sjobVars, workerVars
<1>16. ASSUME AddIdle PROVE Quiet
  BY <1>16 DEF Quiet, AddIdle, WorkerGoto, sjobVars, workerVars
<1>17. ASSUME StoreId PROVE Quiet
  BY <1>17 DEF Quiet, StoreId, WorkerGoto, sjobVars, workerVars
<1>18. ASSUME Unset PROVE Quiet
  BY <1>18 DEF Quiet, Unset, WorkerGoto, sjobVars, workerVars
<1>19. ASSUME SpuriousWakeup PROVE Quiet
  BY <1>19 DEF Quiet, SpuriousWakeup, WorkerGoto, sjobVars, workerVars
<1>20. ASSUME UNCHANGED vars PROVE Quiet
  BY <1>20 DEF Quiet, vars
<1> QED BY <1>1, <1>2, <1>3, <1>4, <1>5, <1>6, <1>7, <1>8, <1>9, <1>10,
           <1>11, <1>12, <1>13, <1>14, <1>15, <1>16, <1>17, <1>18, <1>19,
           <1>20
    DEF Next, Client, MainLoop, Idles, Worker

\* Shape is preserved.
LEMMA ShapeStep == IInv /\ [Next]_vars => Shape'
<1> SUFFICES ASSUME IInv, [Next]_vars PROVE Shape'
  OBVIOUS
<1>1. Shape /\ DOMAIN sjob \subseteq SJobs /\ 0 \notin DOMAIN sjob
  BY WorkerFacts DEF IInv
<1>2. ASSUME NEW j \in Jobs, NEW p \in Priority, Push(j, p) PROVE Shape'
  <2>1. sjob \in Seq([job : Jobs, priority : Priority])
    BY DEF IInv, TypeOK
  <2>2. /\ DOMAIN sjob' = DOMAIN sjob \cup {Len(sjob) + 1}
        /\ Len(sjob) + 1 \notin DOMAIN sjob
    BY <1>2, <2>1 DEF Push
  <2>3. live' = live \cup {Len(sjob) + 1}
    BY <1>2 DEF Push
  <2>4. /\ job_list' = job_list \cup {Len(sjob) + 1}
        /\ handlers' = handlers \cup {Len(sjob) + 1}
        /\ UNCHANGED <<worker_sjob, main_pc, main_job, main_sjob>>
    BY <1>2 DEF Push, mainVars
  <2>5. worker_pc' = worker_pc \/ (worker_pc = "waiting" /\ worker_pc' = "get")
    BY <1>2 DEF Push, Broadcast
  <2>6. run_idles' \subseteq LoopJobs
    BY <1>1, <1>2 DEF Push, Shape
  <2> QED BY <1>1, <2>2, <2>3, <2>4, <2>5, <2>6 DEF Shape
<1>3. ASSUME NEW j \in Jobs, NEW p \in Priority, UpdateFind(j, p) PROVE Shape'
  BY <1>1, <1>3 DEF Shape, UpdateFind, SJobsOf, MainGoto, sjobVars, loopVars, workerVars
<1>4. ASSUME NEW j \in Jobs, CancelLoad(j) PROVE Shape'
  BY <1>1, <1>4 DEF Shape, CancelLoad, MainGoto, Destroy, sjobVars, loopVars, workerVars, mainVars
<1>5. ASSUME NEW j \in Jobs, EmitFinished(j) PROVE Shape'
  BY <1>1, <1>5 DEF Shape, EmitFinished, MainGoto, Destroy, sjobVars, loopVars, workerVars, mainVars
<1>6. ASSUME NEW j \in Jobs, LoopJobIdle(j) PROVE Shape'
  BY <1>1, <1>6 DEF Shape, LoopJobIdle, MainGoto, Destroy, sjobVars, loopVars, workerVars, mainVars
<1>7. ASSUME GetNext PROVE Shape'
  <2>1. Queued \subseteq DOMAIN sjob
    BY QueuesAreOK
  <2> QED BY <1>1, <1>7, <2>1, GetNextQueues DEF Shape, GetNext, sjobVars, loopVars, mainVars
<1>8. ASSUME CancelEmission PROVE Shape'
  <2>1. handlers \subseteq DOMAIN sjob
    BY DEF IInv, ReachableIsLive, Shape
  <2> QED BY <1>1, <1>8, <2>1
          DEF Shape, CancelEmission, PendingHandlers, sjobVars, loopVars, workerVars
<1>9. ASSUME UpdateMove PROVE Shape'
  BY <1>1, <1>9 DEF Shape, UpdateMove, Broadcast, MainReturns, sjobVars, loopVars, workerVars
<1>10. ASSUME CancelStore PROVE Shape'
  BY <1>1, <1>10 DEF Shape, CancelStore, MainGoto, sjobVars, loopVars, workerVars
<1>11. ASSUME CancelFlag PROVE Shape'
  BY <1>1, <1>11 DEF Shape, CancelFlag, sjobVars, loopVars, workerVars
<1>12. ASSUME CancelHandler PROVE Shape'
  BY <1>1, <1>12 DEF Shape, CancelHandler, Destroy, MainGoto, sjobVars, loopVars, workerVars
<1>13. ASSUME CancelCheck PROVE Shape'
  BY <1>1, <1>13 DEF Shape, CancelCheck, MainReturns, sjobVars, loopVars, workerVars
<1>14. ASSUME EmitCancelled PROVE Shape'
  BY <1>1, <1>14 DEF Shape, EmitCancelled, MainReturns, Destroy, sjobVars, loopVars, workerVars
<1>15. ASSUME CheckCancelled PROVE Shape'
  BY <1>1, <1>15 DEF Shape, CheckCancelled, sjobVars, loopVars, mainVars
<1>16. ASSUME Claim PROVE Shape'
  BY <1>1, <1>16 DEF Shape, Claim, WorkerGoto, sjobVars, loopVars, mainVars
<1>17. ASSUME StartRun PROVE Shape'
  BY <1>1, <1>17 DEF Shape, StartRun, sjobVars, loopVars, mainVars
<1>18. ASSUME ResetFlags PROVE Shape'
  BY <1>1, <1>18 DEF Shape, ResetFlags, WorkerGoto, sjobVars, loopVars, mainVars
<1>19. ASSUME RunBody PROVE Shape'
  BY <1>1, <1>19 DEF Shape, RunBody, sjobVars, loopVars, mainVars
<1>20. ASSUME MarkOutcome PROVE Shape'
  BY <1>1, <1>20 DEF Shape, MarkOutcome, sjobVars, loopVars, mainVars
<1>21. ASSUME EmitCheck PROVE Shape'
  BY <1>1, <1>21 DEF Shape, EmitCheck, sjobVars, loopVars, mainVars
<1>22. ASSUME SetFinished PROVE Shape'
  BY <1>1, <1>22 DEF Shape, SetFinished, WorkerGoto, sjobVars, loopVars, mainVars
<1>23. ASSUME AddIdle PROVE Shape'
  BY <1>1, <1>23 DEF Shape, AddIdle, WorkerGoto, sjobVars, loopVars, mainVars
<1>24. ASSUME StoreId PROVE Shape'
  BY <1>1, <1>24 DEF Shape, StoreId, WorkerGoto, sjobVars, loopVars, mainVars
<1>25. ASSUME Unset PROVE Shape'
  BY <1>1, <1>25 DEF Shape, Unset, WorkerGoto, sjobVars, loopVars, mainVars
<1>26. ASSUME Disconnect PROVE Shape'
  BY <1>1, <1>26 DEF Shape, Disconnect, WorkerGoto, sjobVars, loopVars, mainVars
<1>27. ASSUME Unlist PROVE Shape'
  BY <1>1, <1>27 DEF Shape, Unlist, WorkerGoto, sjobVars, loopVars, mainVars
<1>28. ASSUME Free PROVE Shape'
  BY <1>1, <1>28 DEF Shape, Free, WorkerGoto, sjobVars, loopVars, mainVars
<1>29. ASSUME SpuriousWakeup PROVE Shape'
  BY <1>1, <1>29 DEF Shape, SpuriousWakeup, WorkerGoto, sjobVars, loopVars, mainVars
<1>30. ASSUME UNCHANGED vars PROVE Shape'
  BY <1>1, <1>30 DEF Shape, vars
<1> QED BY <1>2, <1>3, <1>4, <1>5, <1>6, <1>7, <1>8, <1>9, <1>10, <1>11,
           <1>12, <1>13, <1>14, <1>15, <1>16, <1>17, <1>18, <1>19, <1>20,
           <1>21, <1>22, <1>23, <1>24, <1>25, <1>26, <1>27, <1>28, <1>29,
           <1>30
    DEF Next, Client, MainLoop, Idles, Worker

\* RunningJobIsHeld is preserved.
LEMMA RunningStep == IInv /\ [Next]_vars => RunningJobIsHeld'
<1> SUFFICES ASSUME IInv, [Next]_vars PROVE RunningJobIsHeld'
  OBVIOUS
<1>1. /\ RunningJobIsHeld
      /\ worker_pc \notin {"get", "waiting"} => worker_sjob # 0
      /\ worker_sjob # 0 => worker_sjob \in DOMAIN sjob
      /\ None \notin Jobs
  BY WorkerFacts DEF IInv
<1>2. ASSUME NEW j \in Jobs, NEW p \in Priority, Push(j, p)
      PROVE  RunningJobIsHeld'
  <2>1. sjob \in Seq([job : Jobs, priority : Priority])
    BY DEF IInv, TypeOK
  <2>2. \A s \in DOMAIN sjob : sjob'[s] = sjob[s]
    BY <1>2, <2>1 DEF Push
  <2>3. UNCHANGED <<running_job, worker_sjob>>
    BY <1>2 DEF Push
  <2>4. worker_pc' = worker_pc \/ worker_pc = "waiting"
    BY <1>2 DEF Push, Broadcast
  <2> QED BY <1>1, <2>2, <2>3, <2>4 DEF RunningJobIsHeld, WorkerJob
<1>3. ASSUME NEW j \in Jobs, NEW p \in Priority, UpdateFind(j, p)
      PROVE  RunningJobIsHeld'
  BY <1>1, <1>3 DEF RunningJobIsHeld, WorkerJob, UpdateFind, sjobVars, workerVars
<1>4. ASSUME NEW j \in Jobs, CancelLoad(j) PROVE RunningJobIsHeld'
  BY <1>1, <1>4 DEF RunningJobIsHeld, WorkerJob, CancelLoad, sjobVars, workerVars
<1>5. ASSUME NEW j \in Jobs, EmitFinished(j) PROVE RunningJobIsHeld'
  BY <1>1, <1>5 DEF RunningJobIsHeld, WorkerJob, EmitFinished, sjobVars, workerVars
<1>6. ASSUME NEW j \in Jobs, LoopJobIdle(j) PROVE RunningJobIsHeld'
  BY <1>1, <1>6 DEF RunningJobIsHeld, WorkerJob, LoopJobIdle, sjobVars, workerVars
<1>7. ASSUME UpdateMove PROVE RunningJobIsHeld'
  BY <1>1, <1>7 DEF RunningJobIsHeld, WorkerJob, UpdateMove, Broadcast, sjobVars, workerVars
<1>8. ASSUME CancelStore PROVE RunningJobIsHeld'
  BY <1>1, <1>8 DEF RunningJobIsHeld, WorkerJob, CancelStore, sjobVars, workerVars
<1>9. ASSUME CancelFlag PROVE RunningJobIsHeld'
  BY <1>1, <1>9 DEF RunningJobIsHeld, WorkerJob, CancelFlag, sjobVars, workerVars
<1>10. ASSUME CancelEmission PROVE RunningJobIsHeld'
  BY <1>1, <1>10 DEF RunningJobIsHeld, WorkerJob, CancelEmission, sjobVars, workerVars
<1>11. ASSUME CancelHandler PROVE RunningJobIsHeld'
  BY <1>1, <1>11 DEF RunningJobIsHeld, WorkerJob, CancelHandler, sjobVars, workerVars
<1>12. ASSUME CancelCheck PROVE RunningJobIsHeld'
  BY <1>1, <1>12 DEF RunningJobIsHeld, WorkerJob, CancelCheck, sjobVars, workerVars
<1>13. ASSUME EmitCancelled PROVE RunningJobIsHeld'
  BY <1>1, <1>13 DEF RunningJobIsHeld, WorkerJob, EmitCancelled, sjobVars, workerVars
<1>14. ASSUME GetNext PROVE RunningJobIsHeld'
  BY <1>1, <1>14 DEF RunningJobIsHeld, WorkerJob, GetNext, sjobVars
<1>15. ASSUME CheckCancelled PROVE RunningJobIsHeld'
  BY <1>1, <1>15 DEF RunningJobIsHeld, WorkerJob, CheckCancelled, sjobVars
<1>16. ASSUME Claim PROVE RunningJobIsHeld'
  BY <1>1, <1>16 DEF RunningJobIsHeld, WorkerJob, Claim, WorkerGoto, sjobVars
<1>17. ASSUME StartRun PROVE RunningJobIsHeld'
  BY <1>1, <1>17 DEF RunningJobIsHeld, WorkerJob, StartRun, sjobVars
<1>18. ASSUME ResetFlags PROVE RunningJobIsHeld'
  BY <1>1, <1>18 DEF RunningJobIsHeld, WorkerJob, ResetFlags, WorkerGoto, sjobVars
<1>19. ASSUME RunBody PROVE RunningJobIsHeld'
  BY <1>1, <1>19 DEF RunningJobIsHeld, WorkerJob, RunBody, sjobVars
<1>20. ASSUME MarkOutcome PROVE RunningJobIsHeld'
  BY <1>1, <1>20 DEF RunningJobIsHeld, WorkerJob, MarkOutcome, sjobVars
<1>21. ASSUME EmitCheck PROVE RunningJobIsHeld'
  BY <1>1, <1>21 DEF RunningJobIsHeld, WorkerJob, EmitCheck, sjobVars
<1>22. ASSUME SetFinished PROVE RunningJobIsHeld'
  BY <1>1, <1>22 DEF RunningJobIsHeld, WorkerJob, SetFinished, WorkerGoto, sjobVars
<1>23. ASSUME AddIdle PROVE RunningJobIsHeld'
  BY <1>1, <1>23 DEF RunningJobIsHeld, WorkerJob, AddIdle, WorkerGoto, sjobVars
<1>24. ASSUME StoreId PROVE RunningJobIsHeld'
  BY <1>1, <1>24 DEF RunningJobIsHeld, WorkerJob, StoreId, WorkerGoto, sjobVars
<1>25. ASSUME Unset PROVE RunningJobIsHeld'
  BY <1>1, <1>25 DEF RunningJobIsHeld, WorkerJob, Unset, WorkerGoto, sjobVars
<1>26. ASSUME Disconnect PROVE RunningJobIsHeld'
  BY <1>1, <1>26 DEF RunningJobIsHeld, WorkerJob, Disconnect, WorkerGoto, sjobVars
<1>27. ASSUME Unlist PROVE RunningJobIsHeld'
  BY <1>1, <1>27 DEF RunningJobIsHeld, WorkerJob, Unlist, WorkerGoto, sjobVars
<1>28. ASSUME Free PROVE RunningJobIsHeld'
  BY <1>1, <1>28 DEF RunningJobIsHeld, WorkerJob, Free, WorkerGoto, sjobVars
<1>29. ASSUME SpuriousWakeup PROVE RunningJobIsHeld'
  BY <1>1, <1>29 DEF RunningJobIsHeld, WorkerJob, SpuriousWakeup, WorkerGoto, sjobVars
<1>30. ASSUME UNCHANGED vars PROVE RunningJobIsHeld'
  BY <1>1, <1>30 DEF RunningJobIsHeld, WorkerJob, vars
<1> QED BY <1>2, <1>3, <1>4, <1>5, <1>6, <1>7, <1>8, <1>9, <1>10, <1>11,
           <1>12, <1>13, <1>14, <1>15, <1>16, <1>17, <1>18, <1>19, <1>20,
           <1>21, <1>22, <1>23, <1>24, <1>25, <1>26, <1>27, <1>28, <1>29,
           <1>30
    DEF Next, Client, MainLoop, Idles, Worker

\* A pushed entry is a new one, and the others stay what they are.
LEMMA PushEntries ==
    ASSUME TypeOK, NEW j \in Jobs, NEW p \in Priority, Push(j, p)
    PROVE  LET new == Len(sjob) + 1
           IN  /\ new \notin DOMAIN sjob
               /\ DOMAIN sjob' = DOMAIN sjob \cup {new}
               /\ \A s \in DOMAIN sjob : sjob'[s] = sjob[s]
               /\ sjob'[new].job = j
               /\ job_list' = job_list \cup {new}
               /\ live' = live \cup {new}
               /\ handlers' = handlers \cup {new}
               /\ worker_sjob' = worker_sjob
<1>1. sjob \in Seq([job : Jobs, priority : Priority])
  BY DEF TypeOK
<1> QED BY <1>1 DEF Push

\* A step that leaves these alone cannot disturb OneHolder.
LEMMA OneHolderFrame ==
    ASSUME OneHolder, UNCHANGED <<job_queue, sjob, live, worker_sjob>>
    PROVE  OneHolder'
<1>1. Queued' = Queued /\ Held' = Held /\ LoopEntries' = LoopEntries
  BY DEF Queued, Held, LoopEntries
<1> QED BY <1>1 DEF OneHolder

\* The entries of MAIN_LOOP jobs are in no queue and not held by the worker.
LEMMA LoopEntriesApart ==
    ASSUME IInv, NEW j \in LoopJobs
    PROVE  /\ SJobsOf(j) \subseteq LoopEntries
           /\ SJobsOf(j) \cap (Held \cup Queued) = {}
<1> QED BY DEF IInv, OneHolder, SJobsOf, LoopEntries

\* OneHolder is preserved.
LEMMA OneHolderStep == IInv /\ [Next]_vars => OneHolder'
<1> SUFFICES ASSUME IInv, [Next]_vars PROVE OneHolder'
  OBVIOUS
<1>1. /\ OneHolder
      /\ live \subseteq DOMAIN sjob
      /\ 0 \notin DOMAIN sjob
      /\ worker_sjob # 0 => worker_sjob \in DOMAIN sjob
  BY WorkerFacts DEF IInv, Shape
<1>2. ASSUME QueuesOK(job_queue'),
             Held' \cap Queued' = {},
             (Held' \cup Queued') \cap LoopEntries' = {},
             Held' \cup Queued' \subseteq live',
             live' \subseteq Held' \cup Queued' \cup LoopEntries'
      PROVE  OneHolder'
  BY <1>2 DEF OneHolder, QueuesOK
<1>3. QueuesOK(job_queue)
  BY QueuesAreOK
<1>4. ASSUME NEW j \in Jobs, NEW p \in Priority, Push(j, p) PROVE OneHolder'
  <2> DEFINE new == Len(sjob) + 1
  <2>1. /\ new \notin DOMAIN sjob
        /\ DOMAIN sjob' = DOMAIN sjob \cup {new}
        /\ \A s \in DOMAIN sjob : sjob'[s] = sjob[s]
        /\ sjob'[new].job = j
        /\ live' = live \cup {new}
        /\ worker_sjob' = worker_sjob
    BY <1>4, PushEntries DEF IInv
  <2> HIDE DEF new
  <2>2. Held' = Held /\ new \notin Held /\ new \notin Queued
    BY <1>1, <2>1 DEF Held, OneHolder
  <2>3. CASE j \in ThreadJobs
    <3>1. QueuesOK(job_queue') /\ Queued' = Queued \cup {new}
      BY <1>4, <2>3, PushQueues, JobsAssumption DEF new
    <3>2. LoopEntries' = LoopEntries /\ new \notin LoopEntries
      BY <2>1, <2>3, JobsAssumption DEF LoopEntries
    <3> QED BY <1>1, <1>2, <2>1, <2>2, <3>1, <3>2 DEF OneHolder
  <2>4. CASE j \in LoopJobs
    <3>1. QueuesOK(job_queue') /\ Queued' = Queued
      BY <1>4, <2>4, PushQueues, JobsAssumption
    <3>2. LoopEntries' = LoopEntries \cup {new}
      BY <2>1, <2>4 DEF LoopEntries
    <3> QED BY <1>1, <1>2, <2>1, <2>2, <3>1, <3>2 DEF OneHolder
  <2> QED BY <2>3, <2>4 DEF Jobs
<1>5. ASSUME NEW S, UNCHANGED <<job_queue, sjob, worker_sjob>>,
             live' = live \ S, S \cap (Held \cup Queued) = {}
      PROVE  OneHolder'
  <2>1. Queued' = Queued /\ Held' = Held /\ LoopEntries' = LoopEntries
    BY <1>5 DEF Queued, Held, LoopEntries
  <2> QED BY <1>1, <1>2, <1>3, <1>5, <2>1 DEF OneHolder
<1>6. ASSUME NEW j \in Jobs, LoopJobIdle(j) PROVE OneHolder'
  <2>1. CASE UNCHANGED live
    BY <1>1, <1>6, <2>1, OneHolderFrame DEF LoopJobIdle, sjobVars, workerVars
  <2>2. CASE Destroy(SJobsOf(j)) /\ UNCHANGED sjob
    <3>1. j \in LoopJobs
      BY <1>6 DEF LoopJobIdle, IInv, Shape
    <3> QED BY <1>5, <1>6, <2>2, <3>1, LoopEntriesApart
            DEF LoopJobIdle, Destroy, workerVars
  <2> QED BY <1>6, <2>1, <2>2 DEF LoopJobIdle, sjobVars
<1>7. ASSUME UpdateMove PROVE OneHolder'
  <2>1. UNCHANGED <<sjob, live, worker_sjob>>
    BY <1>7 DEF UpdateMove, sjobVars
  <2>2. Held' = Held /\ LoopEntries' = LoopEntries
    BY <2>1 DEF Held, LoopEntries
  <2> QED BY <1>1, <1>2, <1>7, <2>1, <2>2, UpdateMoveQueues DEF OneHolder
<1>8. ASSUME CancelHandler PROVE OneHolder'
  <2>1. UNCHANGED <<sjob, worker_sjob>>
    BY <1>8 DEF CancelHandler, workerVars
  <2>2. Held' = Held /\ LoopEntries' = LoopEntries
    BY <2>1 DEF Held, LoopEntries
  <2>3. QueuesOK(job_queue')
    BY <1>8, CancelHandlerQueues
  <2>4. CASE /\ main_sjob \in Queued
             /\ Queued' = Queued \ {main_sjob}
             /\ live' = live \ {main_sjob}
    BY <1>1, <1>2, <2>2, <2>3, <2>4 DEF OneHolder
  <2>5. CASE Queued' = Queued /\ live' = live
    BY <1>1, <1>2, <2>2, <2>3, <2>5 DEF OneHolder
  <2> QED BY <1>8, <2>4, <2>5, CancelHandlerQueues DEF Destroy
<1>9. ASSUME EmitCancelled PROVE OneHolder'
  <2>1. UNCHANGED <<job_queue, sjob, worker_sjob>>
    BY <1>9 DEF EmitCancelled, workerVars
  <2>2. CASE main_job \in LoopJobs
    BY <1>5, <1>9, <2>1, <2>2, LoopEntriesApart DEF EmitCancelled, Destroy
  <2>3. CASE main_job \notin LoopJobs
    BY <1>5, <1>9, <2>1, <2>3 DEF EmitCancelled, Destroy
  <2> QED BY <2>2, <2>3
<1>10. ASSUME GetNext PROVE OneHolder'
  <2>1. UNCHANGED <<sjob, live>> /\ Held = {}
    BY <1>10 DEF GetNext, sjobVars, Held, IInv, Shape
  <2>2. LoopEntries' = LoopEntries /\ QueuesOK(job_queue')
    BY <1>10, <2>1, GetNextQueues DEF LoopEntries
  <2>3. CASE worker_sjob' \in Queued /\ Queued' = Queued \ {worker_sjob'}
    <3>1. Held' = {worker_sjob'}
      BY <1>1, <2>3 DEF Held, OneHolder
    <3> QED BY <1>1, <1>2, <2>1, <2>2, <2>3, <3>1 DEF OneHolder
  <2>4. CASE Queued' = Queued /\ worker_sjob' = worker_sjob
    <3>1. Held' = Held
      BY <2>4 DEF Held
    <3> QED BY <1>1, <1>2, <2>1, <2>2, <2>4, <3>1 DEF OneHolder
  <2> QED BY <1>10, <2>3, <2>4, GetNextQueues
<1>11. ASSUME Free PROVE OneHolder'
  <2>1. /\ UNCHANGED <<job_queue, sjob>>
        /\ live' = live \ {worker_sjob}
        /\ worker_sjob # 0 /\ worker_sjob' = 0
    BY <1>11, WorkerFacts DEF Free, WorkerGoto
  <2>2. /\ Queued' = Queued /\ LoopEntries' = LoopEntries
        /\ Held = {worker_sjob} /\ Held' = {}
    BY <2>1 DEF Queued, LoopEntries, Held
  <2> QED BY <1>1, <1>2, <1>3, <2>1, <2>2 DEF OneHolder
<1>12. ASSUME Disconnect \/ Unlist \/ Quiet PROVE OneHolder'
  BY <1>1, <1>12, OneHolderFrame DEF Disconnect, Unlist, Quiet
<1> QED BY <1>4, <1>6, <1>7, <1>8, <1>9, <1>10, <1>11, <1>12, StepKinds

\* ReachableIsLive is preserved.
LEMMA ReachableStep == IInv /\ [Next]_vars => ReachableIsLive'
<1> SUFFICES ASSUME IInv, [Next]_vars PROVE ReachableIsLive'
  OBVIOUS
<1>1. ReachableIsLive
  BY DEF IInv
<1>2. ASSUME NEW S, Queued' = Queued, S \cap Queued = {}, Destroy(S)
      PROVE  ReachableIsLive'
  BY <1>1, <1>2 DEF ReachableIsLive, Destroy
<1>3. ASSUME Queued' \subseteq Queued, UNCHANGED <<job_list, live, handlers>>
      PROVE  ReachableIsLive'
  BY <1>1, <1>3 DEF ReachableIsLive
<1>4. UNCHANGED job_queue => Queued' = Queued
  BY DEF Queued
<1>5. ASSUME NEW j \in Jobs, NEW p \in Priority, Push(j, p)
      PROVE  ReachableIsLive'
  <2>1. Queued' \subseteq Queued \cup {Len(sjob) + 1}
    BY <1>5, PushQueues
  <2>2. /\ job_list' = job_list \cup {Len(sjob) + 1}
        /\ live' = live \cup {Len(sjob) + 1}
        /\ handlers' = handlers \cup {Len(sjob) + 1}
    BY <1>5 DEF Push
  <2> QED BY <1>1, <2>1, <2>2 DEF ReachableIsLive
<1>6. ASSUME NEW j \in Jobs, LoopJobIdle(j) PROVE ReachableIsLive'
  <2>1. Queued' = Queued
    BY <1>4, <1>6 DEF LoopJobIdle
  <2>2. j \in LoopJobs
    BY <1>6 DEF LoopJobIdle, IInv, Shape
  <2> QED BY <1>2, <1>3, <1>6, <2>1, <2>2, LoopEntriesApart
          DEF LoopJobIdle, sjobVars
<1>7. ASSUME UpdateMove PROVE ReachableIsLive'
  BY <1>3, <1>7, UpdateMoveQueues DEF UpdateMove, sjobVars
<1>8. ASSUME CancelHandler PROVE ReachableIsLive'
  <2>1. CASE Queued' = Queued \ {main_sjob} /\ Destroy({main_sjob})
    BY <1>1, <2>1 DEF ReachableIsLive, Destroy
  <2>2. CASE Queued' = Queued /\ UNCHANGED <<job_list, live, handlers>>
    BY <1>3, <2>2
  <2> QED BY <1>8, <2>1, <2>2, CancelHandlerQueues
<1>9. ASSUME EmitCancelled PROVE ReachableIsLive'
  <2>1. Queued' = Queued
    BY <1>4, <1>9 DEF EmitCancelled
  <2>2. CASE main_job \in LoopJobs
    BY <1>2, <1>9, <2>1, <2>2, LoopEntriesApart DEF EmitCancelled
  <2>3. CASE main_job \notin LoopJobs
    BY <1>2, <1>9, <2>1, <2>3 DEF EmitCancelled
  <2> QED BY <2>2, <2>3
<1>10. ASSUME GetNext PROVE ReachableIsLive'
  BY <1>3, <1>10, GetNextQueues DEF GetNext, sjobVars
<1>11. worker_sjob \notin Queued
  <2>1. CASE worker_sjob = 0
    BY <2>1, QueuesAreOK, WorkerFacts
  <2>2. CASE worker_sjob # 0
    BY <2>2 DEF IInv, OneHolder, Held
  <2> QED BY <2>1, <2>2
<1>12. ASSUME Disconnect PROVE ReachableIsLive'
  BY <1>1, <1>4, <1>11, <1>12 DEF Disconnect, ReachableIsLive
<1>13. ASSUME Unlist PROVE ReachableIsLive'
  <2>1. worker_sjob \notin handlers
    BY <1>13 DEF Unlist, WorkerGoto, IInv, Shape
  <2> QED BY <1>1, <1>4, <1>13, <2>1 DEF Unlist, ReachableIsLive
<1>14. ASSUME Free PROVE ReachableIsLive'
  <2>1. worker_sjob \notin job_list
    BY <1>14 DEF Free, WorkerGoto, IInv, Shape
  <2> QED BY <1>1, <1>4, <1>14, <2>1 DEF Free, ReachableIsLive
<1>15. ASSUME Quiet PROVE ReachableIsLive'
  BY <1>3, <1>4, <1>15 DEF Quiet
<1> QED BY <1>5, <1>6, <1>7, <1>8, <1>9, <1>10, <1>12, <1>13, <1>14, <1>15,
           StepKinds

\* NeverSleepsOnWork is preserved: who queues an entry wakes the worker, and
\* the worker goes to sleep only on empty queues.
LEMMA NeverSleepsStep == IInv /\ [Next]_vars => NeverSleepsOnWork'
<1> SUFFICES ASSUME IInv, [Next]_vars, worker_pc' = "waiting"
             PROVE  Queued' = {}
  BY DEF NeverSleepsOnWork
<1>1. worker_pc = "waiting" => Queued = {}
  BY DEF IInv, NeverSleepsOnWork
<1>2. UNCHANGED job_queue => Queued' = Queued
  BY DEF Queued
<1>3. ASSUME NEW j \in Jobs, NEW p \in Priority, Push(j, p)
      PROVE  Queued' = {}
  BY <1>1, <1>3, PushQueues
<1>4. ASSUME NEW j \in Jobs, LoopJobIdle(j) PROVE Queued' = {}
  BY <1>1, <1>2, <1>4 DEF LoopJobIdle, workerVars
<1>5. ASSUME UpdateMove PROVE Queued' = {}
  BY <1>5, UpdateMoveQueues
<1>6. ASSUME CancelHandler PROVE Queued' = {}
  <2>1. worker_pc = "waiting"
    BY <1>6 DEF CancelHandler, workerVars
  <2> QED BY <1>1, <1>6, <2>1, CancelHandlerQueues
<1>7. ASSUME EmitCancelled PROVE Queued' = {}
  BY <1>1, <1>2, <1>7 DEF EmitCancelled, workerVars
<1>8. ASSUME GetNext PROVE Queued' = {}
  BY <1>8, GetNextQueues
<1>9. ASSUME Disconnect \/ Unlist \/ Free PROVE Queued' = {}
  BY <1>9 DEF Disconnect, Unlist, Free, WorkerGoto
<1>10. ASSUME Quiet PROVE Queued' = {}
  BY <1>1, <1>2, <1>10 DEF Quiet
<1> QED BY <1>3, <1>4, <1>5, <1>6, <1>7, <1>8, <1>9, <1>10, StepKinds

-----------------------------------------------------------------------------
(* The theorems *)

\* IInv is an inductive invariant of ev-job-scheduler.c: every step of either
\* thread, from any state that satisfies it, leads to one that does.
THEOREM Invariance == Spec => []IInv
<1>1. Init => IInv
  BY InitIInv
<1>2. IInv /\ [Next]_vars => IInv'
  BY TypeStep, ShapeStep, OneHolderStep, ReachableStep, NeverSleepsStep,
     RunningStep DEF IInv
<1> QED BY <1>1, <1>2, PTL DEF Spec

\* Every variable of the scheduler has its type in every reachable state.
THEOREM TypeCorrect == Spec => []TypeOK
<1>1. IInv => TypeOK
  BY DEF IInv
<1> QED BY <1>1, Invariance, PTL

\* Every EvSchedulerJob that is not freed is in one queue once, or with the
\* worker, or belongs to a MAIN_LOOP job, and never to two of them: nothing is
\* freed twice, run twice or lost.
THEOREM EntriesHaveOneHolder == Spec => []OneHolder
<1>1. IInv => OneHolder
  BY DEF IInv
<1> QED BY <1>1, Invariance, PTL

\* A listed entry and an entry with a connected handler are not freed: what
\* ev_job_scheduler_update_job finds in job_list and what a cancellation calls
\* is memory that is still allocated.
THEOREM ReachableEntriesAreLive == Spec => []ReachableIsLive
<1>1. IInv => ReachableIsLive
  BY DEF IInv
<1> QED BY <1>1, Invariance, PTL

\* The worker thread does not wait on its condition while a job is queued: a
\* push or a move between its look at the queues and g_cond_wait is not lost.
THEOREM NoLostWakeup == Spec => []NeverSleepsOnWork
<1>1. IInv => NeverSleepsOnWork
  BY DEF IInv
<1> QED BY <1>1, Invariance, PTL

\* The running job is the job of the entry the worker holds:
\* ev_job_scheduler_get_running_thread_job never names a job that has ended.
THEOREM RunningIsHeld == Spec => []RunningJobIsHeld
<1>1. IInv => RunningJobIsHeld
  BY DEF IInv
<1> QED BY <1>1, Invariance, PTL

\* The four facts about entries together, in every reachable state: no entry is
\* freed twice or used after it was freed, and running_job is never stale.
THEOREM EntriesAreAlwaysSafe == Spec => []EntriesAreSafe
<1>1. IInv => EntriesAreSafe
  BY DEF IInv, EntriesAreSafe
<1> QED BY <1>1, Invariance, PTL

-----------------------------------------------------------------------------
(* The scheduler implements WorkQueue *)

\* A MAIN_LOOP job is pushed once.
LoopJobsOnce ==
    \A s, t \in DOMAIN sjob :
        sjob[s].job \in LoopJobs /\ sjob[s].job = sjob[t].job => s = t

\* LoopJobsOnce is preserved: only a push allocates an entry.
LEMMA LoopJobsOnceStep ==
    ASSUME IInv, LoopJobsOnce, [Next]_vars PROVE LoopJobsOnce'
<1>1. ASSUME NEW j \in Jobs, NEW p \in Priority, Push(j, p)
      PROVE  LoopJobsOnce'
  <2> DEFINE new == Len(sjob) + 1
  <2>1. /\ new \notin DOMAIN sjob
        /\ DOMAIN sjob' = DOMAIN sjob \cup {new}
        /\ \A s \in DOMAIN sjob : sjob'[s] = sjob[s]
        /\ sjob'[new].job = j
    BY <1>1, PushEntries DEF IInv
  <2> HIDE DEF new
  <2>2. j \in LoopJobs => \A s \in DOMAIN sjob : sjob[s].job # j
    BY <1>1, JobsAssumption DEF Push, MayPush, SJobsOf
  <2> QED BY <2>1, <2>2 DEF LoopJobsOnce
<1>2. ASSUME UNCHANGED sjob PROVE LoopJobsOnce'
  BY <1>2 DEF LoopJobsOnce
<1>3. ASSUME NEW j \in Jobs, LoopJobIdle(j) PROVE UNCHANGED sjob
  BY <1>3 DEF LoopJobIdle, sjobVars
<1>4. ASSUME UpdateMove \/ CancelHandler \/ EmitCancelled PROVE UNCHANGED sjob
  BY <1>4 DEF UpdateMove, CancelHandler, EmitCancelled, sjobVars
<1>5. ASSUME GetNext \/ Disconnect \/ Unlist \/ Free \/ Quiet
      PROVE  UNCHANGED sjob
  BY <1>5 DEF GetNext, Disconnect, Unlist, Free, Quiet, sjobVars
<1> QED BY <1>1, <1>2, <1>3, <1>4, <1>5, StepKinds

\* One entry changes its phase and the others keep theirs.
LEMMA PhaseMoves ==
    ASSUME NEW e \in SJobs, NEW from, NEW to, Phase[e] = from, Phase'[e] = to,
           \A s \in SJobs : s # e => Phase'[s] = Phase[s]
    PROVE  WQ!Move(e, from, to)
<1> DEFINE before == Phase
           after == Phase'
<1>1. /\ before = [s \in SJobs |-> before[s]]
      /\ after = [s \in SJobs |-> after[s]]
  BY DEF Phase
<1>2. before[e] = from /\ after[e] = to
  OBVIOUS
<1>3. \A s \in SJobs : s # e => after[s] = before[s]
  OBVIOUS
<1> HIDE DEF before, after
<1>4. after = [before EXCEPT ![e] = to]
  BY <1>1, <1>2, <1>3
<1> QED BY <1>2, <1>4 DEF WQ!Move, before, after

\* No entry changes its phase.
LEMMA PhaseStutters ==
    ASSUME UNCHANGED <<sjob, live>>, Queued' = Queued PROVE Phase' = Phase
<1> QED BY DEF Phase

\* An entry of a MAIN_LOOP job that is destroyed retires if it was not freed.
LEMMA LoopEntryRetires ==
    ASSUME IInv, LoopJobsOnce, NEW j \in LoopJobs,
           UNCHANGED <<sjob, job_queue>>, live' = live \ SJobsOf(j)
    PROVE  Phase' = Phase \/ WQ!WQNext
<1>1. Queued' = Queued
  BY DEF Queued
<1>2. CASE live \cap SJobsOf(j) = {}
  BY <1>1, <1>2, PhaseStutters
<1>3. CASE live \cap SJobsOf(j) # {}
  <2>1. PICK e \in live \cap SJobsOf(j) : TRUE
    BY <1>3
  <2>2. SJobsOf(j) = {e}
    BY <2>1 DEF SJobsOf, LoopJobsOnce
  <2>3. e \in SJobs /\ e \in DOMAIN sjob /\ e \notin Queued
    BY <2>1, LoopEntriesApart, WorkerFacts DEF SJobsOf
  <2>4. /\ Phase[e] = "taken" /\ Phase'[e] = "retired"
        /\ \A s \in SJobs : s # e => Phase'[s] = Phase[s]
    BY <1>1, <2>1, <2>2, <2>3 DEF Phase
  <2> QED BY <2>3, <2>4, PhaseMoves DEF WQ!WQNext, WQ!Retire
<1> QED BY <1>2, <1>3

\* Every step of the scheduler is a step of WorkQueue or leaves it alone.
LEMMA WorkQueueStep ==
    ASSUME IInv, LoopJobsOnce, [Next]_vars PROVE [WQ!WQNext]_Phase
<1> SUFFICES Phase' = Phase \/ WQ!WQNext
  OBVIOUS
<1>1. /\ live \subseteq DOMAIN sjob /\ DOMAIN sjob \subseteq SJobs
      /\ Queued \subseteq live
      /\ worker_sjob # 0 => worker_sjob \in DOMAIN sjob
  BY WorkerFacts, QueuesAreOK
<1>2. UNCHANGED job_queue => Queued' = Queued
  BY DEF Queued
<1>3. ASSUME NEW j \in Jobs, NEW p \in Priority, Push(j, p) PROVE WQ!WQNext
  <2> DEFINE new == Len(sjob) + 1
  <2>1. /\ new \notin DOMAIN sjob
        /\ DOMAIN sjob' = DOMAIN sjob \cup {new}
        /\ live' = live \cup {new}
    BY <1>3, PushEntries DEF IInv
  <2>2. new \in SJobs
    BY <1>3, EntriesAreTyped, BoundsAssumption DEF IInv, Push, SJobs
  <2>3. CASE j \in ThreadJobs
    <3>1. Queued' = Queued \cup {new}
      BY <1>3, <2>3, PushQueues, JobsAssumption
    <3> HIDE DEF new
    <3>2. /\ Phase[new] = "new" /\ Phase'[new] = "waiting"
          /\ \A s \in SJobs : s # new => Phase'[s] = Phase[s]
      BY <1>1, <2>1, <2>2, <3>1 DEF Phase
    <3> QED BY <2>2, <3>2, PhaseMoves DEF WQ!WQNext, WQ!Submit
  <2>4. CASE j \in LoopJobs
    <3>1. Queued' = Queued
      BY <1>3, <2>4, PushQueues, JobsAssumption
    <3> HIDE DEF new
    <3>2. /\ Phase[new] = "new" /\ Phase'[new] = "taken"
          /\ \A s \in SJobs : s # new => Phase'[s] = Phase[s]
      BY <1>1, <2>1, <2>2, <3>1 DEF Phase
    <3> QED BY <2>2, <3>2, PhaseMoves DEF WQ!WQNext, WQ!SubmitTaken
  <2> QED BY <2>3, <2>4 DEF Jobs
<1>4. ASSUME NEW j \in Jobs, LoopJobIdle(j) PROVE Phase' = Phase \/ WQ!WQNext
  <2>1. UNCHANGED <<job_queue, sjob>>
    BY <1>4 DEF LoopJobIdle, sjobVars
  <2>2. CASE UNCHANGED live
    BY <1>2, <2>1, <2>2, PhaseStutters
  <2>3. CASE live' = live \ SJobsOf(j)
    <3>1. j \in LoopJobs
      BY <1>4 DEF LoopJobIdle, IInv, Shape
    <3> QED BY <2>1, <2>3, <3>1, LoopEntryRetires
  <2> QED BY <1>4, <2>2, <2>3 DEF LoopJobIdle, Destroy, sjobVars
<1>5. ASSUME UpdateMove PROVE Phase' = Phase
  BY <1>5, UpdateMoveQueues, PhaseStutters DEF UpdateMove, sjobVars
<1>6. ASSUME CancelHandler PROVE Phase' = Phase \/ WQ!WQNext
  <2>1. UNCHANGED sjob
    BY <1>6 DEF CancelHandler
  <2>2. CASE /\ main_sjob \in Queued
             /\ Queued' = Queued \ {main_sjob}
             /\ live' = live \ {main_sjob}
    <3>1. /\ Phase[main_sjob] = "waiting" /\ Phase'[main_sjob] = "retired"
          /\ \A s \in SJobs : s # main_sjob => Phase'[s] = Phase[s]
      BY <1>1, <2>1, <2>2 DEF Phase
    <3>2. main_sjob \in SJobs
      BY <1>1, <2>2
    <3> QED BY <3>1, <3>2, PhaseMoves DEF WQ!WQNext, WQ!Withdraw
  <2>3. CASE Queued' = Queued /\ live' = live
    BY <2>1, <2>3, PhaseStutters
  <2> QED BY <1>6, <2>2, <2>3, CancelHandlerQueues DEF Destroy
<1>7. ASSUME EmitCancelled PROVE Phase' = Phase \/ WQ!WQNext
  <2>1. UNCHANGED <<job_queue, sjob>>
    BY <1>7 DEF EmitCancelled
  <2>2. CASE main_job \in LoopJobs
    BY <1>7, <2>1, <2>2, LoopEntryRetires DEF EmitCancelled, Destroy
  <2>3. CASE main_job \notin LoopJobs
    <3>1. live' = live
      BY <1>7, <2>3 DEF EmitCancelled, Destroy
    <3> QED BY <1>2, <2>1, <3>1, PhaseStutters
  <2> QED BY <2>2, <2>3
<1>8. ASSUME GetNext PROVE Phase' = Phase \/ WQ!WQNext
  <2>1. UNCHANGED <<sjob, live>>
    BY <1>8 DEF GetNext, sjobVars
  <2>2. CASE worker_sjob' \in Queued /\ Queued' = Queued \ {worker_sjob'}
    <3> DEFINE e == worker_sjob'
    <3>1. e \in Queued /\ Queued' = Queued \ {e} /\ e \in SJobs
      BY <1>1, <2>2
    <3> HIDE DEF e
    <3>2. /\ Phase[e] = "waiting" /\ Phase'[e] = "taken"
          /\ \A s \in SJobs : s # e => Phase'[s] = Phase[s]
      BY <1>1, <2>1, <3>1 DEF Phase
    <3> QED BY <3>1, <3>2, PhaseMoves DEF WQ!WQNext, WQ!Take
  <2>3. CASE Queued' = Queued
    BY <2>1, <2>3, PhaseStutters
  <2> QED BY <1>8, <2>2, <2>3, GetNextQueues
<1>9. ASSUME Free PROVE WQ!WQNext
  <2>1. /\ UNCHANGED <<job_queue, sjob>>
        /\ live' = live \ {worker_sjob} /\ worker_sjob # 0
    BY <1>9, WorkerFacts DEF Free, WorkerGoto
  <2>2. worker_sjob \in live /\ worker_sjob \notin Queued
    BY <2>1 DEF IInv, OneHolder, Held
  <2>3. /\ Phase[worker_sjob] = "taken" /\ Phase'[worker_sjob] = "retired"
        /\ \A s \in SJobs : s # worker_sjob => Phase'[s] = Phase[s]
    BY <1>1, <1>2, <2>1, <2>2 DEF Phase
  <2> QED BY <1>1, <2>2, <2>3, PhaseMoves DEF WQ!WQNext, WQ!Retire
<1>10. ASSUME Disconnect \/ Unlist \/ Quiet PROVE Phase' = Phase
  BY <1>2, <1>10, PhaseStutters DEF Disconnect, Unlist, Quiet
<1> QED BY <1>3, <1>4, <1>5, <1>6, <1>7, <1>8, <1>9, <1>10, StepKinds

\* The scheduler implements WorkQueue: every entry is submitted once, and then
\* either taken and retired by its holder or withdrawn while it waits, and it
\* is freed exactly once.
THEOREM SchedulerIsWorkQueue == Spec => ImplementsWorkQueue
<1>1. Init => WQ!WQInit
  <2> SUFFICES ASSUME Init PROVE Phase = [e \in SJobs |-> "new"]
    BY DEF WQ!WQInit
  <2>1. DOMAIN sjob = {}
    BY DEF Init
  <2> QED BY <2>1 DEF Phase
<1>2. Init => LoopJobsOnce
  BY DEF Init, LoopJobsOnce
<1>3. IInv /\ LoopJobsOnce /\ [Next]_vars => LoopJobsOnce'
  BY LoopJobsOnceStep
<1>4. IInv /\ LoopJobsOnce /\ [Next]_vars => [WQ!WQNext]_Phase
  BY WorkQueueStep
<1> QED BY <1>1, <1>2, <1>3, <1>4, Invariance, PTL
        DEF Spec, ImplementsWorkQueue, WQ!WQSpec

-----------------------------------------------------------------------------
(* One FINISHED for each push *)

\* The worker has not attached emit_finished for its entry yet.
MayReport == {"check", "claim", "run", "reset", "body", "succeed", "fail", "emit",
              "finish", "add_idle"}

\* The entries whose job may still report for them.
Unreported == Queued \cup (IF worker_pc \in MayReport THEN {worker_sjob} ELSE {})

\* A job has one entry that may still report, or its emit_finished is pending,
\* or FINISHED has been emitted, or it was lost to a cancellation.
OneReport(j) ==
    /\ \A a, b \in DOMAIN signals[j] :
         signals[j][a] = "finished" /\ signals[j][b] = "finished" => a = b
    /\ j \in finished_idles =>
         SJobsOf(j) # {} /\ "finished" \notin ToSet(signals[j])
    /\ \A s \in SJobsOf(j) \cap Unreported :
         /\ j \notin finished_idles /\ "finished" \notin ToSet(signals[j])
         /\ \A t \in SJobsOf(j) \cap Unreported : s = t

OneReportEach == \A j \in ThreadJobs : OneReport(j)

\* A job whose entries, idle and signals stay as they are, and which may report
\* for no other entry, reports once if it did.
LEMMA OneReportFrame ==
    ASSUME NEW j, OneReport(j), SJobsOf(j)' = SJobsOf(j),
           j \in finished_idles' <=> j \in finished_idles,
           signals'[j] = signals[j],
           SJobsOf(j) \cap Unreported' \subseteq Unreported
    PROVE  OneReport(j)'
BY DEF OneReport

\* A signal is the last of its job, and nobody else's.
LEMMA EmitIs ==
    ASSUME TypeOK, NEW j \in Jobs, NEW signal \in {"finished", "cancelled"},
           Emit(j, signal)
    PROVE  /\ \A k \in Jobs \ {j} : signals'[k] = signals[k]
           /\ DOMAIN signals[j] = 1 .. Len(signals[j]) /\ Len(signals[j]) \in Nat
           /\ DOMAIN signals'[j] = 1 .. Len(signals[j]) + 1
           /\ \A a \in DOMAIN signals[j] : signals'[j][a] = signals[j][a]
           /\ signals'[j][Len(signals[j]) + 1] = signal
           /\ ToSet(signals'[j]) = ToSet(signals[j]) \cup {signal}
<1> DEFINE q == signals[j]
           S == {"finished", "cancelled"}
<1>1. signals \in [Jobs -> Seq(S)] /\ q \in Seq(S)
  BY DEF TypeOK
<1>2. signals'[j] = Append(q, signal) /\ \A k \in Jobs \ {j} : signals'[k] = signals[k]
  BY <1>1 DEF Emit
<1> HIDE DEF q, S
<1>3. /\ Len(q) \in Nat /\ DOMAIN q = 1 .. Len(q)
      /\ DOMAIN Append(q, signal) = 1 .. Len(q) + 1
      /\ \A a \in DOMAIN q : Append(q, signal)[a] = q[a]
      /\ Append(q, signal)[Len(q) + 1] = signal
  BY <1>1
<1>4. ToSet(Append(q, signal)) = ToSet(q) \cup {signal}
  BY <1>1, AppendAdds DEF S
<1> QED BY <1>2, <1>3, <1>4 DEF q

\* A step of neither of these has a job report for another entry.
LEMMA UnreportedStep ==
    ASSUME IInv, [Next]_vars
    PROVE  \/ \E j \in Jobs, p \in Priority : Push(j, p)
           \/ \E j \in Jobs : LoopJobIdle(j) \/ EmitFinished(j)
           \/ EmitCancelled \/ AddIdle
           \/ /\ UNCHANGED <<sjob, finished_idles, signals>>
              /\ Unreported' \subseteq Unreported
<1> DEFINE Same == UNCHANGED <<sjob, finished_idles, signals>>
           Less == Queued' \subseteq Queued /\ worker_sjob' = worker_sjob
                     /\ (worker_pc' \in MayReport => worker_pc \in MayReport)
           Goal == Same /\ Unreported' \subseteq Unreported
<1> SUFFICES ASSUME \A j \in Jobs, p \in Priority : ~Push(j, p),
                    ~Idles, ~EmitCancelled, ~AddIdle
             PROVE  Goal
  BY DEF Idles
<1>1. Less => Unreported' \subseteq Unreported
  BY DEF Unreported
<1>2. UNCHANGED job_queue => Queued' = Queued
  BY DEF Queued
<1>3. ASSUME UNCHANGED <<job_queue, sjob, finished_idles, signals, worker_sjob, worker_pc>>
      PROVE  Goal
  BY <1>1, <1>2, <1>3
<1>4. ASSUME NEW j, NEW p, UpdateFind(j, p) \/ CancelLoad(j)
      PROVE  Goal
  BY <1>3, <1>4 DEF UpdateFind, CancelLoad, sjobVars, jobVars, loopVars, workerVars
<1>5. ASSUME CancelStore \/ CancelFlag \/ CancelEmission \/ CancelCheck
      PROVE  Goal
  BY <1>3, <1>5 DEF CancelStore, CancelFlag, CancelEmission, CancelCheck, sjobVars, jobVars,
                    loopVars, workerVars
<1>6. CASE UpdateMove
  <2>1. Queued' = Queued
    BY <1>6, UpdateMoveQueues
  <2>2. worker_pc' \in MayReport => worker_pc \in MayReport
    BY <1>6 DEF UpdateMove, Broadcast, MayReport
  <2> QED BY <1>1, <1>6, <2>1, <2>2 DEF UpdateMove, sjobVars, jobVars, loopVars
<1>7. CASE CancelHandler
  <2>1. Queued' \subseteq Queued
    BY <1>7, CancelHandlerQueues
  <2> QED BY <1>1, <1>7, <2>1 DEF CancelHandler, jobVars, loopVars, workerVars
<1>8. CASE GetNext
  <2>1. Same
    BY <1>8 DEF GetNext, sjobVars, jobVars, loopVars
  <2>2. CASE worker_sjob' \in Queued /\ Queued' = Queued \ {worker_sjob'}
    BY <2>1, <2>2 DEF Unreported
  <2>3. CASE Queued' = Queued /\ worker_pc' \notin MayReport
    BY <2>1, <2>3 DEF Unreported
  <2> QED BY <1>8, <2>2, <2>3, GetNextQueues DEF MayReport
<1>9. CASE CheckCancelled \/ Claim \/ StartRun \/ ResetFlags \/ RunBody
  BY <1>1, <1>2, <1>9
     DEF CheckCancelled, Claim, StartRun, ResetFlags, RunBody, WorkerGoto, MayReport,
         sjobVars, jobVars, loopVars
<1>10. CASE MarkOutcome \/ EmitCheck \/ SetFinished \/ StoreId \/ Unset
  BY <1>1, <1>2, <1>10
     DEF MarkOutcome, EmitCheck, SetFinished, StoreId, Unset, WorkerGoto, MayReport,
         sjobVars, jobVars, loopVars
<1>11. CASE Disconnect \/ Unlist \/ Free \/ SpuriousWakeup
  <2>1. worker_pc' \notin MayReport /\ Queued' = Queued
    BY <1>2, <1>11 DEF Disconnect, Unlist, Free, SpuriousWakeup, WorkerGoto, MayReport
  <2>2. Same
    BY <1>11 DEF Disconnect, Unlist, Free, SpuriousWakeup, sjobVars, jobVars, loopVars
  <2> QED BY <2>1, <2>2 DEF Unreported
<1>12. CASE UNCHANGED vars
  BY <1>3, <1>12 DEF vars
<1> HIDE DEF Goal
<1>13. CASE Client
  BY <1>4, <1>13 DEF Client
<1>14. CASE MainLoop
  BY <1>5, <1>6, <1>7, <1>14 DEF MainLoop
<1>15. CASE Worker
  BY <1>8, <1>9, <1>10, <1>11, <1>15 DEF Worker
<1> QED BY <1>11, <1>12, <1>13, <1>14, <1>15 DEF Next

\* OneReportEach is preserved: what may report moves from the entry to the idle
\* and from the idle to the signal, and a job is pushed again only after it.
LEMMA OneReportStep ==
    ASSUME IInv, OneReportEach, [Next]_vars
    PROVE  OneReportEach'
<1> SUFFICES ASSUME NEW k \in ThreadJobs
             PROVE  OneReport(k)'
  BY DEF OneReportEach
<1>1. OneReport(k) /\ k \in Jobs /\ TypeOK /\ k \notin LoopJobs
  BY JobsAssumption DEF OneReportEach, Jobs, IInv
<1>2. UNCHANGED job_queue => Queued' = Queued
  BY DEF Queued
<1>3. ASSUME NEW j \in Jobs, NEW p \in Priority, Push(j, p)
      PROVE  OneReport(k)'
  <2> DEFINE new == Len(sjob) + 1
  <2>1. /\ new \notin DOMAIN sjob
        /\ DOMAIN sjob' = DOMAIN sjob \cup {new}
        /\ \A s \in DOMAIN sjob : sjob'[s] = sjob[s]
        /\ sjob'[new].job = j
        /\ worker_sjob' = worker_sjob
    BY <1>1, <1>3, PushEntries
  <2>2. Queued' \subseteq Queued \cup {new}
    BY <1>3, PushQueues
  <2>3. worker_pc' \in MayReport => worker_pc \in MayReport
    BY <1>3 DEF Push, Broadcast, MayReport
  <2> HIDE DEF new
  <2>4. Unreported' \subseteq Unreported \cup {new}
    BY <2>1, <2>2, <2>3 DEF Unreported
  <2>5. finished_idles' = finished_idles /\ signals' = [signals EXCEPT ![j] = <<>>]
    BY <1>3 DEF Push
  <2>6. CASE k = j
    <3>1. signals'[k] = <<>>
      BY <1>1, <2>5, <2>6 DEF TypeOK
    <3>2. SJobsOf(k) \cap Unreported = {} /\ k \notin finished_idles
      <4>1. CASE SJobsOf(k) = {}
        BY <1>1, <4>1 DEF OneReport
      <4>2. CASE "finished" \in ToSet(signals[k])
        BY <1>1, <4>2 DEF OneReport
      <4> QED BY <1>3, <2>6, <4>1, <4>2 DEF Push, MayPush
    <3>3. SJobsOf(k)' = SJobsOf(k) \cup {new}
      BY <2>1, <2>6 DEF SJobsOf
    <3>4. SJobsOf(k)' \cap Unreported' \subseteq {new}
      BY <2>4, <3>2, <3>3
    <3> QED BY <2>5, <3>1, <3>2, <3>4 DEF OneReport, ToSet
  <2>7. CASE k # j
    <3>1. signals'[k] = signals[k]
      BY <1>1, <2>5, <2>7 DEF TypeOK
    <3>2. SJobsOf(k)' = SJobsOf(k) /\ new \notin SJobsOf(k)
      BY <2>1, <2>7 DEF SJobsOf
    <3> QED BY <1>1, <2>4, <2>5, <3>1, <3>2, OneReportFrame
  <2> QED BY <2>6, <2>7
<1>4. ASSUME NEW j \in Jobs, EmitFinished(j)
      PROVE  OneReport(k)'
  <2>1. /\ UNCHANGED <<sjob, job_queue, worker_pc, worker_sjob>>
        /\ j \in finished_idles /\ finished_idles' = finished_idles \ {j}
        /\ UNCHANGED signals \/ Emit(j, "finished")
    BY <1>4 DEF EmitFinished, sjobVars, workerVars
  <2>2. Unreported' = Unreported /\ SJobsOf(k)' = SJobsOf(k)
    BY <1>2, <2>1 DEF Unreported, SJobsOf
  <2>3. CASE k = j
    <3>1. /\ SJobsOf(k) \cap Unreported = {} /\ "finished" \notin ToSet(signals[k])
          /\ k \notin finished_idles'
      BY <1>1, <2>1, <2>3 DEF OneReport
    <3>2. CASE UNCHANGED signals
      BY <1>1, <2>2, <3>1, <3>2 DEF OneReport
    <3>3. CASE Emit(j, "finished")
      <4>1. \A a \in DOMAIN signals'[k] :
              signals'[k][a] = "finished" => a = Len(signals[k]) + 1
        BY <1>1, <2>3, <3>1, <3>3, EmitIs DEF ToSet
      <4> QED BY <2>2, <3>1, <4>1 DEF OneReport
    <3> QED BY <2>1, <3>2, <3>3
  <2>4. CASE k # j
    <3>1. signals'[k] = signals[k]
      BY <1>1, <2>1, <2>4, EmitIs
    <3> QED BY <1>1, <2>1, <2>2, <2>4, <3>1, OneReportFrame
  <2> QED BY <2>3, <2>4
<1>5. ASSUME NEW j \in Jobs, LoopJobIdle(j)
      PROVE  OneReport(k)'
  <2>1. /\ UNCHANGED <<sjob, job_queue, worker_pc, worker_sjob, finished_idles>>
        /\ UNCHANGED signals \/ Emit(j, "finished")
    BY <1>5 DEF LoopJobIdle, sjobVars, workerVars
  <2>2. j # k
    BY <1>1, <1>5 DEF LoopJobIdle, IInv, Shape
  <2>3. signals'[k] = signals[k]
    BY <1>1, <2>1, <2>2, EmitIs
  <2>4. Unreported' = Unreported /\ SJobsOf(k)' = SJobsOf(k)
    BY <1>2, <2>1 DEF Unreported, SJobsOf
  <2> QED BY <1>1, <2>1, <2>3, <2>4, OneReportFrame
<1>6. CASE EmitCancelled
  <2>1. /\ UNCHANGED <<sjob, job_queue, worker_pc, worker_sjob, finished_idles>>
        /\ Emit(main_job, "cancelled") /\ main_job \in Jobs
    BY <1>6 DEF EmitCancelled, loopVars, workerVars, IInv, Shape
  <2>2. Unreported' = Unreported /\ SJobsOf(k)' = SJobsOf(k)
    BY <1>2, <2>1 DEF Unreported, SJobsOf
  <2>3. CASE k # main_job
    <3>1. signals'[k] = signals[k]
      BY <1>1, <2>1, <2>3, EmitIs
    <3> QED BY <1>1, <2>1, <2>2, <3>1, OneReportFrame
  <2>4. CASE k = main_job
    <3>1. ToSet(signals'[k]) = ToSet(signals[k]) \cup {"cancelled"}
      BY <1>1, <2>1, <2>4, EmitIs
    <3>2. \A a \in DOMAIN signals'[k] :
            signals'[k][a] = "finished" =>
              a \in DOMAIN signals[k] /\ signals[k][a] = "finished"
      BY <1>1, <2>1, <2>4, EmitIs
    <3> QED BY <1>1, <2>1, <2>2, <3>1, <3>2 DEF OneReport
  <2> QED BY <2>3, <2>4
<1>7. CASE AddIdle
  <2>1. /\ UNCHANGED <<sjob, job_queue, worker_sjob, signals>>
        /\ finished_idles' = finished_idles \cup {WorkerJob}
        /\ worker_pc = "add_idle" /\ worker_pc' = "store_id"
    BY <1>7 DEF AddIdle, WorkerGoto, sjobVars, jobVars
  <2>2. Unreported' = Queued /\ worker_sjob \in Unreported /\ SJobsOf(k)' = SJobsOf(k)
    BY <1>2, <2>1 DEF Unreported, SJobsOf, MayReport
  <2>3. worker_sjob \in SJobsOf(WorkerJob) /\ worker_sjob \notin Queued
    BY <2>1, WorkerFacts DEF SJobsOf, WorkerJob, IInv, OneHolder, Held, Shape
  <2>4. Queued \subseteq Unreported
    BY DEF Unreported
  <2>5. CASE k = WorkerJob
    <3>1. /\ k \notin finished_idles /\ "finished" \notin ToSet(signals[k])
          /\ SJobsOf(k) \cap Unreported = {worker_sjob}
      BY <1>1, <2>2, <2>3, <2>5 DEF OneReport
    <3>2. SJobsOf(k) \cap Queued = {}
      BY <2>3, <2>4, <3>1
    <3> QED BY <1>1, <2>1, <2>2, <2>3, <2>5, <3>1, <3>2 DEF OneReport
  <2>6. CASE k # WorkerJob
    BY <1>1, <2>1, <2>2, <2>4, <2>6, OneReportFrame
  <2> QED BY <2>5, <2>6
<1>8. CASE UNCHANGED <<sjob, finished_idles, signals>> /\ Unreported' \subseteq Unreported
  BY <1>1, <1>8, OneReportFrame DEF SJobsOf
<1> QED BY <1>3, <1>4, <1>5, <1>6, <1>7, <1>8, UnreportedStep

\* FINISHED is emitted once for each push, and never while the entry of that
\* push waits for its turn (ev_job_emit_finished, emit_finished): the clients
\* that push a job again on FINISHED can count on it.
THEOREM OneFinishedPerPush == Spec => []FinishedOncePerPush
<1>1. Init => OneReportEach
  <2> SUFFICES ASSUME Init, NEW j \in ThreadJobs PROVE OneReport(j)
    BY DEF OneReportEach
  <2>1. signals[j] = <<>> /\ finished_idles = {} /\ SJobsOf(j) = {}
    BY DEF Init, SJobsOf, Jobs
  <2> QED BY <2>1 DEF OneReport
<1>2. IInv /\ OneReportEach /\ [Next]_vars => OneReportEach'
  BY OneReportStep
<1>3. OneReportEach => FinishedOncePerPush
  <2> SUFFICES ASSUME OneReportEach, NEW j \in ThreadJobs
               PROVE  /\ Cardinality({i \in DOMAIN signals[j] :
                                        signals[j][i] = "finished"}) <= 1
                      /\ "finished" \in ToSet(signals[j]) => SJobsOf(j) \cap Queued = {}
    BY DEF FinishedOncePerPush
  <2>1. OneReport(j)
    BY DEF OneReportEach
  <2> DEFINE F == {i \in DOMAIN signals[j] : signals[j][i] = "finished"}
  <2>2. F = {} \/ \E i : F = {i}
    BY <2>1 DEF OneReport
  <2> HIDE DEF F
  <2>3. Cardinality(F) <= 1
    BY <2>2, FS_EmptySet, FS_Singleton
  <2>4. "finished" \in ToSet(signals[j]) => SJobsOf(j) \cap Queued = {}
    BY <2>1 DEF OneReport, Unreported
  <2> QED BY <2>3, <2>4 DEF F
<1> QED BY <1>1, <1>2, <1>3, Invariance, PTL DEF Spec

=============================================================================
