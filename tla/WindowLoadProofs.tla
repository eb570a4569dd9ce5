-------------------------- MODULE WindowLoadProofs --------------------------
(***************************************************************************)
(* Machine-checked proofs about WindowLoad, for all files, passwords and   *)
(* bounds: the types, which jobs the window listens to, that the first     *)
(* copy of a remote file has its load job, and when a document that could  *)
(* not be read gets into the window.                                       *)
(***************************************************************************)
EXTENDS WindowLoad, SequenceLemmas, TLAPS

-----------------------------------------------------------------------------
(* The inductive invariant *)

\* The worker runs a job or nothing.
RunningIsAJob == running # Idle => running.job # NoJob

\* The load job the window listens to is the one it holds, of a remote file
\* too.
HeardLoadIsHeld ==
    \A j \in JobId : jobs[j].heard /\ jobs[j].kind = "load" => j = loadJob

\* Nothing asynchronous is done with a native file.
NativeIsLocal == ~remote => ~localUri /\ ops = <<>>

\* Operation k brings the first copy.
Fetches(k) == ops[k].kind \in {"copy", "mount"}

\* Until the first copy has come nobody is asked for a password: an answer
\* would push the load job that waits for it.
NobodyIsAskedYet ==
    ~uri \/ (\E k \in DOMAIN ops : Fetches(k)) =>
        dialogs = 0 /\ page = "document"

\* A window without a file loads nothing.
NoFileNoLoad ==
    ~uri => loadJob = NoJob /\ \A k \in DOMAIN ops : ~Fetches(k)

\* Only a reload can be made for no file at all, and then it reads nothing.
SourceOfTheRead ==
    \A j \in JobId :
        jobs[j].kind = "load" \/ jobs[j].opened => jobs[j].source # None

\* A job that has finished without an error has read a version.
FinishedHasRead ==
    \A j \in JobId :
        jobs[j].finished /\ jobs[j].error = None /\ jobs[j].source # None =>
            jobs[j].version # 0

\* The flags of a job whose report is under way are those it reported with,
\* unless the worker has the job again.
ReportStands ==
    \A j \in ToSet(idles) :
        jobs[j].finished \/ jobs[j].cancelled \/ running.job = j

Inv ==
    /\ TypeOK /\ RunningIsAJob
    /\ HeardLoadIsHeld /\ OnlyHeldJobsAreHeard /\ NativeIsLocal
    /\ TheLoadWaitsForItsCopy /\ NobodyIsAskedYet /\ NoFileNoLoad
    /\ SourceOfTheRead /\ FinishedHasRead /\ ReportStands

\* The invariant in the parts that the actions change together: the jobs, the
\* first copy, and the types of the rest.
JobsTyped ==
    /\ jobs \in Seq(Job)
    /\ loadJob \in JobId \cup {NoJob} /\ reloadJob \in JobId \cup {NoJob}
    /\ queue \in Seq(JobId) /\ idles \in Seq(JobId)
    /\ running \in [job : JobId \cup {NoJob}, password : Passwords \cup {None}]
    /\ shown \in JobId \cup {NoJob}

JobsInv ==
    /\ JobsTyped /\ RunningIsAJob
    /\ HeardLoadIsHeld /\ OnlyHeldJobsAreHeard
    /\ SourceOfTheRead /\ FinishedHasRead /\ ReportStands

CopyInv ==
    /\ NativeIsLocal /\ TheLoadWaitsForItsCopy /\ NobodyIsAskedYet
    /\ NoFileNoLoad

FileTyped ==
    /\ remote \in BOOLEAN /\ locked \in BOOLEAN /\ uri \in BOOLEAN
    /\ version \in 1 .. MaxVersion /\ broken \subseteq 1 .. MaxVersion

CopyTyped ==
    /\ localUri \in BOOLEAN
    /\ copy \in 0 .. MaxVersion /\ mtime \in 0 .. MaxVersion
    /\ ops \in Seq(Operation)

WindowTyped ==
    /\ settingUp \in BOOLEAN /\ loading \in BOOLEAN
    /\ monitor \in {None, "deaf", "on"}
    /\ events \in Seq({"changed", "done"})
    /\ timer \in BOOLEAN
    /\ ticking \in BOOLEAN /\ area \in {None, "progress", "message"}
    /\ page \in {"document", "password"}
    /\ dialogs \in Nat
    /\ remember \in BOOLEAN /\ keyring \in Passwords \cup {None}
    /\ aborted \in BOOLEAN

LEMMA InvParts ==
    /\ Inv <=> JobsInv /\ CopyInv /\ FileTyped /\ CopyTyped /\ WindowTyped
    /\ Inv' <=> JobsInv' /\ CopyInv' /\ FileTyped' /\ CopyTyped' /\ WindowTyped'
  BY DEF Inv, TypeOK, JobsInv, CopyInv, JobsTyped, FileTyped, CopyTyped, WindowTyped

-----------------------------------------------------------------------------
(* The jobs *)

\* A function on the places of a sequence is a sequence.
LEMMA FunctionIsSeq ==
    ASSUME NEW S, NEW n \in Nat, NEW f \in [1 .. n -> S]
    PROVE  f \in Seq(S) /\ Len(f) = n /\ DOMAIN f = 1 .. n
OBVIOUS

\* The parts of the invariant that are about jobs only see the jobs.
LEMMA JobsUntouched ==
    ASSUME JobsInv, UNCHANGED <<remote, jobs, loadJob, reloadJob, queue, idles,
                                running, shown>>
    PROVE  JobsInv'
BY DEF JobsInv, JobsTyped, RunningIsAJob, HeardLoadIsHeld, OnlyHeldJobsAreHeard,
       SourceOfTheRead, FinishedHasRead, ReportStands, JobId

\* What dropping a job changes: nobody listens to it and it may be cancelled.
LEMMA DroppedIs ==
    ASSUME JobsTyped, NEW j \in JobId \cup {NoJob}
    PROVE  /\ Dropped(j) \in Seq(Job) /\ Len(Dropped(j)) = Len(jobs)
           /\ \A k \in JobId :
                /\ Dropped(j)[k].kind = jobs[k].kind
                /\ Dropped(j)[k].source = jobs[k].source
                /\ Dropped(j)[k].opened = jobs[k].opened
                /\ Dropped(j)[k].version = jobs[k].version
                /\ Dropped(j)[k].finished = jobs[k].finished
                /\ Dropped(j)[k].error = jobs[k].error
                /\ jobs[k].cancelled => Dropped(j)[k].cancelled
                /\ Dropped(j)[k].heard => jobs[k].heard /\ k # j
<1>1. Len(jobs) \in Nat /\ JobId = 1 .. Len(jobs) /\ jobs \in [JobId -> Job]
  BY DEF JobsTyped, JobId
<1>2. CASE j = NoJob
  BY <1>1, <1>2 DEF Dropped, JobsTyped, JobId, NoJob
<1>3. CASE j # NoJob
  <2> DEFINE e == [jobs[j] EXCEPT !.heard = FALSE,
                                  !.cancelled = @ \/ ~jobs[j].finished]
             d == [k \in JobId |-> IF k = j THEN e ELSE jobs[k]]
  <2>1. jobs[j] \in Job
    BY <1>1, <1>3
  <2>2. e \in Job
    BY <2>1 DEF Job
  <2>3. Dropped(j) = d
    BY <1>1, <1>3, <2>1 DEF Dropped, Job
  <2>4. /\ e.kind = jobs[j].kind /\ e.source = jobs[j].source
        /\ e.opened = jobs[j].opened /\ e.version = jobs[j].version
        /\ e.finished = jobs[j].finished /\ e.error = jobs[j].error
        /\ jobs[j].cancelled => e.cancelled
        /\ e.heard = FALSE
    BY <2>1 DEF Job
  <2> HIDE DEF e
  <2>5. d \in [1 .. Len(jobs) -> Job]
    BY <1>1, <2>2
  <2>6. d \in Seq(Job) /\ Len(d) = Len(jobs)
    BY <1>1, <2>5, FunctionIsSeq
  <2> QED BY <1>1, <2>3, <2>4, <2>6
<1> QED BY <1>2, <1>3

\* ... and the queue loses entries at most.
LEMMA DequeuedIs ==
    ASSUME JobsTyped, NEW j
    PROVE  Dequeued(j) \in Seq(JobId) /\ ToSet(Dequeued(j)) \subseteq ToSet(queue)
<1>1. queue \in Seq(JobId)
  BY DEF JobsTyped
<1>2. /\ Removing(queue, {j}) \in Seq(JobId)
      /\ ToSet(Removing(queue, {j})) = ToSet(queue) \ {j}
  BY <1>1, RemovingDrops
<1> QED BY <1>1, <1>2 DEF Dequeued

\* A new job.
LEMMA NewJobIs ==
    ASSUME NEW kind \in {"load", "reload"}, NEW source \in {"file", "copy", None}
    PROVE  /\ NewJob(kind, source) \in Job
           /\ NewJob(kind, source).kind = kind
           /\ NewJob(kind, source).source = source
           /\ ~NewJob(kind, source).opened /\ ~NewJob(kind, source).finished
BY WindowAssumption DEF NewJob, Job

\* Job k keeps what it has read and reported.
Keeps(k) ==
    /\ k \in JobId
    /\ jobs'[k].kind = jobs[k].kind
    /\ jobs'[k].source = jobs[k].source
    /\ jobs'[k].opened = jobs[k].opened
    /\ jobs'[k].version = jobs[k].version
    /\ jobs'[k].finished = jobs[k].finished
    /\ jobs'[k].error = jobs[k].error
    /\ jobs[k].cancelled => jobs'[k].cancelled

IsFresh(k) ==
    /\ k \notin JobId
    /\ jobs'[k].kind = "load" => jobs'[k].source # None
    /\ ~jobs'[k].opened /\ ~jobs'[k].finished

\* What was read and reported stands while jobs are made, dropped and given
\* passwords.
LEMMA ReadsAreKept ==
    ASSUME JobsInv, Len(jobs') \in Nat, Len(jobs) \in Nat, Len(jobs) <= Len(jobs'),
           \A k \in JobId' : Keeps(k) \/ IsFresh(k),
           ToSet(idles') \subseteq ToSet(idles), running' = running
    PROVE  RunningIsAJob' /\ SourceOfTheRead' /\ FinishedHasRead' /\ ReportStands'
<1>1. \A k \in JobId : k \in JobId' /\ Keeps(k)
  BY DEF JobId, IsFresh
<1>2. \A j \in ToSet(idles) : j \in JobId
  BY DEF JobsInv, JobsTyped, ToSet
<1>3. RunningIsAJob'
  BY DEF JobsInv, RunningIsAJob
<1>4. SourceOfTheRead'
  <2> SUFFICES ASSUME NEW k \in JobId', jobs'[k].kind = "load" \/ jobs'[k].opened
               PROVE  jobs'[k].source # None
    BY DEF SourceOfTheRead
  <2> QED BY DEF JobsInv, SourceOfTheRead, Keeps, IsFresh
<1>5. FinishedHasRead'
  <2> SUFFICES ASSUME NEW k \in JobId', jobs'[k].finished, jobs'[k].error = None,
                      jobs'[k].source # None
               PROVE  jobs'[k].version # 0
    BY DEF FinishedHasRead
  <2> QED BY DEF JobsInv, FinishedHasRead, Keeps, IsFresh
<1>6. ReportStands'
  <2> SUFFICES ASSUME NEW j \in ToSet(idles)
               PROVE  jobs'[j].finished \/ jobs'[j].cancelled \/ running'.job = j
    BY DEF ReportStands
  <2> QED BY <1>1, <1>2 DEF JobsInv, ReportStands, Keeps
<1> QED BY <1>3, <1>4, <1>5, <1>6

\* The window drops job j, which it holds as its load job, as its reload job or
\* not at all.
LEMMA Dropping ==
    ASSUME JobsInv, NEW j \in {loadJob, reloadJob},
           jobs' = Dropped(j), queue' = Dequeued(j),
           loadJob' = loadJob \/ (loadJob' = NoJob /\ j = loadJob),
           reloadJob' = reloadJob \/ (reloadJob' = NoJob /\ j = reloadJob),
           UNCHANGED remote, running' = running, shown' \in JobId \cup {NoJob},
           idles' \in Seq(JobId), ToSet(idles') \subseteq ToSet(idles)
    PROVE  JobsInv' /\ ToSet(queue') \subseteq ToSet(queue)
<1>1. /\ Len(jobs) \in Nat /\ JobId = 1 .. Len(jobs)
      /\ loadJob \in JobId \cup {NoJob} /\ reloadJob \in JobId \cup {NoJob}
      /\ j \in JobId \cup {NoJob} /\ JobsTyped
  BY DEF JobsInv, JobsTyped, JobId
<1>2. /\ jobs' \in Seq(Job) /\ Len(jobs') = Len(jobs)
      /\ \A k \in JobId : /\ Keeps(k)
                          /\ jobs'[k].heard => jobs[k].heard /\ k # j
  BY <1>1, DroppedIs DEF Keeps
<1>3. JobId' = JobId
  BY <1>2 DEF JobId
<1>4. queue' \in Seq(JobId) /\ ToSet(queue') \subseteq ToSet(queue)
  BY <1>1, DequeuedIs
<1>5. JobsTyped'
  BY <1>1, <1>2, <1>3, <1>4 DEF JobsTyped
<1>6. HeardLoadIsHeld' /\ OnlyHeldJobsAreHeard'
  <2>1. ASSUME NEW k \in JobId, jobs'[k].heard
        PROVE  /\ jobs[k].heard /\ k # j /\ k # NoJob
               /\ jobs'[k].kind = jobs[k].kind
    BY <1>1, <1>2, <2>1 DEF Keeps, NoJob
  <2>2. HeardLoadIsHeld'
    BY <1>3, <2>1 DEF JobsInv, HeardLoadIsHeld
  <2>3. OnlyHeldJobsAreHeard'
    BY <1>3, <2>1 DEF JobsInv, OnlyHeldJobsAreHeard
  <2> QED BY <2>2, <2>3
<1>7. RunningIsAJob' /\ SourceOfTheRead' /\ FinishedHasRead' /\ ReportStands'
  BY <1>1, <1>2, <1>3, ReadsAreKept
<1> QED BY <1>4, <1>5, <1>6, <1>7 DEF JobsInv


\* A reload job is made when the jobs the window has dropped have made js of
\* the jobs and q of the queue; the window of a native file has dropped the
\* one before.
LEMMA Reloading ==
    ASSUME JobsInv, NEW js, NEW q, ReloadLocal(js, q),
           (js = jobs /\ remote) \/ js = Dropped(reloadJob),
           q \in Seq(JobId), ToSet(q) \subseteq ToSet(queue),
           UNCHANGED <<remote, loadJob, running, idles, shown>>, remote \in BOOLEAN
    PROVE  /\ JobsInv'
           /\ ToSet(queue') \subseteq ToSet(queue) \cup {Len(jobs) + 1}
<1> DEFINE fresh == NewJob("reload", IF localUri THEN "copy"
                                     ELSE IF uri THEN "file" ELSE None)
           n == Len(jobs) + 1
<1>1. /\ Len(jobs) \in Nat /\ JobId = 1 .. Len(jobs)
      /\ jobs \in Seq(Job)
      /\ loadJob \in JobId \cup {NoJob} /\ reloadJob \in JobId \cup {NoJob}
  BY DEF JobsInv, JobsTyped, JobId
<1>2. fresh \in Job /\ fresh.kind = "reload" /\ ~fresh.opened /\ ~fresh.finished
  BY NewJobIs
<1> HIDE DEF fresh
<1>3. /\ js \in Seq(Job) /\ Len(js) = Len(jobs)
      /\ \A k \in JobId :
           /\ js[k].kind = jobs[k].kind
           /\ js[k].source = jobs[k].source
           /\ js[k].opened = jobs[k].opened
           /\ js[k].version = jobs[k].version
           /\ js[k].finished = jobs[k].finished
           /\ js[k].error = jobs[k].error
           /\ jobs[k].cancelled => js[k].cancelled
           /\ js[k].heard => jobs[k].heard
           /\ js[k].heard => remote \/ k # reloadJob
  <2>1. CASE js = jobs /\ remote
    BY <1>1, <2>1
  <2>2. CASE js = Dropped(reloadJob)
    BY <1>1, <2>2, DroppedIs DEF JobsInv
  <2> QED BY <2>1, <2>2
<1>4. /\ jobs' \in Seq(Job) /\ Len(jobs') = n /\ jobs'[n] = fresh
      /\ \A k \in JobId : jobs'[k] = js[k]
  <2>1. jobs' = Append(js, fresh)
    BY DEF ReloadLocal, fresh
  <2> QED BY <1>1, <1>2, <1>3, <2>1
<1>5. JobId' = JobId \cup {n} /\ n \notin JobId
  BY <1>1, <1>4 DEF JobId
<1>6. reloadJob' = n
  BY <1>3 DEF ReloadLocal
<1>7. queue' \in Seq(JobId') /\ ToSet(queue') \subseteq ToSet(queue) \cup {n}
  <2>1. queue' = Append(q, n)
    BY <1>3 DEF ReloadLocal
  <2>2. q \in Seq(JobId')
    BY <1>5
  <2>3. n \in JobId'
    BY <1>5
  <2> QED BY <2>1, <2>2, <2>3, AppendAdds
<1>8. JobsTyped'
  <2>1. idles \in Seq(JobId')
    BY <1>5 DEF JobsInv, JobsTyped
  <2> QED BY <1>1, <1>4, <1>5, <1>6, <1>7, <2>1 DEF JobsInv, JobsTyped
<1>9. HeardLoadIsHeld' /\ OnlyHeldJobsAreHeard'
  <2>1. ASSUME NEW k \in JobId', jobs'[k].heard
        PROVE  \/ k = n /\ jobs'[k].kind = "reload"
               \/ /\ k \in JobId /\ jobs[k].heard
                  /\ jobs'[k].kind = jobs[k].kind
                  /\ remote \/ k # reloadJob
    BY <1>2, <1>3, <1>4, <1>5, <2>1
  <2>2. HeardLoadIsHeld'
    BY <2>1 DEF JobsInv, HeardLoadIsHeld
  <2>3. OnlyHeldJobsAreHeard'
    BY <1>6, <2>1 DEF JobsInv, OnlyHeldJobsAreHeard
  <2> QED BY <2>2, <2>3
<1>10. RunningIsAJob' /\ SourceOfTheRead' /\ FinishedHasRead' /\ ReportStands'
  <2>1. \A k \in JobId' : Keeps(k) \/ IsFresh(k)
    BY <1>2, <1>3, <1>4, <1>5 DEF Keeps, IsFresh
  <2> QED BY <1>1, <1>4, <2>1, ReadsAreKept
<1> QED BY <1>7, <1>8, <1>9, <1>10 DEF JobsInv

-----------------------------------------------------------------------------
(* The first copy *)

\* The load job gets into no queue that it was not in.
StaysOut ==
    loadJob \in JobId /\ ~IsUnderWay(loadJob) => ~IsUnderWay(loadJob)'

\* Nobody who waits for the first copy sees anything but the operations.
LEMMA CopyGoesOn ==
    ASSUME CopyInv, loadJob \in JobId \cup {NoJob},
           UNCHANGED <<remote, uri, localUri, loadJob, dialogs, page>>,
           ~remote => ops' = <<>>,
           \A i \in DOMAIN ops' : Fetches(i)' => \E k \in DOMAIN ops : Fetches(k),
           \A i, l \in DOMAIN ops' : Fetches(i)' /\ Fetches(l)' => i = l,
           StaysOut
    PROVE  CopyInv'
<1>1. NativeIsLocal' /\ NobodyIsAskedYet' /\ NoFileNoLoad'
  BY DEF CopyInv, NativeIsLocal, NobodyIsAskedYet, NoFileNoLoad
<1>2. TheLoadWaitsForItsCopy'
  <2> SUFFICES ASSUME NEW i \in DOMAIN ops', Fetches(i)'
               PROVE  /\ loadJob # NoJob /\ ~IsUnderWay(loadJob)'
                      /\ localUri
                      /\ \A l \in DOMAIN ops' \ {i} : ~Fetches(l)'
    BY DEF TheLoadWaitsForItsCopy, Fetches
  <2>1. PICK k \in DOMAIN ops : Fetches(k)
    OBVIOUS
  <2>2. loadJob # NoJob /\ ~IsUnderWay(loadJob) /\ localUri
    BY <2>1 DEF CopyInv, TheLoadWaitsForItsCopy, Fetches
  <2> QED BY <2>2 DEF StaysOut
<1> QED BY <1>1, <1>2 DEF CopyInv

\* The same when the operations are left alone.
LEMMA CopyUntouched ==
    ASSUME CopyInv, loadJob \in JobId \cup {NoJob},
           UNCHANGED <<remote, uri, localUri, loadJob, ops, dialogs, page>>,
           StaysOut
    PROVE  CopyInv'
<1>1. \A i, l \in DOMAIN ops : Fetches(i) /\ Fetches(l) => i = l
  BY DEF CopyInv, TheLoadWaitsForItsCopy, Fetches
<1>2. \A i \in DOMAIN ops' : Fetches(i)' <=> Fetches(i)
  BY DEF Fetches
<1>3. ~remote => ops' = <<>>
  BY DEF CopyInv, NativeIsLocal
<1> QED BY <1>1, <1>2, <1>3, CopyGoesOn

\* When no copy is fetched, nobody waits.
LEMMA NothingIsFetched ==
    ASSUME \A i \in DOMAIN ops' : ~Fetches(i)', NativeIsLocal',
           uri' \/ (loadJob' = NoJob /\ dialogs' = 0 /\ page' = "document")
    PROVE  CopyInv'
BY DEF CopyInv, TheLoadWaitsForItsCopy, NobodyIsAskedYet, NoFileNoLoad, Fetches

\* While a copy is fetched there is a file, which is remote, and nobody has
\* been asked for a password.
LEMMA WhileFetching ==
    ASSUME CopyInv, NEW k \in DOMAIN ops, Fetches(k)
    PROVE  /\ uri /\ remote /\ localUri
           /\ dialogs = 0 /\ page = "document"
           /\ loadJob # NoJob /\ ~IsUnderWay(loadJob)
           /\ \A l \in DOMAIN ops \ {k} : ~Fetches(l)
BY DEF CopyInv, TheLoadWaitsForItsCopy, NobodyIsAskedYet, NoFileNoLoad,
       NativeIsLocal, Fetches

LEMMA BeginIs ==
    ASSUME FileTyped, NEW kind \in {"copy", "mount", "mtime", "query", "recopy"}
    PROVE  Begin(kind) \in Operation /\ Begin(kind).kind = kind
BY WindowAssumption DEF FileTyped, Begin, Operation

\* Where the operations come from when one has ended and others have begun.
LEMMA EndsIs ==
    ASSUME ops \in Seq(Operation), NEW k, NEW kind, NEW more \in Seq(Operation),
           Ends(k, kind, more)
    PROVE  /\ k \in DOMAIN ops /\ ops[k].kind = kind /\ ops[k] \in Operation
           /\ ops' \in Seq(Operation) /\ Len(ops') = Len(ops) - 1 + Len(more)
           /\ \A i \in DOMAIN ops' :
                \/ i < k /\ i \in DOMAIN ops /\ ops'[i] = ops[i]
                \/ /\ i >= k /\ i < Len(ops)
                   /\ i + 1 \in DOMAIN ops /\ ops'[i] = ops[i + 1]
                \/ /\ i >= Len(ops)
                   /\ i - Len(ops) + 1 \in DOMAIN more
                   /\ ops'[i] = more[i - Len(ops) + 1]
<1> DEFINE rest == RemoveAt(ops, k)
<1>1. k \in DOMAIN ops /\ ops[k].kind = kind /\ ops' = rest \o more
  BY DEF Ends
<1>2. /\ rest \in Seq(Operation) /\ Len(rest) = Len(ops) - 1
      /\ \A i \in 1 .. Len(ops) - 1 :
           rest[i] = IF i < k THEN ops[i] ELSE ops[i + 1]
  BY <1>1, RemoveAtIsShift
<1> HIDE DEF rest
<1>3. Len(ops) \in Nat /\ Len(more) \in Nat /\ DOMAIN ops = 1 .. Len(ops)
  OBVIOUS
<1>4. ops' \in Seq(Operation) /\ Len(ops') = Len(ops) - 1 + Len(more)
  <2>1. rest \in Seq(Operation) /\ Len(rest) = Len(ops) - 1
    BY <1>2
  <2>2. /\ rest \o more \in Seq(Operation)
        /\ Len(rest \o more) = Len(rest) + Len(more)
    BY <2>1
  <2> QED BY <1>1, <2>1, <2>2
<1>5. ASSUME NEW i \in DOMAIN ops'
      PROVE  \/ i < k /\ i \in DOMAIN ops /\ ops'[i] = ops[i]
             \/ /\ i >= k /\ i < Len(ops)
                /\ i + 1 \in DOMAIN ops /\ ops'[i] = ops[i + 1]
             \/ /\ i >= Len(ops)
                /\ i - Len(ops) + 1 \in DOMAIN more
                /\ ops'[i] = more[i - Len(ops) + 1]
  <2>1. i \in 1 .. Len(ops) - 1 + Len(more) /\ k \in 1 .. Len(ops)
    BY <1>1, <1>3, <1>4
  <2>2. CASE i < Len(ops)
    <3>1. i \in 1 .. Len(ops) - 1 /\ ops'[i] = rest[i]
      BY <1>1, <1>2, <1>3, <2>1, <2>2
    <3> QED BY <1>2, <1>3, <2>1, <3>1
  <2>3. CASE i >= Len(ops)
    <3>1. ops'[i] = more[i - Len(rest)]
      BY <1>1, <1>2, <1>3, <2>1, <2>3
    <3>2. i - Len(ops) + 1 \in 1 .. Len(more) /\ i - Len(rest) = i - Len(ops) + 1
      BY <1>2, <1>3, <2>1, <2>3
    <3> QED BY <1>3, <2>3, <3>1, <3>2
  <2> QED BY <1>3, <2>1, <2>2, <2>3
<1> QED BY <1>1, <1>3, <1>4, <1>5

\* The first copy, or the mount before it, ends with nothing like it begun.
LEMMA FetchEnds ==
    ASSUME CopyInv, ops \in Seq(Operation), NEW k, NEW kind,
           NEW more \in Seq(Operation), Ends(k, kind, more), Fetches(k),
           \A i \in DOMAIN more : more[i].kind \notin {"copy", "mount"}
    PROVE  \A i \in DOMAIN ops' : ~Fetches(i)'
<1>1. k \in DOMAIN ops /\ \A l \in DOMAIN ops \ {k} : ~Fetches(l)
  BY EndsIs, WhileFetching
<1> SUFFICES ASSUME NEW i \in DOMAIN ops' PROVE ops'[i].kind \notin {"copy", "mount"}
  BY DEF Fetches
<1>2. Len(ops) \in Nat /\ DOMAIN ops = 1 .. Len(ops)
  OBVIOUS
<1>3. \/ i < k /\ i \in DOMAIN ops /\ ops'[i] = ops[i]
      \/ /\ i >= k /\ i < Len(ops)
         /\ i + 1 \in DOMAIN ops /\ ops'[i] = ops[i + 1]
      \/ /\ i - Len(ops) + 1 \in DOMAIN more
         /\ ops'[i] = more[i - Len(ops) + 1]
  BY EndsIs
<1>4. i \in Nat
  BY EndsIs
<1> QED BY <1>1, <1>2, <1>3, <1>4 DEF Fetches

\* One step of the fetching follows another.
LEMMA FetchIsFollowed ==
    ASSUME CopyInv, ops \in Seq(Operation), NEW k, NEW kind,
           NEW op \in Operation, Ends(k, kind, <<op>>), Fetches(k)
    PROVE  \A i, l \in DOMAIN ops' : Fetches(i)' /\ Fetches(l)' => i = l
<1>0. <<op>> \in Seq(Operation) /\ Len(<<op>>) = 1
  OBVIOUS
<1>1. k \in DOMAIN ops /\ \A l \in DOMAIN ops \ {k} : ~Fetches(l)
  BY <1>0, EndsIs, WhileFetching
<1>2. Len(ops) \in Nat /\ DOMAIN ops = 1 .. Len(ops)
  OBVIOUS
<1>3. ops' \in Seq(Operation) /\ Len(ops') = Len(ops) /\ DOMAIN ops' = 1 .. Len(ops)
  <2>1. ops' \in Seq(Operation) /\ Len(ops') = Len(ops) - 1 + Len(<<op>>)
    BY <1>0, EndsIs
  <2> QED BY <1>0, <1>2, <2>1
<1>4. ASSUME NEW i \in DOMAIN ops', Fetches(i)'
      PROVE  i = Len(ops)
  <2>1. \/ i < k /\ i \in DOMAIN ops /\ ops'[i] = ops[i]
        \/ /\ i >= k /\ i < Len(ops)
           /\ i + 1 \in DOMAIN ops /\ ops'[i] = ops[i + 1]
        \/ i >= Len(ops)
    BY <1>0, EndsIs
  <2> QED BY <1>1, <1>2, <1>3, <1>4, <2>1 DEF Fetches
<1> QED BY <1>4

\* Another operation ends, the fetching goes on if there is any.
LEMMA AnotherEnds ==
    ASSUME CopyInv, ops \in Seq(Operation), NEW k, NEW kind,
           NEW more \in Seq(Operation), Ends(k, kind, more), ~Fetches(k),
           \A i \in DOMAIN more : more[i].kind \notin {"copy", "mount"}
    PROVE  /\ \A i \in DOMAIN ops' : Fetches(i)' => \E l \in DOMAIN ops : Fetches(l)
           /\ \A i, l \in DOMAIN ops' : Fetches(i)' /\ Fetches(l)' => i = l
<1>1. k \in DOMAIN ops /\ \A i, l \in DOMAIN ops : Fetches(i) /\ Fetches(l) => i = l
  BY EndsIs, WhileFetching
<1>2. Len(ops) \in Nat /\ DOMAIN ops = 1 .. Len(ops)
  OBVIOUS
<1>3. ASSUME NEW i \in DOMAIN ops', Fetches(i)'
      PROVE  \/ i \in Nat /\ i < k /\ i \in DOMAIN ops /\ Fetches(i)
             \/ i \in Nat /\ i >= k /\ i + 1 \in DOMAIN ops /\ Fetches(i + 1)
  <2>1. \/ i < k /\ i \in DOMAIN ops /\ ops'[i] = ops[i]
        \/ /\ i >= k /\ i < Len(ops)
           /\ i + 1 \in DOMAIN ops /\ ops'[i] = ops[i + 1]
        \/ /\ i - Len(ops) + 1 \in DOMAIN more
           /\ ops'[i] = more[i - Len(ops) + 1]
    BY EndsIs
  <2>2. i \in Nat
    BY EndsIs
  <2> QED BY <1>3, <2>1, <2>2 DEF Fetches
<1>4. \A i \in DOMAIN ops' : Fetches(i)' => \E l \in DOMAIN ops : Fetches(l)
  BY <1>3
<1>5. ASSUME NEW i \in DOMAIN ops', NEW l \in DOMAIN ops', Fetches(i)', Fetches(l)'
      PROVE  i = l
  <2>1. \/ i \in Nat /\ i < k /\ i \in DOMAIN ops /\ Fetches(i)
        \/ i \in Nat /\ i >= k /\ i + 1 \in DOMAIN ops /\ Fetches(i + 1)
    BY <1>3, <1>5
  <2>2. \/ l \in Nat /\ l < k /\ l \in DOMAIN ops /\ Fetches(l)
        \/ l \in Nat /\ l >= k /\ l + 1 \in DOMAIN ops /\ Fetches(l + 1)
    BY <1>3, <1>5
  <2>3. ~Fetches(k) /\ k \in Nat
    BY <1>1, <1>2
  <2> QED BY <1>1, <2>1, <2>2, <2>3
<1> QED BY <1>4, <1>5

\* An operation that fetches nothing begins.
LEMMA AnotherBegins ==
    ASSUME CopyInv, ops \in Seq(Operation), NEW op \in Operation,
           ops' = Append(ops, op), op.kind \notin {"copy", "mount"}
    PROVE  /\ \A i \in DOMAIN ops' : Fetches(i)' => \E l \in DOMAIN ops : Fetches(l)
           /\ \A i, l \in DOMAIN ops' : Fetches(i)' /\ Fetches(l)' => i = l
<1>1. \A i, l \in DOMAIN ops : Fetches(i) /\ Fetches(l) => i = l
  BY WhileFetching
<1>2. /\ Len(ops) \in Nat /\ DOMAIN ops = 1 .. Len(ops)
      /\ DOMAIN ops' = 1 .. Len(ops) + 1
      /\ \A i \in DOMAIN ops : ops'[i] = ops[i]
      /\ ops'[Len(ops) + 1] = op
  OBVIOUS
<1>3. \A i \in DOMAIN ops' : Fetches(i)' => i \in DOMAIN ops /\ Fetches(i)
  BY <1>2 DEF Fetches
<1> QED BY <1>1, <1>3

-----------------------------------------------------------------------------
(* Reloads *)

\* What is pushed, X, is not the load job.
LEMMA StaysOutIf ==
    ASSUME UNCHANGED loadJob, NEW X, loadJob \in JobId => loadJob \notin X,
           ToSet(queue') \subseteq ToSet(queue) \cup X,
           ToSet(idles') \subseteq ToSet(idles) \cup {running.job},
           running'.job \in {running.job, NoJob} \cup ToSet(queue)
    PROVE  StaysOut
BY DEF StaysOut, IsUnderWay, JobId, NoJob

\* The same when nothing is pushed and the worker goes on.
LEMMA StaysOutUnpushed ==
    ASSUME UNCHANGED <<loadJob, running>>, ToSet(queue') \subseteq ToSet(queue),
           ToSet(idles') \subseteq ToSet(idles)
    PROVE  StaysOut
BY DEF StaysOut, IsUnderWay

LEMMA InvFacts ==
    ASSUME Inv
    PROVE  /\ JobsInv /\ JobsTyped /\ CopyInv /\ FileTyped /\ CopyTyped /\ WindowTyped
           /\ Len(jobs) \in Nat /\ jobs \in Seq(Job)
           /\ loadJob \in JobId \cup {NoJob} /\ reloadJob \in JobId \cup {NoJob}
           /\ queue \in Seq(JobId) /\ idles \in Seq(JobId)
           /\ ops \in Seq(Operation) /\ remote \in BOOLEAN
           /\ Len(jobs) + 1 \notin JobId
           /\ <<>> \in Seq(Operation) /\ DOMAIN <<>> = {}
           /\ 0 \in 0 .. MaxVersion
BY InvParts, WindowAssumption DEF JobsInv, JobsTyped, CopyTyped, FileTyped, JobId

LEMMA ReloadDocumentKeeps ==
    ASSUME Inv, ReloadDocument,
           UNCHANGED <<remote, uri, running, idles, shown, dialogs, page>>
    PROVE  JobsInv' /\ CopyInv' /\ CopyTyped'
<1>1. UNCHANGED <<loadJob, localUri, copy, mtime>>
  BY DEF ReloadDocument
<1>2. CASE localUri
  <2>1. /\ jobs' = Dropped(reloadJob) /\ queue' = Dequeued(reloadJob)
        /\ reloadJob' = NoJob /\ ops' = Append(ops, Begin("query"))
    BY <1>2 DEF ReloadDocument
  <2>2. JobsInv' /\ ToSet(queue') \subseteq ToSet(queue)
    BY <1>1, <2>1, InvFacts, Dropping DEF JobsTyped
  <2>3. Begin("query") \in Operation /\ Begin("query").kind = "query"
    BY InvFacts, BeginIs
  <2>4. remote
    BY <1>2, InvFacts DEF CopyInv, NativeIsLocal
  <2>5. StaysOut
    BY <1>1, <2>2, StaysOutUnpushed
  <2>6. CopyInv'
    BY <1>1, <2>1, <2>3, <2>4, <2>5, InvFacts, AnotherBegins, CopyGoesOn
  <2>7. CopyTyped'
    BY <1>1, <2>1, <2>3, InvFacts DEF CopyTyped
  <2> QED BY <2>2, <2>6, <2>7
<1>3. CASE ~localUri
  <2>1. ReloadLocal(Dropped(reloadJob), Dequeued(reloadJob)) /\ ops' = ops
    BY <1>3 DEF ReloadDocument
  <2>2. /\ Dequeued(reloadJob) \in Seq(JobId)
        /\ ToSet(Dequeued(reloadJob)) \subseteq ToSet(queue)
    BY InvFacts, DequeuedIs
  <2>3. JobsInv' /\ ToSet(queue') \subseteq ToSet(queue) \cup {Len(jobs) + 1}
    BY <1>1, <2>1, <2>2, InvFacts, Reloading
  <2>4. StaysOut
    BY <1>1, <2>3, InvFacts, StaysOutIf
  <2>5. CopyInv'
    BY <1>1, <2>1, <2>4, InvFacts, CopyUntouched
  <2>6. CopyTyped'
    BY <1>1, <2>1, InvFacts DEF CopyTyped
  <2> QED BY <2>3, <2>5, <2>6
<1> QED BY <1>2, <1>3

\* The three causes of a reload.
LEMMA ReloadKeeps ==
    ASSUME Inv, Reload \/ ChangesDone \/ TimeoutCb
    PROVE  Inv'
<1>1. /\ ReloadDocument
      /\ UNCHANGED <<fileVars, uri, workVars, viewVars, monitor, areaVars, passwordVars>>
      /\ timer' \in BOOLEAN /\ events' \in Seq({"changed", "done"})
  <2>0. timer \in BOOLEAN /\ events \in Seq({"changed", "done"})
    BY InvFacts DEF WindowTyped
  <2>1. CASE Reload
    BY <2>0, <2>1 DEF Reload, monitorVars
  <2>2. CASE ChangesDone
    <3>1. events # <<>> /\ events' = Tail(events) /\ timer' = FALSE
      BY <2>2 DEF ChangesDone
    <3>2. events' \in Seq({"changed", "done"})
      BY <2>0, <3>1
    <3> QED BY <2>2, <3>1, <3>2 DEF ChangesDone
  <2>3. CASE TimeoutCb
    BY <2>0, <2>3 DEF TimeoutCb
  <2> QED BY <2>1, <2>2, <2>3
<1>2. JobsInv' /\ CopyInv' /\ CopyTyped'
  BY <1>1, ReloadDocumentKeeps DEF fileVars, workVars, viewVars, passwordVars
<1>3. FileTyped'
  BY <1>1, InvFacts DEF FileTyped, fileVars
<1>4. WindowTyped'
  BY <1>1, InvFacts DEF WindowTyped, viewVars, areaVars, passwordVars
<1> QED BY <1>2, <1>3, <1>4, InvParts

\* A reload of a remote file, after its date or its copy has come.
LEMMA RemoteReloadKeeps ==
    ASSUME Inv, NEW k, NEW kind \in {"query", "recopy"}, Ends(k, kind, <<>>),
           ReloadLocal(jobs, queue),
           UNCHANGED <<remote, uri, loadJob, running, idles, shown, localUri, dialogs,
                       page>>
    PROVE  JobsInv' /\ CopyInv' /\ ops' \in Seq(Operation)
<1>1. ops[k].kind = kind /\ k \in DOMAIN ops /\ ops' \in Seq(Operation)
  BY InvFacts, EndsIs
<1>2. remote
  BY <1>1, InvFacts DEF CopyInv, NativeIsLocal
<1>3. JobsInv' /\ ToSet(queue') \subseteq ToSet(queue) \cup {Len(jobs) + 1}
  BY <1>2, InvFacts, Reloading
<1>4. StaysOut
  BY <1>3, InvFacts, StaysOutIf
<1>5. /\ \A i \in DOMAIN ops' : Fetches(i)' => \E l \in DOMAIN ops : Fetches(l)
      /\ \A i, l \in DOMAIN ops' : Fetches(i)' /\ Fetches(l)' => i = l
  BY <1>1, InvFacts, AnotherEnds DEF Fetches
<1> QED BY <1>1, <1>2, <1>3, <1>4, <1>5, InvFacts, CopyGoesOn

LEMMA QuerySaysOldKeeps ==
    ASSUME Inv, NEW k \in DOMAIN ops, NEW date, QuerySaysOld(k, date)
    PROVE  Inv'
<1>1. JobsInv' /\ CopyInv' /\ ops' \in Seq(Operation)
  BY RemoteReloadKeeps DEF QuerySaysOld, fileVars, workVars, viewVars, passwordVars
<1>2. FileTyped' /\ CopyTyped' /\ WindowTyped'
  BY <1>1, InvFacts
     DEF QuerySaysOld, FileTyped, CopyTyped, WindowTyped, fileVars, viewVars, monitorVars,
         areaVars, passwordVars
<1> QED BY <1>1, <1>2, InvParts

\* What a copy brings is a version.
LEMMA CopiedIs ==
    ASSUME Inv, NEW k \in DOMAIN ops
    PROVE  /\ ops[k].from .. version \subseteq 0 .. MaxVersion
           /\ Copied(k) => copy' \in 0 .. MaxVersion
<1>1. ops[k].from \in 0 .. MaxVersion /\ version \in 1 .. MaxVersion
  <2>1. ops[k] \in Operation
    BY InvFacts
  <2> QED BY <2>1, InvFacts DEF FileTyped, Operation
<1> QED BY <1>1, WindowAssumption DEF Copied

LEMMA RecopyReadyKeeps ==
    ASSUME Inv, NEW k \in DOMAIN ops, RecopyReady(k)
    PROVE  Inv'
<1>1. JobsInv' /\ CopyInv' /\ ops' \in Seq(Operation)
  BY RemoteReloadKeeps DEF RecopyReady, fileVars, workVars, viewVars, passwordVars
<1>2. copy' \in 0 .. MaxVersion
  BY CopiedIs DEF RecopyReady
<1>3. FileTyped' /\ CopyTyped'
  BY <1>1, <1>2, InvFacts DEF RecopyReady, FileTyped, CopyTyped, fileVars
<1>4. WindowTyped'
  BY InvFacts DEF RecopyReady, WindowTyped, viewVars, monitorVars, passwordVars
<1> QED BY <1>1, <1>3, <1>4, InvParts

-----------------------------------------------------------------------------
(* The remote file *)

\* The operations on a remote file leave the jobs alone, all but three.
LEMMA FileAndJobsUntouched ==
    ASSUME Inv, UNCHANGED <<fileVars, uri, jobVars, workVars, shown>>
    PROVE  JobsInv' /\ FileTyped' /\ StaysOut
BY InvFacts, JobsUntouched, StaysOutUnpushed
   DEF FileTyped, fileVars, jobVars, workVars

\* An operation that fetches nothing ends.
LEMMA AnotherEndsKeeps ==
    ASSUME Inv, NEW k, NEW kind \in {"mtime", "query", "recopy"},
           NEW more \in Seq(Operation), Ends(k, kind, more),
           \A i \in DOMAIN more : more[i].kind \notin {"copy", "mount"},
           UNCHANGED <<fileVars, uri, jobVars, workVars, shown, localUri, dialogs, page>>
    PROVE  JobsInv' /\ FileTyped' /\ CopyInv' /\ ops' \in Seq(Operation)
<1>1. ops[k].kind = kind /\ k \in DOMAIN ops /\ ops' \in Seq(Operation)
  BY InvFacts, EndsIs
<1>2. remote
  BY <1>1, InvFacts DEF CopyInv, NativeIsLocal
<1>3. /\ \A i \in DOMAIN ops' : Fetches(i)' => \E l \in DOMAIN ops : Fetches(l)
      /\ \A i, l \in DOMAIN ops' : Fetches(i)' /\ Fetches(l)' => i = l
  BY <1>1, InvFacts, AnotherEnds DEF Fetches
<1>4. CopyInv'
  BY <1>2, <1>3, InvFacts, FileAndJobsUntouched, CopyGoesOn DEF fileVars, jobVars
<1> QED BY <1>1, <1>4, FileAndJobsUntouched

LEMMA SetUriMtimeKeeps ==
    ASSUME Inv, NEW k \in DOMAIN ops, SetUriMtime(k)
    PROVE  Inv'
<1>1. JobsInv' /\ FileTyped' /\ CopyInv' /\ ops' \in Seq(Operation)
  BY InvFacts, AnotherEndsKeeps DEF SetUriMtime, viewVars, passwordVars
<1>2. mtime' \in 0 .. MaxVersion
  BY CopiedIs, WindowAssumption DEF SetUriMtime
<1>3. CopyTyped' /\ WindowTyped'
  BY <1>1, <1>2, InvFacts
     DEF SetUriMtime, CopyTyped, WindowTyped, viewVars, monitorVars, areaVars, passwordVars
<1> QED BY <1>1, <1>3, InvParts

LEMMA QuerySaysNewKeeps ==
    ASSUME Inv, NEW k \in DOMAIN ops, NEW date, QuerySaysNew(k, date)
    PROVE  Inv'
<1> DEFINE more == IF localUri THEN <<Begin("recopy")>> ELSE <<>>
<1>1. Begin("recopy") \in Operation /\ Begin("recopy").kind = "recopy"
  BY InvFacts, BeginIs
<1>2. /\ more \in Seq(Operation)
      /\ \A i \in DOMAIN more : more[i].kind \notin {"copy", "mount"}
  BY <1>1
<1>3. Ends(k, "query", more)
  BY DEF QuerySaysNew
<1> HIDE DEF more
<1>4. JobsInv' /\ FileTyped' /\ CopyInv' /\ ops' \in Seq(Operation)
  BY <1>2, <1>3, AnotherEndsKeeps DEF QuerySaysNew, viewVars, passwordVars
<1>5. mtime' \in 0 .. MaxVersion
  BY CopiedIs DEF QuerySaysNew
<1>6. CopyTyped' /\ WindowTyped'
  BY <1>4, <1>5, InvFacts
     DEF QuerySaysNew, CopyTyped, WindowTyped, viewVars, monitorVars, passwordVars
<1> QED BY <1>4, <1>6, InvParts

LEMMA RecopyFailedKeeps ==
    ASSUME Inv, NEW k \in DOMAIN ops, RecopyFailed(k)
    PROVE  Inv'
<1>1. JobsInv' /\ FileTyped' /\ CopyInv' /\ ops' \in Seq(Operation)
  BY InvFacts, AnotherEndsKeeps DEF RecopyFailed, viewVars, passwordVars
<1>2. CopyTyped' /\ WindowTyped'
  BY <1>1, InvFacts
     DEF RecopyFailed, ErrorMessage, CopyTyped, WindowTyped, viewVars, monitorVars,
         passwordVars
<1> QED BY <1>1, <1>2, InvParts

\* One step of the fetching follows another.
LEMMA CopyNeedsMountKeeps ==
    ASSUME Inv, NEW k \in DOMAIN ops, CopyNeedsMount(k) \/ Mounted(k)
    PROVE  Inv'
<1>1. PICK kind \in {"copy", "mount"}, next \in {"copy", "mount"} :
        Ends(k, kind, <<Begin(next)>>)
  BY DEF CopyNeedsMount, Mounted
<1>2. Begin(next) \in Operation
  BY InvFacts, BeginIs
<1>3. <<Begin(next)>> \in Seq(Operation)
  BY <1>2
<1>4. ops[k].kind = kind /\ ops' \in Seq(Operation)
  BY <1>1, <1>3, InvFacts, EndsIs
<1>5. Fetches(k)
  BY <1>4 DEF Fetches
<1>6. /\ UNCHANGED <<fileVars, uri, jobVars, workVars, viewVars, monitorVars, localUri,
                     copy, mtime, passwordVars>>
      /\ ticking' \in BOOLEAN /\ area' \in {None, "progress", "message"}
  BY InvFacts DEF CopyNeedsMount, Mounted, WindowTyped
<1>7. JobsInv' /\ FileTyped' /\ StaysOut
  BY <1>6, FileAndJobsUntouched DEF viewVars
<1>8. remote
  BY <1>5, InvFacts, WhileFetching
<1>9. \A i, l \in DOMAIN ops' : Fetches(i)' /\ Fetches(l)' => i = l
  BY <1>1, <1>2, <1>5, InvFacts, FetchIsFollowed
<1>10. CopyInv'
  BY <1>5, <1>6, <1>7, <1>8, <1>9, InvFacts, CopyGoesOn
     DEF fileVars, jobVars, passwordVars
<1>11. CopyTyped' /\ WindowTyped'
  BY <1>4, <1>6, InvFacts DEF CopyTyped, WindowTyped, viewVars, monitorVars, passwordVars
<1> QED BY <1>7, <1>10, <1>11, InvParts

\* The fetching fails: the load job waits for ever.
LEMMA FetchFailedKeeps ==
    ASSUME Inv, NEW k \in DOMAIN ops, CopyFailed(k) \/ MountFailed(k)
    PROVE  Inv'
<1>1. PICK kind \in {"copy", "mount"} : Ends(k, kind, <<>>)
  BY DEF CopyFailed, MountFailed
<1>2. ops[k].kind = kind /\ ops' \in Seq(Operation)
  BY <1>1, InvFacts, EndsIs
<1>3. Fetches(k)
  BY <1>2 DEF Fetches
<1>4. /\ UNCHANGED <<fileVars, uri, jobVars, workVars, shown, settingUp, monitorVars,
                     copy, passwordVars>>
      /\ loading' = FALSE /\ localUri' = FALSE /\ mtime' = 0
      /\ ticking' \in BOOLEAN /\ area' \in {None, "progress", "message"}
  BY InvFacts DEF CopyFailed, MountFailed, RemoteFailed, ErrorMessage, WindowTyped
<1>5. JobsInv' /\ FileTyped'
  BY <1>4, FileAndJobsUntouched
<1>6. remote /\ uri
  BY <1>3, InvFacts, WhileFetching
<1>7. \A i \in DOMAIN ops' : ~Fetches(i)'
  BY <1>1, <1>3, InvFacts, FetchEnds
<1>8. CopyInv'
  BY <1>4, <1>6, <1>7, NothingIsFetched DEF NativeIsLocal, fileVars
<1>9. CopyTyped'
  BY <1>2, <1>4, InvFacts DEF CopyTyped
<1>10. WindowTyped'
  BY <1>4, InvFacts DEF WindowTyped, monitorVars, passwordVars
<1> QED BY <1>5, <1>8, <1>9, <1>10, InvParts

\* The user gives the copy up: the window drops the load job and its file.
LEMMA CopyCancelledKeeps ==
    ASSUME Inv, NEW k \in DOMAIN ops, CopyCancelled(k)
    PROVE  Inv'
<1>1. Ends(k, "copy", <<>>)
  BY DEF CopyCancelled
<1>2. ops[k].kind = "copy" /\ ops' \in Seq(Operation)
  BY <1>1, InvFacts, EndsIs
<1>3. Fetches(k)
  BY <1>2 DEF Fetches
<1>4. remote /\ dialogs = 0 /\ page = "document"
  BY <1>3, InvFacts, WhileFetching
<1>5. JobsInv'
  <2>1. /\ jobs' = Dropped(loadJob) /\ queue' = Dequeued(loadJob) /\ loadJob' = NoJob
        /\ UNCHANGED <<reloadJob, remote, running, idles, shown>>
    BY DEF CopyCancelled, ClearLoadJob, fileVars, workVars
  <2>2. shown \in JobId \cup {NoJob}
    BY InvFacts DEF JobsTyped
  <2> QED BY <2>1, <2>2, InvFacts, Dropping
<1>6. \A i \in DOMAIN ops' : ~Fetches(i)'
  BY <1>1, <1>3, InvFacts, FetchEnds
<1>7. CopyInv'
  BY <1>4, <1>6, NothingIsFetched
     DEF CopyCancelled, ClearLoadJob, NativeIsLocal, fileVars, passwordVars
<1>8. FileTyped'
  BY InvFacts DEF CopyCancelled, FileTyped, fileVars
<1>9. CopyTyped'
  BY <1>2, InvFacts DEF CopyCancelled, CopyTyped
<1>10. WindowTyped'
  BY InvFacts DEF CopyCancelled, WindowTyped, monitorVars, passwordVars
<1> QED BY <1>5, <1>7, <1>8, <1>9, <1>10, InvParts

\* The first copy is there: the load job that waited for it is pushed.
LEMMA CopyReadyKeeps ==
    ASSUME Inv, NEW k \in DOMAIN ops, CopyReady(k)
    PROVE  Inv'
<1>1. Ends(k, "copy", <<Begin("mtime")>>)
  BY DEF CopyReady
<1>2. Begin("mtime") \in Operation /\ Begin("mtime").kind = "mtime"
  BY InvFacts, BeginIs
<1>3. /\ <<Begin("mtime")>> \in Seq(Operation)
      /\ \A i \in DOMAIN <<Begin("mtime")>> :
           <<Begin("mtime")>>[i].kind \notin {"copy", "mount"}
  BY <1>2
<1>4. ops[k].kind = "copy" /\ ops' \in Seq(Operation)
  BY <1>1, <1>3, InvFacts, EndsIs
<1>5. Fetches(k)
  BY <1>4 DEF Fetches
<1>6. remote /\ uri /\ loadJob # NoJob /\ loadJob \in JobId
  BY <1>5, InvFacts, WhileFetching
<1>7. JobsInv'
  <2>1. UNCHANGED <<remote, jobs, loadJob, reloadJob, idles, running, shown>>
    BY DEF CopyReady, fileVars, workVars, viewVars
  <2>2. queue' \in Seq(JobId) /\ JobId' = JobId
    BY <1>6, <2>1, InvFacts DEF CopyReady, JobId
  <2>3. JobsTyped'
    BY <2>1, <2>2, InvFacts DEF JobsTyped
  <2>4. /\ RunningIsAJob' /\ HeardLoadIsHeld' /\ OnlyHeldJobsAreHeard'
        /\ SourceOfTheRead' /\ FinishedHasRead' /\ ReportStands'
    BY <2>1, <2>2, InvFacts
       DEF JobsInv, RunningIsAJob, HeardLoadIsHeld, OnlyHeldJobsAreHeard,
           SourceOfTheRead, FinishedHasRead, ReportStands
  <2> QED BY <2>3, <2>4 DEF JobsInv
<1>8. \A i \in DOMAIN ops' : ~Fetches(i)'
  BY <1>1, <1>3, <1>5, InvFacts, FetchEnds
<1>9. CopyInv'
  BY <1>6, <1>8, NothingIsFetched DEF CopyReady, NativeIsLocal, fileVars
<1>10. copy' \in 0 .. MaxVersion
  BY CopiedIs DEF CopyReady
<1>11. FileTyped' /\ CopyTyped'
  BY <1>4, <1>10, InvFacts DEF CopyReady, FileTyped, CopyTyped, fileVars
<1>12. WindowTyped'
  BY InvFacts DEF CopyReady, WindowTyped, viewVars, monitorVars, passwordVars
<1> QED BY <1>7, <1>9, <1>11, <1>12, InvParts

\* The progress bar cancels the operations without ending them.
LEMMA CancelCopiesKeeps ==
    ASSUME Inv, CancelCopies
    PROVE  Inv'
<1> DEFINE stop(k) == [ops[k] EXCEPT !.stopped = @ \/ ops[k].kind \in {"copy", "recopy"}]
<1>1. /\ ops' = [k \in DOMAIN ops |-> stop(k)]
      /\ area' = None
      /\ UNCHANGED <<fileVars, uri, jobVars, workVars, viewVars, monitorVars, localUri,
                     copy, mtime, ticking, passwordVars>>
  BY DEF CancelCopies
<1>2. \A k \in DOMAIN ops : stop(k) \in Operation /\ stop(k).kind = ops[k].kind
  <2> SUFFICES ASSUME NEW k \in DOMAIN ops
               PROVE  stop(k) \in Operation /\ stop(k).kind = ops[k].kind
    OBVIOUS
  <2>1. ops[k] \in Operation
    BY InvFacts
  <2> QED BY <2>1 DEF Operation
<1> HIDE DEF stop
<1>3. Len(ops) \in Nat /\ DOMAIN ops = 1 .. Len(ops)
  BY InvFacts
<1>4. ops' \in Seq(Operation) /\ DOMAIN ops' = DOMAIN ops
  BY <1>1, <1>2, <1>3, FunctionIsSeq
<1>5. JobsInv' /\ FileTyped' /\ StaysOut
  BY <1>1, FileAndJobsUntouched DEF viewVars
<1>6. \A i \in DOMAIN ops' : i \in DOMAIN ops /\ (Fetches(i)' <=> Fetches(i))
  BY <1>1, <1>2, <1>4 DEF Fetches
<1>7. ~remote => ops' = <<>>
  BY <1>4, InvFacts DEF CopyInv, NativeIsLocal
<1>8. \A i, l \in DOMAIN ops : Fetches(i) /\ Fetches(l) => i = l
  BY InvFacts, WhileFetching
<1>9. CopyInv'
  BY <1>1, <1>5, <1>6, <1>7, <1>8, InvFacts, CopyGoesOn DEF fileVars, jobVars, passwordVars
<1>10. CopyTyped' /\ WindowTyped'
  BY <1>1, <1>4, InvFacts DEF CopyTyped, WindowTyped, viewVars, monitorVars, passwordVars
<1> QED BY <1>5, <1>9, <1>10, InvParts

-----------------------------------------------------------------------------
(* What leaves the jobs and the copies alone *)

LEMMA Quiet ==
    ASSUME Inv, UNCHANGED <<remote, uri, jobVars, workVars, shown, copyVars>>,
           dialogs = 0 /\ page = "document" => dialogs' = 0 /\ page' = "document"
    PROVE  JobsInv' /\ CopyInv' /\ CopyTyped'
<1>1. UNCHANGED <<jobs, loadJob, reloadJob, queue, running, idles, localUri, copy,
                  mtime, ops>>
  BY DEF jobVars, workVars, copyVars
<1>2. JobsInv' /\ CopyTyped'
  BY <1>1, InvFacts, JobsUntouched DEF CopyTyped
<1>3. NativeIsLocal' /\ NobodyIsAskedYet' /\ NoFileNoLoad'
  BY <1>1, InvFacts DEF CopyInv, NativeIsLocal, NobodyIsAskedYet, NoFileNoLoad, Fetches
<1>4. TheLoadWaitsForItsCopy'
  BY <1>1, InvFacts DEF CopyInv, TheLoadWaitsForItsCopy, IsUnderWay
<1> QED BY <1>2, <1>3, <1>4 DEF CopyInv

LEMMA DialogsKeep ==
    ASSUME Inv, SetupDocument \/ ClickUnlock \/ CancelDialog
    PROVE  Inv'
<1>1. /\ UNCHANGED <<fileVars, uri, jobVars, workVars, shown, loading, monitorVars,
                     copyVars, areaVars, remember, keyring, aborted>>
      /\ dialogs = 0 /\ page = "document" => dialogs' = 0 /\ page' = "document"
      /\ settingUp' \in BOOLEAN /\ dialogs' \in Nat /\ page' \in {"document", "password"}
  <2>0. settingUp \in BOOLEAN /\ dialogs \in Nat /\ page \in {"document", "password"}
    BY InvFacts DEF WindowTyped
  <2>1. CASE SetupDocument
    BY <2>0, <2>1 DEF SetupDocument
  <2>2. CASE ClickUnlock
    BY <2>0, <2>2 DEF ClickUnlock, viewVars
  <2>3. CASE CancelDialog
    BY <2>0, <2>3 DEF CancelDialog, viewVars
  <2> QED BY <2>1, <2>2, <2>3
<1>2. JobsInv' /\ CopyInv' /\ CopyTyped'
  BY <1>1, Quiet DEF fileVars
<1>3. FileTyped' /\ WindowTyped'
  BY <1>1, InvFacts DEF FileTyped, WindowTyped, fileVars, monitorVars, areaVars
<1> QED BY <1>2, <1>3, InvParts

LEMMA AreaKeeps ==
    ASSUME Inv, Changed \/ ShowProgress \/ CloseArea
    PROVE  Inv'
<1>1. /\ UNCHANGED <<fileVars, uri, jobVars, workVars, viewVars, monitor, copyVars,
                     passwordVars>>
      /\ events' \in Seq({"changed", "done"}) /\ timer' \in BOOLEAN
      /\ ticking' \in BOOLEAN /\ area' \in {None, "progress", "message"}
  <2>0. /\ events \in Seq({"changed", "done"}) /\ timer \in BOOLEAN
        /\ ticking \in BOOLEAN /\ area \in {None, "progress", "message"}
    BY InvFacts DEF WindowTyped
  <2>1. CASE Changed
    <3>1. events # <<>> /\ events' = Tail(events) /\ timer' = TRUE
      BY <2>1 DEF Changed
    <3>2. events' \in Seq({"changed", "done"})
      BY <2>0, <3>1
    <3> QED BY <2>0, <2>1, <3>1, <3>2 DEF Changed, areaVars
  <2>2. CASE ShowProgress
    BY <2>0, <2>2 DEF ShowProgress, monitorVars
  <2>3. CASE CloseArea
    BY <2>0, <2>3 DEF CloseArea, monitorVars
  <2> QED BY <2>1, <2>2, <2>3
<1>2. JobsInv' /\ CopyInv' /\ CopyTyped'
  BY <1>1, Quiet DEF fileVars, viewVars, passwordVars
<1>3. FileTyped' /\ WindowTyped'
  BY <1>1, InvFacts DEF FileTyped, WindowTyped, fileVars, viewVars, passwordVars
<1> QED BY <1>2, <1>3, InvParts

LEMMA WriteFileKeeps ==
    ASSUME Inv, NEW bad \in BOOLEAN, NEW news \in {<<"changed">>, <<"changed", "done">>},
           WriteFile(bad, news)
    PROVE  Inv'
<1>1. /\ version < MaxVersion /\ version' = version + 1
      /\ broken' = IF bad THEN broken \cup {version + 1} ELSE broken
      /\ events' = IF monitor = "on" THEN events \o news ELSE events
      /\ UNCHANGED <<remote, locked, uri, jobVars, workVars, viewVars, monitor, timer,
                     copyVars, areaVars, passwordVars>>
  BY DEF WriteFile
<1>2. JobsInv' /\ CopyInv' /\ CopyTyped'
  BY <1>1, Quiet DEF viewVars, passwordVars
<1>3. FileTyped'
  BY <1>1, InvFacts, WindowAssumption DEF FileTyped
<1>4. events' \in Seq({"changed", "done"})
  <2>1. events \in Seq({"changed", "done"})
    BY InvFacts DEF WindowTyped
  <2>2. /\ <<"changed">> \in Seq({"changed", "done"})
        /\ <<"changed", "done">> \in Seq({"changed", "done"})
    OBVIOUS
  <2>3. news \in Seq({"changed", "done"})
    BY <2>2
  <2> QED BY <1>1, <2>1, <2>3
<1>5. WindowTyped'
  BY <1>1, <1>4, InvFacts DEF WindowTyped, viewVars, areaVars, passwordVars
<1> QED BY <1>2, <1>3, <1>5, InvParts

-----------------------------------------------------------------------------
(* Passwords and reports *)

\* A job gets a password, and may be pushed with it.
LEMMA PasswordGiven ==
    ASSUME JobsInv, NEW j \in JobId, NEW password \in Passwords \cup {None},
           jobs' = [jobs EXCEPT ![j].password = password],
           queue' \in Seq(JobId), idles' \in Seq(JobId),
           ToSet(idles') \subseteq ToSet(idles),
           UNCHANGED <<remote, loadJob, reloadJob, running, shown>>
    PROVE  JobsInv'
<1>1. Len(jobs) \in Nat /\ JobId = 1 .. Len(jobs) /\ jobs \in [JobId -> Job]
  BY DEF JobsInv, JobsTyped, JobId
<1> DEFINE e == [jobs[j] EXCEPT !.password = password]
           d == [k \in JobId |-> IF k = j THEN e ELSE jobs[k]]
<1>2. jobs[j] \in Job
  BY <1>1
<1>3. e \in Job
  BY <1>2 DEF Job
<1>4. jobs' = d
  BY <1>1, <1>2 DEF Job
<1>5. /\ e.kind = jobs[j].kind /\ e.source = jobs[j].source
      /\ e.opened = jobs[j].opened /\ e.version = jobs[j].version
      /\ e.finished = jobs[j].finished /\ e.error = jobs[j].error
      /\ e.cancelled = jobs[j].cancelled /\ e.heard = jobs[j].heard
  BY <1>2 DEF Job
<1> HIDE DEF e
<1>6. d \in [1 .. Len(jobs) -> Job]
  BY <1>1, <1>3
<1>7. jobs' \in Seq(Job) /\ Len(jobs') = Len(jobs) /\ JobId' = JobId
  <2>1. d \in Seq(Job) /\ Len(d) = Len(jobs)
    BY <1>1, <1>6, FunctionIsSeq
  <2> QED BY <1>4, <2>1 DEF JobId
<1>8. \A k \in JobId : Keeps(k) /\ jobs'[k].heard = jobs[k].heard
  BY <1>1, <1>4, <1>5 DEF Keeps
<1> HIDE DEF d
<1>9. JobsTyped'
  BY <1>7 DEF JobsInv, JobsTyped
<1>10. HeardLoadIsHeld' /\ OnlyHeldJobsAreHeard'
  BY <1>7, <1>8 DEF JobsInv, HeardLoadIsHeld, OnlyHeldJobsAreHeard, Keeps
<1>11. RunningIsAJob' /\ SourceOfTheRead' /\ FinishedHasRead' /\ ReportStands'
  BY <1>1, <1>7, <1>8, ReadsAreKept
<1> QED BY <1>9, <1>10, <1>11 DEF JobsInv

LEMMA ReportedIs ==
    ASSUME JobsTyped, NEW j, Reported(j)
    PROVE  /\ j \in ToSet(idles) /\ j \in JobId
           /\ idles' \in Seq(JobId) /\ ToSet(idles') \subseteq ToSet(idles)
<1>1. idles \in Seq(JobId) /\ idles # <<>> /\ j = Head(idles) /\ idles' = Tail(idles)
  BY DEF JobsTyped, Reported
<1>2. /\ Len(idles) \in Nat \ {0} /\ DOMAIN idles = 1 .. Len(idles)
      /\ Head(idles) = idles[1] /\ idles' \in Seq(JobId)
      /\ DOMAIN idles' = 1 .. Len(idles) - 1
      /\ \A k \in 1 .. Len(idles) - 1 : idles'[k] = idles[k + 1]
  BY <1>1
<1>3. 1 \in DOMAIN idles
  BY <1>2
<1>4. \A k \in DOMAIN idles' : k + 1 \in DOMAIN idles /\ idles'[k] = idles[k + 1]
  BY <1>2
<1>5. ToSet(idles') \subseteq ToSet(idles)
  BY <1>4 DEF ToSet
<1> QED BY <1>1, <1>2, <1>3, <1>5 DEF ToSet

LEMMA ReportToNobodyKeeps ==
    ASSUME Inv, NEW j, ReportToNobody(j)
    PROVE  Inv'
<1>1. /\ Reported(j)
      /\ UNCHANGED <<fileVars, uri, jobs, loadJob, reloadJob, queue, running, viewVars,
                     monitorVars, copyVars, areaVars, passwordVars>>
  BY DEF ReportToNobody, jobVars
<1>2. idles' \in Seq(JobId) /\ ToSet(idles') \subseteq ToSet(idles)
  BY <1>1, InvFacts, ReportedIs
<1>3. JobsInv'
  BY <1>1, <1>2, InvFacts
     DEF JobsInv, JobsTyped, RunningIsAJob, HeardLoadIsHeld, OnlyHeldJobsAreHeard,
         SourceOfTheRead, FinishedHasRead, ReportStands, JobId, fileVars, viewVars
<1>4. StaysOut
  BY <1>1, <1>2, StaysOutUnpushed
<1>5. CopyInv'
  BY <1>1, <1>4, InvFacts, CopyUntouched DEF fileVars, copyVars, passwordVars
<1>6. FileTyped' /\ CopyTyped' /\ WindowTyped'
  BY <1>1, InvFacts
     DEF FileTyped, CopyTyped, WindowTyped, fileVars, viewVars, monitorVars, copyVars,
         areaVars, passwordVars
<1> QED BY <1>3, <1>5, <1>6, InvParts

\* The job that reports to the window is not one that waits for its copy.
LEMMA ReportedLoad ==
    ASSUME Inv, NEW j, ReportTo("load", j)
    PROVE  /\ j = loadJob /\ uri
           /\ \A k \in DOMAIN ops : ~Fetches(k)
<1>1. Reported(j) /\ jobs[j].heard /\ jobs[j].kind = "load"
  BY DEF ReportTo
<1>2. j \in ToSet(idles) /\ j \in JobId
  BY <1>1, InvFacts, ReportedIs
<1>3. j = loadJob /\ loadJob # NoJob
  BY <1>1, <1>2, InvFacts DEF JobsInv, HeardLoadIsHeld, JobId, NoJob
<1>4. IsUnderWay(loadJob)
  BY <1>2, <1>3 DEF IsUnderWay
<1>5. \A k \in DOMAIN ops : ~Fetches(k)
  BY <1>4, InvFacts, WhileFetching
<1> QED BY <1>3, <1>5, InvFacts DEF CopyInv, NoFileNoLoad

\* The window drops the load job that has reported.
LEMMA LoadEndsKeeps ==
    ASSUME Inv, NEW j, LoadSucceeded(j) \/ LoadFailed(j)
    PROVE  Inv'
<1>1. /\ ReportTo("load", j) /\ ClearLoadJob
      /\ shown' \in {shown, j} /\ settingUp' \in BOOLEAN /\ loading' = FALSE
      /\ area' \in {None, "progress", "message"}
      /\ keyring' \in {keyring, jobs[j].password}
      /\ monitor' \in {None, "deaf", "on"}
      /\ events' \in Seq({"changed", "done"}) /\ timer' \in BOOLEAN
      /\ UNCHANGED <<fileVars, uri, running, copyVars, ticking, page, dialogs, remember,
                     aborted>>
  <2>0. /\ settingUp \in BOOLEAN /\ area \in {None, "progress", "message"}
        /\ monitor \in {None, "deaf", "on"}
        /\ events \in Seq({"changed", "done"}) /\ timer \in BOOLEAN
    BY InvFacts DEF WindowTyped
  <2>1. CASE LoadSucceeded(j)
    <3>1. <<>> \in Seq({"changed", "done"})
      OBVIOUS
    <3> QED BY <2>0, <2>1, <3>1 DEF LoadSucceeded, SetDocument
  <2>2. CASE LoadFailed(j)
    BY <2>0, <2>2 DEF LoadFailed, ErrorMessage, monitorVars, passwordVars
  <2> QED BY <2>1, <2>2
<1>2. uri /\ \A k \in DOMAIN ops : ~Fetches(k)
  BY <1>1, ReportedLoad
<1>3. j \in JobId /\ idles' \in Seq(JobId) /\ ToSet(idles') \subseteq ToSet(idles)
  BY <1>1, InvFacts, ReportedIs DEF ReportTo
<1>4. /\ jobs' = Dropped(loadJob) /\ queue' = Dequeued(loadJob) /\ loadJob' = NoJob
      /\ UNCHANGED <<reloadJob, remote, running>>
      /\ shown' \in JobId \cup {NoJob}
  BY <1>1, <1>3, InvFacts DEF ClearLoadJob, JobsTyped, fileVars
<1>5. JobsInv'
  BY <1>3, <1>4, InvFacts, Dropping
<1>6. CopyInv'
  BY <1>1, <1>2, InvFacts, NothingIsFetched
     DEF CopyInv, NativeIsLocal, Fetches, fileVars, copyVars
<1>7. keyring' \in Passwords \cup {None}
  <2>1. jobs[j] \in Job
    BY <1>3, InvFacts DEF JobId
  <2> QED BY <1>1, <2>1, InvFacts DEF Job, WindowTyped
<1>8. FileTyped' /\ CopyTyped'
  BY <1>1, InvFacts DEF FileTyped, CopyTyped, fileVars, copyVars
<1>9. WindowTyped'
  BY <1>1, <1>7, InvFacts DEF WindowTyped
<1> QED BY <1>5, <1>6, <1>8, <1>9, InvParts

LEMMA LoadNeedsPasswordKeeps ==
    ASSUME Inv, NEW j, LoadNeedsPassword(j)
    PROVE  Inv'
<1>1. ReportTo("load", j)
  BY DEF LoadNeedsPassword
<1>2. uri /\ \A k \in DOMAIN ops : ~Fetches(k)
  BY <1>1, ReportedLoad
<1>3. j \in JobId /\ idles' \in Seq(JobId) /\ ToSet(idles') \subseteq ToSet(idles)
  BY <1>1, InvFacts, ReportedIs DEF ReportTo
<1>4. PICK password \in Passwords \cup {None} :
        jobs' = [jobs EXCEPT ![j].password = password]
  BY InvFacts DEF LoadNeedsPassword, WindowTyped
<1>5. /\ queue' \in {queue, Append(queue, j)}
      /\ page' \in {page, "password"} /\ dialogs' \in {dialogs, dialogs + 1}
      /\ loading' = FALSE
      /\ UNCHANGED <<fileVars, uri, loadJob, reloadJob, running, shown, settingUp,
                     monitorVars, copyVars, areaVars, remember, keyring, aborted>>
  BY DEF LoadNeedsPassword
<1>6. queue' \in Seq(JobId)
  <2>1. queue \in Seq(JobId)
    BY InvFacts
  <2>2. Append(queue, j) \in Seq(JobId)
    BY <1>3, <2>1
  <2> QED BY <1>5, <2>1, <2>2
<1>7. JobsInv'
  BY <1>3, <1>4, <1>5, <1>6, InvFacts, PasswordGiven DEF fileVars
<1>8. CopyInv'
  BY <1>2, <1>5, InvFacts, NothingIsFetched
     DEF CopyInv, NativeIsLocal, Fetches, fileVars, copyVars
<1>9. FileTyped' /\ CopyTyped'
  BY <1>5, InvFacts DEF FileTyped, CopyTyped, fileVars, copyVars
<1>10. WindowTyped'
  <2>1. WindowTyped
    BY InvFacts
  <2>2. page' \in {"document", "password"} /\ dialogs' \in Nat
    BY <1>5, <2>1 DEF WindowTyped
  <2> QED BY <1>5, <2>1, <2>2 DEF WindowTyped, monitorVars, areaVars
<1> QED BY <1>7, <1>8, <1>9, <1>10, InvParts

LEMMA ReloadFinishedKeeps ==
    ASSUME Inv, NEW j, ReloadFinished(j)
    PROVE  Inv'
<1>1. /\ ReportTo("reload", j)
      /\ jobs' = Dropped(reloadJob) /\ queue' = Dequeued(reloadJob)
      /\ reloadJob' = NoJob
      /\ shown' \in {shown, j} /\ settingUp' \in {settingUp, TRUE} /\ area' \in {area, None}
      /\ UNCHANGED <<fileVars, uri, loadJob, running, loading, monitorVars, copyVars,
                     ticking, passwordVars>>
  BY DEF ReloadFinished, SetDocument
<1>2. j \in JobId /\ idles' \in Seq(JobId) /\ ToSet(idles') \subseteq ToSet(idles)
  BY <1>1, InvFacts, ReportedIs DEF ReportTo
<1>3. shown' \in JobId \cup {NoJob} /\ UNCHANGED remote
  BY <1>1, <1>2, InvFacts DEF JobsTyped, fileVars
<1>4. JobsInv' /\ ToSet(queue') \subseteq ToSet(queue)
  BY <1>1, <1>2, <1>3, InvFacts, Dropping
<1>5. StaysOut
  BY <1>1, <1>2, <1>4, StaysOutUnpushed
<1>6. CopyInv'
  BY <1>1, <1>3, <1>5, InvFacts, CopyUntouched DEF copyVars, passwordVars
<1>7. FileTyped' /\ CopyTyped'
  BY <1>1, InvFacts DEF FileTyped, CopyTyped, fileVars, copyVars
<1>8. WindowTyped'
  <2>1. WindowTyped
    BY InvFacts
  <2>2. settingUp' \in BOOLEAN /\ area' \in {None, "progress", "message"}
    BY <1>1, <2>1 DEF WindowTyped
  <2> QED BY <1>1, <2>1, <2>2 DEF WindowTyped, monitorVars, passwordVars
<1> QED BY <1>4, <1>6, <1>7, <1>8, InvParts

\* The answer to a password dialog: there is no first copy under way, for there
\* are no dialogs then.
LEMMA UnlockKeeps ==
    ASSUME Inv, NEW password \in Passwords, NEW save \in BOOLEAN, Unlock(password, save)
    PROVE  Inv'
<1>1. /\ dialogs > 0 /\ dialogs' = dialogs - 1 /\ remember' = save
      /\ UNCHANGED <<fileVars, uri, loadJob, reloadJob, workVars, viewVars, monitorVars,
                     copyVars, areaVars, page, keyring>>
  BY DEF Unlock
<1>2. /\ aborted' \in BOOLEAN /\ JobsInv'
  <2>1. CASE loadJob = NoJob
    <3>1. UNCHANGED <<jobs, queue>> /\ aborted' = TRUE
      BY <2>1 DEF Unlock
    <3> QED BY <1>1, <3>1, InvFacts, JobsUntouched DEF fileVars, workVars, viewVars
  <2>2. CASE loadJob # NoJob
    <3>1. /\ jobs' = [jobs EXCEPT ![loadJob].password = password]
          /\ queue' = Append(queue, loadJob) /\ UNCHANGED aborted
      BY <2>2 DEF Unlock
    <3>2. loadJob \in JobId
      BY <2>2, InvFacts
    <3>3. queue' \in Seq(JobId)
      BY <3>1, <3>2, InvFacts
    <3>4. idles' \in Seq(JobId) /\ ToSet(idles') \subseteq ToSet(idles)
      BY <1>1, InvFacts DEF workVars
    <3>5. UNCHANGED <<remote, loadJob, reloadJob, running, shown>>
      BY <1>1 DEF fileVars, workVars, viewVars
    <3>6. JobsInv'
      BY <3>1, <3>2, <3>3, <3>4, <3>5, InvFacts, PasswordGiven
    <3> QED BY <3>1, <3>6, InvFacts DEF WindowTyped
  <2> QED BY <2>1, <2>2
<1>3. uri /\ \A k \in DOMAIN ops : ~Fetches(k)
  BY <1>1, InvFacts DEF CopyInv, NobodyIsAskedYet
<1>4. CopyInv'
  BY <1>1, <1>3, InvFacts, NothingIsFetched
     DEF CopyInv, NativeIsLocal, Fetches, fileVars, copyVars
<1>5. FileTyped' /\ CopyTyped'
  BY <1>1, InvFacts DEF FileTyped, CopyTyped, fileVars, copyVars
<1>6. WindowTyped'
  BY <1>1, <1>2, InvFacts DEF WindowTyped, viewVars, monitorVars, areaVars
<1> QED BY <1>2, <1>4, <1>5, <1>6, InvParts

-----------------------------------------------------------------------------
(* A request *)

\* The job of a request is new: the window without a file has no other load
\* job, and the worker gets this one when its copy has come or at once.
LEMMA OpenUriKeeps ==
    ASSUME Inv, OpenUri
    PROVE  Inv'
<1> DEFINE fresh == NewJob("load", IF remote THEN "copy" ELSE "file")
           n == Len(jobs) + 1
<1>1. /\ loadJob = NoJob /\ dialogs = 0 /\ page = "document"
      /\ \A k \in DOMAIN ops : ~Fetches(k)
  BY InvFacts DEF OpenUri, CopyInv, NoFileNoLoad, NobodyIsAskedYet
<1>2. Dropped(loadJob) = jobs /\ Dequeued(loadJob) = queue
  BY <1>1 DEF Dropped, Dequeued
<1>3. /\ uri' = TRUE /\ jobs' = Append(jobs, fresh) /\ loadJob' = n
      /\ UNCHANGED <<fileVars, reloadJob, workVars, shown, settingUp, mtime, area,
                     passwordVars>>
  BY <1>2 DEF OpenUri
<1>4. queue' \in Seq(JobId \cup {n}) /\ (remote => queue' = queue)
  <2>1. queue \in Seq(JobId \cup {n})
    BY InvFacts
  <2>2. Append(queue, n) \in Seq(JobId \cup {n})
    BY <2>1
  <2>3. queue' = IF remote THEN queue ELSE Append(queue, n)
    BY <1>2, <1>3, InvFacts DEF OpenUri
  <2> QED BY <2>1, <2>2, <2>3
<1>5. /\ fresh \in Job /\ fresh.kind = "load" /\ fresh.source # None
      /\ ~fresh.opened /\ ~fresh.finished
  BY NewJobIs, WindowAssumption
<1> HIDE DEF fresh
<1>6. /\ jobs' \in Seq(Job) /\ Len(jobs') = n /\ jobs'[n] = fresh
      /\ \A k \in JobId : jobs'[k] = jobs[k]
  BY <1>3, <1>5, InvFacts DEF JobId
<1>7. JobId' = JobId \cup {n} /\ n \notin JobId /\ NoJob \notin JobId
  BY <1>6, InvFacts DEF JobId, NoJob
<1>8. JobsTyped'
  <2>1. idles \in Seq(JobId')
    BY <1>7, InvFacts
  <2> QED BY <1>3, <1>4, <1>6, <1>7, <2>1, InvFacts DEF JobsTyped, workVars
<1>9. HeardLoadIsHeld' /\ OnlyHeldJobsAreHeard'
  <2>1. ASSUME NEW k \in JobId', jobs'[k].heard
        PROVE  k = n \/ (k \in JobId /\ k # loadJob /\ jobs[k].heard /\ jobs'[k] = jobs[k])
    BY <1>1, <1>6, <1>7, <2>1
  <2>2. HeardLoadIsHeld'
    BY <1>3, <2>1, InvFacts DEF JobsInv, HeardLoadIsHeld
  <2>3. OnlyHeldJobsAreHeard'
    BY <1>3, <2>1, InvFacts DEF JobsInv, OnlyHeldJobsAreHeard, fileVars
  <2> QED BY <2>2, <2>3
<1>10. RunningIsAJob' /\ SourceOfTheRead' /\ FinishedHasRead' /\ ReportStands'
  <2>1. \A k \in JobId' : Keeps(k) \/ IsFresh(k)
    BY <1>5, <1>6, <1>7 DEF Keeps, IsFresh
  <2> QED BY <1>3, <1>6, <2>1, InvFacts, ReadsAreKept DEF workVars
<1>11. CopyInv' /\ CopyTyped'
  <2>1. CASE remote
    <3>1. localUri' = TRUE /\ copy' = 0 /\ ops' = Append(ops, Begin("copy"))
      BY <2>1 DEF OpenUri
    <3>2. Begin("copy") \in Operation
      BY InvFacts, BeginIs
    <3>3. /\ Len(ops) \in Nat /\ DOMAIN ops' = 1 .. Len(ops) + 1
          /\ DOMAIN ops = 1 .. Len(ops) /\ \A k \in DOMAIN ops : ops'[k] = ops[k]
      BY <3>1, <3>2, InvFacts
    <3>4. \A k \in DOMAIN ops' : Fetches(k)' => k = Len(ops) + 1
      BY <1>1, <3>3 DEF Fetches
    <3>5. ~IsUnderWay(loadJob)'
      <4>1. queue' = queue /\ idles' = idles /\ running' = running
        BY <1>3, <1>4, <2>1 DEF workVars
      <4>2. /\ \A j \in ToSet(queue) \cup ToSet(idles) : j \in JobId
            /\ running.job \in JobId \cup {NoJob}
        BY InvFacts DEF ToSet, JobsTyped
      <4>3. n # NoJob
        BY InvFacts DEF NoJob
      <4> QED BY <1>3, <1>7, <4>1, <4>2, <4>3 DEF IsUnderWay
    <3>6. TheLoadWaitsForItsCopy'
      <4>1. loadJob' # NoJob
        BY <1>3, InvFacts DEF NoJob
      <4> QED BY <3>1, <3>4, <3>5, <4>1 DEF TheLoadWaitsForItsCopy, Fetches
    <3>7. NativeIsLocal' /\ NobodyIsAskedYet' /\ NoFileNoLoad'
      BY <1>1, <1>3, <2>1
         DEF NativeIsLocal, NobodyIsAskedYet, NoFileNoLoad, fileVars, passwordVars
    <3>8. CopyTyped'
      <4>1. ops' \in Seq(Operation)
        BY <3>1, <3>2, InvFacts
      <4> QED BY <1>3, <3>1, <4>1, InvFacts DEF CopyTyped
    <3> QED BY <3>6, <3>7, <3>8 DEF CopyInv
  <2>2. CASE ~remote
    <3>1. localUri' = FALSE /\ UNCHANGED <<copy, ops>>
      BY <2>2 DEF OpenUri
    <3>2. CopyInv'
      BY <1>1, <1>3, <2>2, <3>1, InvFacts, NothingIsFetched
         DEF CopyInv, NativeIsLocal, Fetches, fileVars
    <3> QED BY <1>3, <3>1, <3>2, InvFacts DEF CopyTyped
  <2> QED BY <2>1, <2>2
<1>12. FileTyped'
  BY <1>3, InvFacts DEF FileTyped, fileVars
<1>13. WindowTyped'
  <2>1. /\ loading' \in {loading, TRUE} /\ ticking' \in {ticking, TRUE}
        /\ monitor' = None /\ events' = <<>> /\ timer' = FALSE
    BY DEF OpenUri
  <2>2. events' \in Seq({"changed", "done"})
    BY <2>1
  <2> QED BY <1>3, <2>1, <2>2, InvFacts DEF WindowTyped, passwordVars
<1> QED BY <1>8, <1>9, <1>10, <1>11, <1>12, <1>13, InvParts DEF JobsInv

-----------------------------------------------------------------------------
(* The worker *)

LEMMA OneJobChanges ==
    ASSUME JobsTyped, NEW j \in JobId, NEW e \in Job, jobs' = [jobs EXCEPT ![j] = e]
    PROVE  /\ jobs' \in Seq(Job) /\ Len(jobs') = Len(jobs) /\ JobId' = JobId
           /\ \A k \in JobId : jobs'[k] = IF k = j THEN e ELSE jobs[k]
<1>1. Len(jobs) \in Nat /\ JobId = 1 .. Len(jobs) /\ jobs \in [JobId -> Job]
  BY DEF JobsTyped, JobId
<1>2. jobs' \in [1 .. Len(jobs) -> Job]
  BY <1>1
<1>3. jobs' \in Seq(Job) /\ Len(jobs') = Len(jobs)
  BY <1>1, <1>2, FunctionIsSeq
<1> QED BY <1>1, <1>3 DEF JobId

LEMMA HeadAndTail ==
    ASSUME NEW S, NEW q \in Seq(S), q # <<>>
    PROVE  /\ Head(q) \in S /\ Head(q) \in ToSet(q)
           /\ Tail(q) \in Seq(S) /\ ToSet(Tail(q)) \subseteq ToSet(q)
<1>1. /\ Len(q) \in Nat \ {0} /\ DOMAIN q = 1 .. Len(q)
      /\ Head(q) = q[1] /\ Head(q) \in S /\ Tail(q) \in Seq(S)
      /\ DOMAIN Tail(q) = 1 .. Len(q) - 1
      /\ \A k \in 1 .. Len(q) - 1 : Tail(q)[k] = q[k + 1]
  OBVIOUS
<1>2. 1 \in DOMAIN q
  BY <1>1
<1>3. \A k \in DOMAIN Tail(q) : k + 1 \in DOMAIN q /\ Tail(q)[k] = q[k + 1]
  BY <1>1
<1> QED BY <1>1, <1>2, <1>3 DEF ToSet

\* The worker takes a job: what it has read before it may lose its error and
\* be finished no more, but nobody listens to another job and no report is
\* forgotten, for the worker has the job whose flags are reset.
LEMMA StartJobKeeps ==
    ASSUME Inv, StartJob
    PROVE  Inv'
<1> DEFINE j == Head(queue)
           e == [jobs[j] EXCEPT !.finished = FALSE, !.error = None]
<1>1. /\ running = Idle /\ queue # <<>> /\ queue' = Tail(queue)
      /\ running' = [job |-> j, password |-> jobs[j].password]
      /\ jobs' = IF jobs[j].opened
                 THEN [jobs EXCEPT ![j].finished = FALSE, ![j].error = None]
                 ELSE jobs
      /\ UNCHANGED <<fileVars, uri, loadJob, reloadJob, idles, viewVars, monitorVars,
                     copyVars, areaVars, passwordVars>>
  BY DEF StartJob
<1>2. /\ j \in JobId /\ j \in ToSet(queue)
      /\ queue' \in Seq(JobId) /\ ToSet(queue') \subseteq ToSet(queue)
  BY <1>1, InvFacts, HeadAndTail
<1> HIDE DEF j
<1>3. jobs[j] \in Job /\ jobs \in [JobId -> Job] /\ j # NoJob
  BY <1>2, InvFacts DEF JobId, NoJob
<1>4. /\ e \in Job
      /\ e.kind = jobs[j].kind /\ e.source = jobs[j].source
      /\ e.opened = jobs[j].opened /\ e.heard = jobs[j].heard
      /\ e.finished = FALSE
  BY <1>3 DEF Job
<1>5. [jobs EXCEPT ![j].finished = FALSE, ![j].error = None] = [jobs EXCEPT ![j] = e]
  BY <1>2, <1>3 DEF Job
<1> HIDE DEF e
<1>6. /\ jobs' \in Seq(Job) /\ Len(jobs') = Len(jobs) /\ JobId' = JobId
      /\ \A k \in JobId : jobs'[k] = jobs[k] \/ (k = j /\ jobs'[k] = e)
  <2>1. CASE jobs[j].opened
    <3>1. jobs' = [jobs EXCEPT ![j] = e]
      BY <1>1, <1>5, <2>1
    <3>2. JobsTyped /\ e \in Job
      BY <1>4, InvFacts
    <3>3. /\ jobs' \in Seq(Job) /\ Len(jobs') = Len(jobs) /\ JobId' = JobId
          /\ \A k \in JobId : jobs'[k] = IF k = j THEN e ELSE jobs[k]
      BY <1>2, <3>1, <3>2, OneJobChanges
    <3> QED BY <3>3
  <2>2. CASE ~jobs[j].opened
    BY <1>1, <2>2, InvFacts DEF JobId
  <2> QED BY <2>1, <2>2
<1>7. JobsTyped' /\ RunningIsAJob'
  <2>1. running' \in [job : JobId \cup {NoJob}, password : Passwords \cup {None}]
    BY <1>1, <1>2, <1>3 DEF Job
  <2> QED BY <1>1, <1>2, <1>3, <1>6, <2>1, InvFacts DEF JobsTyped, RunningIsAJob, viewVars
<1>8. HeardLoadIsHeld' /\ OnlyHeldJobsAreHeard' /\ SourceOfTheRead' /\ FinishedHasRead'
  <2>1. \A k \in JobId : /\ jobs'[k].kind = jobs[k].kind
                         /\ jobs'[k].heard = jobs[k].heard
                         /\ jobs'[k].source = jobs[k].source
                         /\ jobs'[k].opened = jobs[k].opened
                         /\ jobs'[k].finished => jobs'[k] = jobs[k]
    BY <1>4, <1>6
  <2>2. HeardLoadIsHeld' /\ OnlyHeldJobsAreHeard'
    BY <1>1, <1>6, <2>1, InvFacts
       DEF JobsInv, HeardLoadIsHeld, OnlyHeldJobsAreHeard, fileVars
  <2>3. SourceOfTheRead' /\ FinishedHasRead'
    BY <1>6, <2>1, InvFacts DEF JobsInv, SourceOfTheRead, FinishedHasRead
  <2> QED BY <2>2, <2>3
<1>9. ReportStands'
  <2> SUFFICES ASSUME NEW i \in ToSet(idles)
               PROVE  jobs'[i].finished \/ jobs'[i].cancelled \/ running'.job = i
    BY <1>1 DEF ReportStands
  <2>1. i \in JobId /\ i # NoJob
    BY InvFacts DEF ToSet, JobId, NoJob
  <2>2. jobs[i].finished \/ jobs[i].cancelled
    BY <1>1, <2>1, InvFacts DEF JobsInv, ReportStands, Idle
  <2>3. running'.job = j
    BY <1>1
  <2> QED BY <1>6, <2>1, <2>2, <2>3
<1>10. CopyInv'
  <2>1. StaysOut
    <3>1. running'.job = j
      BY <1>1
    <3> QED BY <1>1, <1>2, <3>1 DEF StaysOut, IsUnderWay
  <2> QED BY <1>1, <2>1, InvFacts, CopyUntouched DEF fileVars, copyVars, passwordVars
<1>11. FileTyped' /\ CopyTyped' /\ WindowTyped'
  BY <1>1, InvFacts
     DEF FileTyped, CopyTyped, WindowTyped, fileVars, viewVars, monitorVars, copyVars,
         areaVars, passwordVars
<1> QED BY <1>7, <1>8, <1>9, <1>10, <1>11, InvParts DEF JobsInv

\* What a job finds when it reads.
LEMMA OutcomeIs ==
    ASSUME Inv, NEW j \in JobId
    PROVE  /\ Contents(j) \in 0 .. MaxVersion
           /\ Outcome(j) \in {None, "encrypted", "other"}
           /\ Outcome(j) = None /\ jobs[j].source # None => Contents(j) # 0
<1>1. copy \in 0 .. MaxVersion /\ version \in 0 .. MaxVersion
  BY InvFacts, WindowAssumption DEF CopyTyped, FileTyped
<1> QED BY <1>1, InvFacts, WindowAssumption DEF Contents, Outcome

\* The job ends: it is finished, with what it has read, or else it was
\* cancelled; so its report stands when the worker has let go of it.
LEMMA FinishJobKeeps ==
    ASSUME Inv, FinishJob
    PROVE  Inv'
<1> DEFINE j == running.job
           silent == jobs[j].cancelled \/ jobs[j].finished
           e == [jobs[j] EXCEPT
                   !.opened = @ \/ (jobs[j].source # None /\ Outcome(j) # "other"),
                   !.version = IF Outcome(j) = None /\ jobs[j].source # None
                               THEN Contents(j) ELSE @,
                   !.error = IF jobs[j].finished THEN @ ELSE Outcome(j),
                   !.finished = @ \/ ~silent]
<1>1. /\ running # Idle
      /\ jobs' = [jobs EXCEPT
            ![j].opened = @ \/ (jobs[j].source # None /\ Outcome(j) # "other"),
            ![j].version = IF Outcome(j) = None /\ jobs[j].source # None
                           THEN Contents(j) ELSE @,
            ![j].error = IF jobs[j].finished THEN @ ELSE Outcome(j),
            ![j].finished = @ \/ ~silent]
      /\ idles' = (IF silent THEN idles ELSE Append(idles, j))
      /\ running' = Idle
      /\ UNCHANGED <<fileVars, uri, loadJob, reloadJob, queue, viewVars, monitorVars,
                     copyVars, areaVars, passwordVars>>
  BY DEF FinishJob
<1>2. j \in JobId
  BY <1>1, InvFacts DEF JobsInv, JobsTyped, RunningIsAJob
<1> HIDE DEF j
<1>3. jobs[j] \in Job /\ jobs \in [JobId -> Job] /\ j # NoJob
  BY <1>2, InvFacts DEF JobId, NoJob
<1>4. /\ Contents(j) \in 0 .. MaxVersion
      /\ Outcome(j) \in {None, "encrypted", "other"}
      /\ Outcome(j) = None /\ jobs[j].source # None => Contents(j) # 0
  BY <1>2, OutcomeIs
<1>5. jobs' = [jobs EXCEPT ![j] = e]
  BY <1>1, <1>2, <1>3 DEF Job
<1>6. /\ e \in Job
      /\ e.kind = jobs[j].kind /\ e.source = jobs[j].source
      /\ e.heard = jobs[j].heard /\ e.cancelled = jobs[j].cancelled
      /\ e.opened => jobs[j].opened \/ jobs[j].source # None
      /\ e.version = (IF Outcome(j) = None /\ jobs[j].source # None
                      THEN Contents(j) ELSE jobs[j].version)
      /\ e.error = (IF jobs[j].finished THEN jobs[j].error ELSE Outcome(j))
      /\ e.finished <=> jobs[j].finished \/ ~silent
  BY <1>3, <1>4 DEF Job
<1> HIDE DEF e
<1>7. /\ jobs' \in Seq(Job) /\ Len(jobs') = Len(jobs) /\ JobId' = JobId
      /\ \A k \in JobId : jobs'[k] = IF k = j THEN e ELSE jobs[k]
  <2>1. JobsTyped /\ e \in Job
    BY <1>6, InvFacts
  <2> QED BY <1>2, <1>5, <2>1, OneJobChanges
<1>8. idles' \in Seq(JobId) /\ ToSet(idles') \subseteq ToSet(idles) \cup {j}
  <2>1. idles \in Seq(JobId)
    BY InvFacts
  <2>2. Append(idles, j) \in Seq(JobId) /\ ToSet(Append(idles, j)) = ToSet(idles) \cup {j}
    BY <1>2, <2>1, AppendAdds
  <2> QED BY <1>1, <2>1, <2>2
<1>9. JobsTyped' /\ RunningIsAJob'
  <2>1. running' \in [job : JobId \cup {NoJob}, password : Passwords \cup {None}]
    BY <1>1 DEF Idle
  <2> QED BY <1>1, <1>7, <1>8, <2>1, InvFacts DEF JobsTyped, RunningIsAJob, viewVars, Idle
<1>10. HeardLoadIsHeld' /\ OnlyHeldJobsAreHeard'
  <2>1. \A k \in JobId : /\ jobs'[k].kind = jobs[k].kind
                         /\ jobs'[k].heard = jobs[k].heard
    BY <1>6, <1>7
  <2> QED BY <1>1, <1>7, <2>1, InvFacts
             DEF JobsInv, HeardLoadIsHeld, OnlyHeldJobsAreHeard, fileVars
<1>11. SourceOfTheRead' /\ FinishedHasRead'
  <2>1. SourceOfTheRead'
    <3> SUFFICES ASSUME NEW k \in JobId, jobs'[k].kind = "load" \/ jobs'[k].opened
                 PROVE  jobs'[k].source # None
      BY <1>7 DEF SourceOfTheRead
    <3> QED BY <1>2, <1>6, <1>7, InvFacts DEF JobsInv, SourceOfTheRead
  <2>2. FinishedHasRead'
    <3> SUFFICES ASSUME NEW k \in JobId, jobs'[k].finished, jobs'[k].error = None,
                        jobs'[k].source # None
                 PROVE  jobs'[k].version # 0
      BY <1>7 DEF FinishedHasRead
    <3>1. CASE k # j
      BY <1>7, <3>1, InvFacts DEF JobsInv, FinishedHasRead
    <3>2. CASE k = j
      <4>1. jobs[j].finished /\ jobs[j].error = None /\ jobs[j].source # None
              => jobs[j].version # 0
        BY <1>2, InvFacts DEF JobsInv, FinishedHasRead
      <4> QED BY <1>4, <1>6, <1>7, <3>2, <4>1
    <3> QED BY <3>1, <3>2
  <2> QED BY <2>1, <2>2
<1>12. ReportStands'
  <2> SUFFICES ASSUME NEW i \in ToSet(idles')
               PROVE  jobs'[i].finished \/ jobs'[i].cancelled
    BY DEF ReportStands
  <2>1. CASE i = j
    BY <1>2, <1>6, <1>7, <2>1
  <2>2. CASE i # j
    <3>1. i \in ToSet(idles)
      BY <1>8, <2>2
    <3>2. i \in JobId
      BY <3>1, InvFacts DEF ToSet
    <3> QED BY <1>7, <2>2, <3>1, <3>2, InvFacts DEF JobsInv, ReportStands, j
  <2> QED BY <2>1, <2>2
<1>13. CopyInv'
  <2>1. running'.job = NoJob
    BY <1>1 DEF Idle
  <2>2. StaysOut
    <3>1. /\ UNCHANGED <<loadJob, queue>>
          /\ ToSet(idles') \subseteq ToSet(idles) \cup {running.job}
          /\ running'.job \in {NoJob}
      BY <1>1, <1>8, <2>1 DEF j
    <3> QED BY <3>1, InvFacts DEF StaysOut, IsUnderWay, JobId, NoJob
  <2> QED BY <1>1, <2>2, InvFacts, CopyUntouched DEF fileVars, copyVars, passwordVars
<1>14. FileTyped' /\ CopyTyped' /\ WindowTyped'
  BY <1>1, InvFacts
     DEF FileTyped, CopyTyped, WindowTyped, fileVars, viewVars, monitorVars, copyVars,
         areaVars, passwordVars
<1> QED BY <1>9, <1>10, <1>11, <1>12, <1>13, <1>14, InvParts DEF JobsInv

-----------------------------------------------------------------------------
(* The theorems *)

LEMMA InitInv ==
    ASSUME Init
    PROVE  Inv
<1>1. /\ jobs = <<>> /\ loadJob = NoJob /\ reloadJob = NoJob /\ queue = <<>>
      /\ running = Idle /\ idles = <<>> /\ shown = NoJob /\ ops = <<>>
      /\ localUri = FALSE /\ page = "document" /\ dialogs = 0 /\ uri = FALSE
  BY DEF Init
<1>2. JobId = {} /\ DOMAIN ops = {}
  BY <1>1 DEF JobId
<1>3. JobsInv
  BY <1>1, <1>2
     DEF JobsInv, JobsTyped, RunningIsAJob, HeardLoadIsHeld, OnlyHeldJobsAreHeard,
         SourceOfTheRead, FinishedHasRead, ReportStands, Idle, ToSet
<1>4. CopyInv
  BY <1>1, <1>2
     DEF CopyInv, NativeIsLocal, TheLoadWaitsForItsCopy, NobodyIsAskedYet, NoFileNoLoad
<1>5. FileTyped
  <2>1. PICK file \in Files : remote = file.remote /\ locked = file.locked
    BY DEF Init
  <2>2. remote \in BOOLEAN /\ locked \in BOOLEAN
    BY <2>1, WindowAssumption
  <2>3. version \in 1 .. MaxVersion /\ broken \subseteq 1 .. MaxVersion
    BY WindowAssumption DEF Init
  <2> QED BY <1>1, <2>2, <2>3 DEF FileTyped
<1>6. CopyTyped
  <2>1. copy = 0 /\ mtime = 0 /\ ops \in Seq(Operation)
    BY <1>1 DEF Init
  <2>2. 0 \in 0 .. MaxVersion
    BY WindowAssumption
  <2>3. localUri \in BOOLEAN
    BY <1>1
  <2> QED BY <2>1, <2>2, <2>3 DEF CopyTyped
<1>7. WindowTyped
  <2>1. events \in Seq({"changed", "done"})
    BY DEF Init
  <2> QED BY <2>1 DEF Init, WindowTyped
<1> QED BY <1>3, <1>4, <1>5, <1>6, <1>7, InvParts

LEMMA StutteringKeeps ==
    ASSUME Inv, UNCHANGED vars
    PROVE  Inv'
<1>1. UNCHANGED <<fileVars, uri, jobVars, workVars, viewVars, monitorVars, copyVars,
                  areaVars, passwordVars>>
  BY DEF vars
<1>2. JobsInv' /\ CopyInv' /\ CopyTyped'
  BY <1>1, Quiet DEF fileVars, viewVars, passwordVars
<1>3. FileTyped' /\ WindowTyped'
  BY <1>1, InvFacts
     DEF FileTyped, WindowTyped, fileVars, viewVars, monitorVars, areaVars, passwordVars
<1> QED BY <1>2, <1>3, InvParts

LEMMA UserKeeps ==
    ASSUME Inv, User
    PROVE  Inv'
<1>1. CASE OpenUri
  BY <1>1, OpenUriKeeps
<1>2. CASE Reload
  BY <1>2, ReloadKeeps
<1>3. CASE ClickUnlock \/ CancelDialog
  BY <1>3, DialogsKeep
<1>4. ASSUME NEW password \in Passwords, NEW save \in BOOLEAN, Unlock(password, save)
      PROVE  Inv'
  BY <1>4, UnlockKeeps
<1>5. CASE CancelCopies
  BY <1>5, CancelCopiesKeeps
<1>6. CASE CloseArea
  BY <1>6, AreaKeeps
<1> QED BY <1>1, <1>2, <1>3, <1>4, <1>5, <1>6 DEF User

LEMMA MainLoopKeeps ==
    ASSUME Inv, MainLoop
    PROVE  Inv'
<1>1. ASSUME NEW j \in JobId, Report(j)
      PROVE  Inv'
  <2>1. CASE ReportToNobody(j)
    BY <2>1, ReportToNobodyKeeps
  <2>2. CASE LoadSucceeded(j) \/ LoadFailed(j)
    BY <2>2, LoadEndsKeeps
  <2>3. CASE LoadNeedsPassword(j)
    BY <2>3, LoadNeedsPasswordKeeps
  <2>4. CASE ReloadFinished(j)
    BY <2>4, ReloadFinishedKeeps
  <2> QED BY <1>1, <2>1, <2>2, <2>3, <2>4 DEF Report
<1>2. CASE SetupDocument
  BY <1>2, DialogsKeep
<1>3. CASE Changed \/ ShowProgress
  BY <1>3, AreaKeeps
<1>4. CASE ChangesDone \/ TimeoutCb
  BY <1>4, ReloadKeeps
<1> QED BY <1>1, <1>2, <1>3, <1>4 DEF MainLoop

LEMMA RemoteKeeps ==
    ASSUME Inv, Remote
    PROVE  Inv'
<1> PICK k \in DOMAIN ops :
        \/ CopyReady(k) \/ CopyNeedsMount(k) \/ CopyCancelled(k) \/ CopyFailed(k)
        \/ Mounted(k) \/ MountFailed(k) \/ SetUriMtime(k)
        \/ \E date \in 0 .. version : QuerySaysOld(k, date) \/ QuerySaysNew(k, date)
        \/ RecopyReady(k) \/ RecopyFailed(k)
  BY DEF Remote
<1>1. CASE CopyReady(k)
  BY <1>1, CopyReadyKeeps
<1>2. CASE CopyNeedsMount(k) \/ Mounted(k)
  BY <1>2, CopyNeedsMountKeeps
<1>3. CASE CopyCancelled(k)
  BY <1>3, CopyCancelledKeeps
<1>4. CASE CopyFailed(k) \/ MountFailed(k)
  BY <1>4, FetchFailedKeeps
<1>5. CASE SetUriMtime(k)
  BY <1>5, SetUriMtimeKeeps
<1>6. ASSUME NEW date \in 0 .. version, QuerySaysOld(k, date) \/ QuerySaysNew(k, date)
      PROVE  Inv'
  BY <1>6, QuerySaysOldKeeps, QuerySaysNewKeeps
<1>7. CASE RecopyReady(k)
  BY <1>7, RecopyReadyKeeps
<1>8. CASE RecopyFailed(k)
  BY <1>8, RecopyFailedKeeps
<1> QED BY <1>1, <1>2, <1>3, <1>4, <1>5, <1>6, <1>7, <1>8

LEMMA NextKeeps ==
    ASSUME Inv, [Next]_vars
    PROVE  Inv'
<1>1. CASE User
  BY <1>1, UserKeeps
<1>2. CASE MainLoop
  BY <1>2, MainLoopKeeps
<1>3. CASE StartJob
  BY <1>3, StartJobKeeps
<1>4. CASE FinishJob
  BY <1>4, FinishJobKeeps
<1>5. CASE Remote
  BY <1>5, RemoteKeeps
<1>6. ASSUME NEW bad \in BOOLEAN, NEW news \in {<<"changed">>, <<"changed", "done">>},
             WriteFile(bad, news)
      PROVE  Inv'
  BY <1>6, WriteFileKeeps
<1>7. CASE UNCHANGED vars
  BY <1>7, StutteringKeeps
<1> QED BY <1>1, <1>2, <1>3, <1>4, <1>5, <1>6, <1>7 DEF Next

\* The invariant above holds of every file, password and bound.
THEOREM InvHolds == Spec => []Inv
<1>1. Init => Inv
  BY InitInv
<1>2. Inv /\ [Next]_vars => Inv'
  BY NextKeeps
<1> QED BY <1>1, <1>2, PTL DEF Spec

\* The jobs, the queue and the dialogs are well formed, and the window of a
\* native file listens to no job but those it holds, however loads, reloads and
\* passwords overlap (ev_window_clear_load_job, ev_window_clear_reload_job).
THEOREM JobsStayInHand == Spec => []JobsAreInHand
<1>1. Inv => JobsAreInHand
  BY DEF Inv, JobsAreInHand
<1> QED BY <1>1, InvHolds, PTL

\* While a remote file is copied for the first time, the load job that waits
\* for it is there and in no queue, and there is only one such copy:
\* window_open_file_copy_ready_cb may push priv->load_job unseen.
THEOREM EveryFirstCopyHasItsLoad == Spec => []TheLoadWaitsForItsCopy
<1>1. Inv => TheLoadWaitsForItsCopy
  BY DEF Inv
<1> QED BY <1>1, InvHolds, PTL

\* The job whose document a step puts into the window has reported without an
\* error, and what it had read then it has read still, unless the worker is at
\* it again.
LEMMA ShownHasBeenRead ==
    ASSUME Inv, NEW j, NEW kind, ReportTo(kind, j), jobs[j].error = None,
           kind = "load" \/ jobs[j].opened,
           NEW held \in {loadJob, reloadJob}, jobs' = Dropped(held), shown' = j
    PROVE  VersionShown' = 0 => running.job = shown'
<1>1. Reported(j) /\ jobs[j].kind = kind /\ ~jobs[j].cancelled
  BY DEF ReportTo
<1>2. j \in ToSet(idles) /\ j \in JobId
  BY <1>1, InvFacts, ReportedIs
<1>3. jobs[j].finished \/ running.job = j
  BY <1>1, <1>2, InvFacts DEF JobsInv, ReportStands
<1>4. jobs[j].source # None
  BY <1>1, <1>2, InvFacts DEF JobsInv, SourceOfTheRead
<1>5. jobs[j].finished => jobs[j].version # 0
  BY <1>2, <1>4, InvFacts DEF JobsInv, FinishedHasRead
<1>6. VersionShown' = jobs[j].version
  <2>1. held \in JobId \cup {NoJob} /\ j # NoJob
    BY <1>2, InvFacts DEF JobId, NoJob
  <2>2. jobs'[j].version = jobs[j].version
    BY <1>2, <2>1, InvFacts, DroppedIs
  <2> QED BY <2>1, <2>2 DEF VersionShown
<1> QED BY <1>3, <1>5, <1>6

\* A document that could not be read, for want of a password, gets into the
\* window only while the worker runs its job again, pushed by a second unlock
\* before the first was answered (ev_job_load_run, ev_window_load_job_cb).
THEOREM UnreadOnlyByASecondUnlock == Spec => UnreadIsShownOnlyByASecondUnlock
<1>1. ASSUME Inv, [Next]_vars, shown' # shown
      PROVE  VersionShown' = 0 => running.job = shown'
  <2>1. ASSUME NEW j \in JobId, Report(j)
        PROVE  VersionShown' = 0 => running.job = shown'
    <3>1. CASE LoadSucceeded(j)
      BY <1>1, <3>1, ShownHasBeenRead DEF LoadSucceeded, ClearLoadJob, SetDocument
    <3>2. CASE ReloadFinished(j)
      BY <1>1, <3>2, ShownHasBeenRead DEF ReloadFinished, SetDocument
    <3> QED BY <1>1, <2>1, <3>1, <3>2
            DEF Report, ReportToNobody, LoadNeedsPassword, LoadFailed, viewVars
  <2>2. \E j \in JobId : Report(j)
    <3>1. CASE UNCHANGED vars
      BY <1>1, <3>1 DEF vars, viewVars
    <3>2. ~User
      BY <1>1
         DEF User, OpenUri, Reload, ClickUnlock, CancelDialog, Unlock, CancelCopies,
             CloseArea, viewVars
    <3>3. ~SetupDocument /\ ~Changed /\ ~ChangesDone /\ ~TimeoutCb /\ ~ShowProgress
      BY <1>1 DEF SetupDocument, Changed, ChangesDone, TimeoutCb, ShowProgress, viewVars
    <3>4. ~StartJob /\ ~FinishJob
      BY <1>1 DEF StartJob, FinishJob, viewVars
    <3>5. ~Remote
      BY <1>1
         DEF Remote, CopyReady, CopyNeedsMount, CopyCancelled, CopyFailed, Mounted,
             MountFailed, SetUriMtime, QuerySaysOld, QuerySaysNew, RecopyReady,
             RecopyFailed, viewVars
    <3>6. ~\E bad \in BOOLEAN, news \in {<<"changed">>, <<"changed", "done">>} :
             WriteFile(bad, news)
      BY <1>1 DEF WriteFile, viewVars
    <3> QED BY <1>1, <3>1, <3>2, <3>3, <3>4, <3>5, <3>6 DEF Next, MainLoop
  <2> QED BY <2>1, <2>2
<1>2. Inv /\ [Next]_vars
        => [shown' # shown /\ VersionShown' = 0 => running.job = shown']_vars
  BY <1>1
<1> QED BY <1>2, InvHolds, PTL DEF Spec, UnreadIsShownOnlyByASecondUnlock

=============================================================================
