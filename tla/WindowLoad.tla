----------------------------- MODULE WindowLoad -----------------------------
(***************************************************************************)
(* How a window gets and renews its document (ev-window.c: opening,        *)
(* reloading, passwords, copies of remote files), with the monitor of the  *)
(* file (ev-file-monitor.c), the password view (ev-password-view.c) and    *)
(* the keyring.                                                            *)
(*                                                                         *)
(* A process has one document, so the window has one file: opening it      *)
(* again reloads it.  The file has versions, numbered; those in broken     *)
(* cannot be loaded.  A remote file is copied to a local one, and a        *)
(* locked file needs a password.  All callbacks run in the main loop; the  *)
(* worker thread of the scheduler runs the jobs in the order in which they *)
(* were pushed (they have the same priority).                              *)
(*                                                                         *)
(* Left out: destinations, run modes and searches that go with a request,  *)
(* metadata, titles, and the destruction of the window.                    *)
(***************************************************************************)
EXTENDS Integers, Sequences, FiniteSets, SequencesExt, Queues

CONSTANTS
    Files,       \* the files there may be: remote or not, locked or not
    Passwords,   \* the passwords somebody may try
    Right,       \* the one that opens the file
    MaxVersion,  \* bound: versions of the file
    MaxJobs,     \* bound: load and reload jobs
    MaxBusy,     \* bound: nobody unlocks with so many jobs under way
    None         \* the null pointer

ASSUME WindowAssumption ==
    /\ Files \subseteq [remote : BOOLEAN, locked : BOOLEAN]
    /\ Right \in Passwords
    /\ None \notin Passwords \cup {"load", "file", "copy", "encrypted", "other"}
    /\ MaxVersion \in Nat \ {0} /\ MaxJobs \in Nat /\ MaxBusy \in Nat

VARIABLES
    remote,     \* the file is not native
    locked,     \* it needs a password
    version,    \* its version
    broken,     \* the versions that cannot be loaded
    uri,        \* priv->uri is set
    jobs,       \* the load jobs made so far
    loadJob,    \* priv->load_job, 0 if it is NULL
    reloadJob,  \* priv->reload_job
    queue,      \* the scheduler's queue of jobs
    running,    \* the job the worker runs (0: none) and the password it took
    idles,      \* the jobs whose emit_finished is queued in the main loop
    shown,      \* the job whose document the window shows
    settingUp,  \* priv->setup_document_idle
    loading,    \* the view says that it is loading
    monitor,    \* priv->monitor: None, "deaf" or "on"
    events,     \* what the monitor has still to be told
    timer,      \* the monitor's timeout_id
    localUri,   \* priv->local_uri is set
    copy,       \* the version in the local copy, 0 if it is empty
    mtime,      \* priv->uri_mtime, as a version
    ops,        \* the asynchronous operations on the remote file
    ticking,    \* priv->progress_idle
    area,       \* priv->message_area: None, "progress" or "message"
    page,       \* priv->page_mode
    dialogs,    \* open password dialogs
    remember,   \* password_save: the keyring is to have the password
    keyring,    \* the password in the keyring
    aborted     \* an assertion has failed

fileVars == <<remote, locked, version, broken>>
jobVars == <<jobs, loadJob, reloadJob, queue>>
workVars == <<running, idles>>
viewVars == <<shown, settingUp, loading>>
monitorVars == <<monitor, events, timer>>
copyVars == <<localUri, copy, mtime, ops>>
areaVars == <<ticking, area>>
passwordVars == <<page, dialogs, remember, keyring, aborted>>
vars == <<fileVars, uri, jobVars, workVars, viewVars, monitorVars, copyVars,
          areaVars, passwordVars>>

NoJob == 0
Idle == [job |-> NoJob, password |-> None]

Job == [kind : {"load", "reload"},
        source : {"file", "copy", None},    \* what its uri names
        password : Passwords \cup {None},
        opened : BOOLEAN,                   \* it has a document
        version : 0 .. MaxVersion,          \* what that was loaded from
        finished : BOOLEAN,
        error : {None, "encrypted", "other"},
        cancelled : BOOLEAN,
        heard : BOOLEAN]                    \* the window listens to it

Operation == [kind : {"copy", "mount", "mtime", "query", "recopy"},
              from : 0 .. MaxVersion,       \* the version when it began
              stopped : BOOLEAN]            \* its cancellable was cancelled

JobId == 1 .. Len(jobs)

TypeOK ==
    /\ remote \in BOOLEAN /\ locked \in BOOLEAN
    /\ version \in 1 .. MaxVersion /\ broken \subseteq 1 .. MaxVersion
    /\ uri \in BOOLEAN
    /\ jobs \in Seq(Job)
    /\ loadJob \in JobId \cup {NoJob} /\ reloadJob \in JobId \cup {NoJob}
    /\ queue \in Seq(JobId) /\ idles \in Seq(JobId)
    /\ running \in [job : JobId \cup {NoJob}, password : Passwords \cup {None}]
    /\ shown \in JobId \cup {NoJob}
    /\ settingUp \in BOOLEAN /\ loading \in BOOLEAN
    /\ monitor \in {None, "deaf", "on"}
    /\ events \in Seq({"changed", "done"})
    /\ timer \in BOOLEAN
    /\ localUri \in BOOLEAN
    /\ copy \in 0 .. MaxVersion /\ mtime \in 0 .. MaxVersion
    /\ ops \in Seq(Operation)
    /\ ticking \in BOOLEAN /\ area \in {None, "progress", "message"}
    /\ page \in {"document", "password"}
    /\ dialogs \in Nat
    /\ remember \in BOOLEAN /\ keyring \in Passwords \cup {None}
    /\ aborted \in BOOLEAN

Init ==
    /\ \E file \in Files : remote = file.remote /\ locked = file.locked
    /\ version = 1 /\ broken \in SUBSET {1}
    /\ uri = FALSE
    /\ jobs = <<>> /\ loadJob = NoJob /\ reloadJob = NoJob /\ queue = <<>>
    /\ running = Idle /\ idles = <<>>
    /\ shown = NoJob /\ settingUp = FALSE /\ loading = FALSE
    /\ monitor = None /\ events = <<>> /\ timer = FALSE
    /\ localUri = FALSE /\ copy = 0 /\ mtime = 0 /\ ops = <<>>
    /\ ticking = FALSE /\ area = None
    /\ page = "document" /\ dialogs = 0 /\ remember = FALSE
    /\ keyring \in Passwords \cup {None}
    /\ (locked \/ keyring = None)
    /\ aborted = FALSE

-----------------------------------------------------------------------------
(* Bounds *)

LeadsToAJob(op) == op.kind \in {"query", "recopy"}

\* The jobs there are, and those that may still come without a new request.
Due == Len(jobs) + Len(SelectSeq(ops, LeadsToAJob)) + Len(events)
         + (IF timer THEN 1 ELSE 0)

\* The jobs queued, running or with a report under way.
Busy == Len(queue) + Len(idles) + (IF running = Idle THEN 0 ELSE 1)

-----------------------------------------------------------------------------
(* Jobs of the window *)

NewJob(kind, source) ==
    [kind |-> kind, source |-> source, password |-> None, opened |-> FALSE,
     version |-> 0, finished |-> FALSE, error |-> None, cancelled |-> FALSE,
     heard |-> TRUE]

\* ev_window_clear_load_job and ev_window_clear_reload_job: the jobs and the
\* queue when the window has dropped job j.
Dropped(j) ==
    IF j = NoJob THEN jobs
    ELSE [jobs EXCEPT ![j].heard = FALSE,
                      ![j].cancelled = @ \/ ~jobs[j].finished]

Dequeued(j) ==
    IF j = NoJob \/ jobs[j].finished THEN queue
    ELSE Removing(queue, {j})

\* ev_window_reload_local, after js and q are the jobs and the queue.
ReloadLocal(js, q) ==
    /\ jobs' = Append(js, NewJob("reload", IF localUri THEN "copy"
                                           ELSE IF uri THEN "file" ELSE None))
    /\ reloadJob' = Len(js) + 1
    /\ queue' = Append(q, Len(js) + 1)

Begin(kind) == [kind |-> kind, from |-> version, stopped |-> FALSE]

\* Mutant: the reload job that was under way stays connected.
MutReloadDocument ==
    /\ IF localUri
       THEN ops' = Append(ops, Begin("query")) /\ UNCHANGED <<jobs, queue, reloadJob>>
       ELSE ReloadLocal(jobs, queue) /\ ops' = ops
    /\ UNCHANGED <<loadJob, localUri, copy, mtime>>

\* Mutant: a reload starts the load over.
MutReloadDocument3 ==
    /\ ReloadLocal(Dropped(loadJob), Dequeued(loadJob))
    /\ loadJob' = NoJob
    /\ UNCHANGED copyVars

\* Mutant: while a reload is under way, no other is started.
MutReloadDocument2 ==
    /\ IF reloadJob # NoJob
       THEN UNCHANGED <<jobs, queue, reloadJob, ops>>
       ELSE IF localUri
       THEN ops' = Append(ops, Begin("query")) /\ UNCHANGED <<jobs, queue, reloadJob>>
       ELSE ReloadLocal(jobs, queue) /\ ops' = ops
    /\ UNCHANGED <<loadJob, localUri, copy, mtime>>

\* ev_window_reload_document: a remote file is first asked for its date.
ReloadDocument ==
    /\ IF localUri
       THEN /\ jobs' = Dropped(reloadJob)
            /\ queue' = Dequeued(reloadJob)
            /\ reloadJob' = NoJob
            /\ ops' = Append(ops, Begin("query"))
       ELSE /\ ReloadLocal(Dropped(reloadJob), Dequeued(reloadJob))
            /\ ops' = ops
    /\ UNCHANGED <<loadJob, localUri, copy, mtime>>

\* ev_window_error_message: it does not replace what is in the message area.
ErrorMessage == area' = IF area = None THEN "message" ELSE area

\* ev_document_model_set_document, and ev_window_set_document it leads to.
SetDocument(j) ==
    /\ shown' = j
    /\ area' = None
    /\ settingUp' = TRUE

-----------------------------------------------------------------------------
(* Requests *)

\* ev_window_open_uri in a window that has no document or has lost it; the
\* native file is loaded, the remote one copied first (ev_window_load_file_remote).
OpenUri ==
    /\ ~uri /\ Due < MaxJobs
    /\ uri' = TRUE
    /\ monitor' = None /\ events' = <<>> /\ timer' = FALSE
    /\ jobs' = Append(Dropped(loadJob), NewJob("load", IF remote THEN "copy" ELSE "file"))
    /\ loadJob' = Len(jobs) + 1
    /\ IF remote
       THEN /\ localUri' = TRUE /\ copy' = 0
            /\ ops' = Append(ops, Begin("copy"))
            /\ ticking' = TRUE
            /\ queue' = Dequeued(loadJob)
            /\ UNCHANGED loading
       ELSE /\ localUri' = FALSE
            /\ loading' = TRUE
            /\ queue' = Append(Dequeued(loadJob), loadJob')
            /\ UNCHANGED <<copy, ops, ticking>>
    /\ UNCHANGED <<fileVars, reloadJob, workVars, shown, settingUp, mtime, area,
                   passwordVars>>

\* The document is opened once more, from another process too, or the user
\* asks for a reload.
Reload ==
    /\ uri \/ shown # NoJob
    /\ Due < MaxJobs
    /\ ReloadDocument
    /\ UNCHANGED <<fileVars, uri, workVars, viewVars, monitorVars, areaVars,
                   passwordVars>>

-----------------------------------------------------------------------------
(* The scheduler's worker *)

\* ev_job_load_run begins: a job that has a document loads it again, with the
\* password it has now.
StartJob ==
    /\ running = Idle /\ queue # <<>>
    /\ LET j == Head(queue) IN
        /\ running' = [job |-> j, password |-> jobs[j].password]
        /\ jobs' = IF jobs[j].opened
                   THEN [jobs EXCEPT ![j].finished = FALSE, ![j].error = None]
                   ELSE jobs
    /\ queue' = Tail(queue)
    /\ UNCHANGED <<fileVars, uri, loadJob, reloadJob, idles, viewVars, monitorVars,
                   copyVars, areaVars, passwordVars>>

\* What a job finds at its uri: 0 is what no backend can load.
Contents(j) ==
    IF jobs[j].source = "copy" THEN copy
    ELSE IF remote THEN 0 ELSE version

Outcome(j) ==
    IF jobs[j].source = None THEN None
    ELSE IF Contents(j) \in broken \cup {0} THEN "other"
    ELSE IF locked /\ running.password # Right THEN "encrypted"
    ELSE None

\* It ends; ev_job_succeeded and ev_job_failed_from_error say so once, and not
\* of a job that was cancelled.
FinishJob ==
    /\ running # Idle
    /\ LET j == running.job
           silent == jobs[j].cancelled \/ jobs[j].finished
       IN
        /\ jobs' = [jobs EXCEPT
              ![j].opened = @ \/ (jobs[j].source # None /\ Outcome(j) # "other"),
              ![j].version = IF Outcome(j) = None /\ jobs[j].source # None
                             THEN Contents(j) ELSE @,
              ![j].error = IF jobs[j].finished THEN @ ELSE Outcome(j),
              ![j].finished = @ \/ ~silent]
        /\ idles' = IF silent THEN idles ELSE Append(idles, j)
    /\ running' = Idle
    /\ UNCHANGED <<fileVars, uri, loadJob, reloadJob, queue, viewVars, monitorVars,
                   copyVars, areaVars, passwordVars>>

-----------------------------------------------------------------------------
(* FINISHED *)

Reported(j) == idles # <<>> /\ j = Head(idles) /\ idles' = Tail(idles)

\* emit_finished of a job that is cancelled, or that nobody listens to.
ReportToNobody(j) ==
    /\ Reported(j)
    /\ jobs[j].cancelled \/ ~jobs[j].heard
    /\ UNCHANGED <<fileVars, uri, jobVars, running, viewVars, monitorVars, copyVars,
                   areaVars, passwordVars>>

ReportTo(kind, j) ==
    /\ Reported(j)
    /\ jobs[j].kind = kind /\ jobs[j].heard /\ ~jobs[j].cancelled

ClearLoadJob ==
    /\ jobs' = Dropped(loadJob) /\ queue' = Dequeued(loadJob) /\ loadJob' = NoJob
    /\ UNCHANGED reloadJob

\* Mutant: the error is not asked for.
MutLoadSucceeded(j) ==
    /\ ReportTo("load", j)
    /\ loading' = FALSE
    /\ SetDocument(j)
    /\ keyring' = IF jobs[j].password # None /\ remember THEN jobs[j].password
                  ELSE keyring
    /\ monitor' \in (IF remote THEN {"deaf", "on"} ELSE {"on"})
    /\ events' = <<>> /\ timer' = FALSE
    /\ ClearLoadJob
    /\ UNCHANGED <<fileVars, uri, running, copyVars, ticking, page, dialogs, remember,
                   aborted>>

\* ev_window_load_job_cb of a job that has not failed.
LoadSucceeded(j) ==
    /\ ReportTo("load", j) /\ jobs[j].error = None
    /\ loading' = FALSE
    /\ SetDocument(j)
    /\ keyring' = IF jobs[j].password # None /\ remember THEN jobs[j].password
                  ELSE keyring
    /\ monitor' \in (IF remote THEN {"deaf", "on"} ELSE {"on"})
    /\ events' = <<>> /\ timer' = FALSE
    /\ ClearLoadJob
    /\ UNCHANGED <<fileVars, uri, running, copyVars, ticking, page, dialogs, remember,
                   aborted>>

\* Mutant: the password of the keyring is tried again and again.
MutLoadNeedsPassword(j) ==
    /\ ReportTo("load", j) /\ jobs[j].error = "encrypted"
    /\ loading' = FALSE
    /\ IF keyring # None
       THEN /\ jobs' = [jobs EXCEPT ![j].password = keyring]
            /\ queue' = Append(queue, j)
            /\ UNCHANGED <<page, dialogs>>
       ELSE /\ jobs' = [jobs EXCEPT ![j].password = None]
            /\ page' = "password"
            /\ dialogs' = dialogs + 1
            /\ UNCHANGED queue
    /\ UNCHANGED <<fileVars, uri, loadJob, reloadJob, running, shown, settingUp,
                   monitorVars, copyVars, areaVars, remember, keyring, aborted>>

\* It has failed for want of a password: the one of the keyring is tried if it
\* is not the one that was, or else the user is asked.
LoadNeedsPassword(j) ==
    /\ ReportTo("load", j) /\ jobs[j].error = "encrypted"
    /\ loading' = FALSE
    /\ IF keyring \notin {None, jobs[j].password}
       THEN /\ jobs' = [jobs EXCEPT ![j].password = keyring]
            /\ queue' = Append(queue, j)
            /\ UNCHANGED <<page, dialogs>>
       ELSE /\ jobs' = [jobs EXCEPT ![j].password = None]
            /\ page' = "password"
            /\ dialogs' = dialogs + 1
            /\ UNCHANGED queue
    /\ UNCHANGED <<fileVars, uri, loadJob, reloadJob, running, shown, settingUp,
                   monitorVars, copyVars, areaVars, remember, keyring, aborted>>

LoadFailed(j) ==
    /\ ReportTo("load", j) /\ jobs[j].error = "other"
    /\ loading' = FALSE
    /\ ErrorMessage
    /\ ClearLoadJob
    /\ UNCHANGED <<fileVars, uri, running, shown, settingUp, monitorVars, copyVars,
                   ticking, passwordVars>>

\* ev_window_reload_job_cb: what is cleared is the job of the window, not the
\* one that reports.
ReloadFinished(j) ==
    /\ ReportTo("reload", j)
    /\ IF jobs[j].error = None /\ jobs[j].opened
       THEN SetDocument(j)
       ELSE UNCHANGED <<shown, area, settingUp>>
    /\ jobs' = Dropped(reloadJob) /\ queue' = Dequeued(reloadJob)
    /\ reloadJob' = NoJob
    /\ UNCHANGED <<fileVars, uri, loadJob, running, loading, monitorVars, copyVars,
                   ticking, passwordVars>>

\* ev_window_setup_document, in an idle: the page of the document comes back.
SetupDocument ==
    /\ settingUp /\ settingUp' = FALSE
    /\ page' = "document"
    /\ UNCHANGED <<fileVars, uri, jobVars, workVars, shown, loading, monitorVars,
                   copyVars, areaVars, dialogs, remember, keyring, aborted>>

-----------------------------------------------------------------------------
(* The password view *)

\* ev_password_view_clicked_cb: the button can be pressed when no modal dialog
\* is open.
ClickUnlock ==
    /\ page = "password" /\ dialogs = 0
    /\ dialogs' = 1
    /\ UNCHANGED <<fileVars, uri, jobVars, workVars, viewVars, monitorVars, copyVars,
                   areaVars, page, remember, keyring, aborted>>

\* ev_password_dialog_got_response, and ev_window_password_view_unlock, which
\* asserts that there is a load job and pushes it.
Unlock(password, save) ==
    /\ dialogs > 0 /\ Busy < MaxBusy
    /\ dialogs' = dialogs - 1
    /\ remember' = save
    /\ IF loadJob = NoJob
       THEN aborted' = TRUE /\ UNCHANGED <<jobs, queue>>
       ELSE /\ jobs' = [jobs EXCEPT ![loadJob].password = password]
            /\ queue' = Append(queue, loadJob)
            /\ UNCHANGED aborted
    /\ UNCHANGED <<fileVars, uri, loadJob, reloadJob, workVars, viewVars, monitorVars,
                   copyVars, areaVars, page, keyring>>

CancelDialog ==
    /\ dialogs > 0
    /\ dialogs' = dialogs - 1
    /\ UNCHANGED <<fileVars, uri, jobVars, workVars, viewVars, monitorVars, copyVars,
                   areaVars, page, remember, keyring, aborted>>

-----------------------------------------------------------------------------
(* The file and its monitor *)

\* Somebody writes the file.  Not every monitor says when a write is done.
WriteFile(bad, news) ==
    /\ version < MaxVersion
    /\ Due + Len(news) <= MaxJobs
    /\ version' = version + 1
    /\ broken' = IF bad THEN broken \cup {version + 1} ELSE broken
    /\ events' = IF monitor = "on" THEN events \o news ELSE events
    /\ UNCHANGED <<remote, locked, uri, jobVars, workVars, viewVars, monitor, timer,
                   copyVars, areaVars, passwordVars>>

\* ev_file_monitor_changed_cb, and ev_window_document_changed on CHANGED.
Changed ==
    /\ events # <<>> /\ Head(events) = "changed"
    /\ events' = Tail(events)
    /\ timer' = TRUE
    /\ UNCHANGED <<fileVars, uri, jobVars, workVars, viewVars, monitor, copyVars,
                   areaVars, passwordVars>>

ChangesDone ==
    /\ events # <<>> /\ Head(events) = "done"
    /\ events' = Tail(events)
    /\ timer' = FALSE
    /\ ReloadDocument
    /\ UNCHANGED <<fileVars, uri, workVars, viewVars, monitor, areaVars, passwordVars>>

TimeoutCb ==
    /\ timer /\ timer' = FALSE
    /\ ReloadDocument
    /\ UNCHANGED <<fileVars, uri, workVars, viewVars, monitor, events, areaVars,
                   passwordVars>>

-----------------------------------------------------------------------------
(* The remote file *)

\* Operation k ends, the operations of more begin.
Ends(k, kind, more) ==
    /\ k \in DOMAIN ops /\ ops[k].kind = kind
    /\ ops' = RemoveAt(ops, k) \o more

\* What a copy that ends now may have copied: a version there was meanwhile.
Copied(k) == copy' \in ops[k].from .. version

\* ev_window_load_remote_failed.
RemoteFailed ==
    /\ loading' = FALSE
    /\ localUri' = FALSE /\ mtime' = 0

\* window_open_file_copy_ready_cb: the copy is there and is loaded.
CopyReady(k) ==
    /\ Ends(k, "copy", <<Begin("mtime")>>)
    /\ Copied(k)
    /\ ticking' = FALSE /\ area' = None
    /\ queue' = Append(queue, loadJob)
    /\ UNCHANGED <<fileVars, uri, jobs, loadJob, reloadJob, workVars, viewVars,
                   monitorVars, localUri, mtime, passwordVars>>

\* The volume is not mounted, and is mounted now.
CopyNeedsMount(k) ==
    /\ Ends(k, "copy", <<Begin("mount")>>)
    /\ ticking' = FALSE /\ area' = None
    /\ UNCHANGED <<fileVars, uri, jobVars, workVars, viewVars, monitorVars, localUri,
                   copy, mtime, passwordVars>>

\* The user has cancelled it: the window gives its file up.
CopyCancelled(k) ==
    /\ Ends(k, "copy", <<>>) /\ ops[k].stopped
    /\ ticking' = FALSE /\ area' = None
    /\ ClearLoadJob
    /\ localUri' = FALSE /\ copy' = 0
    /\ uri' = FALSE
    /\ loading' = FALSE
    /\ UNCHANGED <<fileVars, workVars, shown, settingUp, monitorVars, mtime,
                   passwordVars>>

CopyFailed(k) ==
    /\ Ends(k, "copy", <<>>)
    /\ ticking' = FALSE /\ area' = "message"
    /\ RemoteFailed
    /\ UNCHANGED <<fileVars, uri, jobVars, workVars, shown, settingUp, monitorVars,
                   copy, passwordVars>>

\* mount_volume_ready_cb: the file is copied again, into the same local file.
Mounted(k) ==
    /\ Ends(k, "mount", <<Begin("copy")>>)
    /\ ticking' = TRUE
    /\ UNCHANGED <<fileVars, uri, jobVars, workVars, viewVars, monitorVars, localUri,
                   copy, mtime, area, passwordVars>>

MountFailed(k) ==
    /\ Ends(k, "mount", <<>>)
    /\ RemoteFailed /\ ErrorMessage
    /\ UNCHANGED <<fileVars, uri, jobVars, workVars, shown, settingUp, monitorVars,
                   copy, ticking, passwordVars>>

\* set_uri_mtime: the date the file has by now, or none.
SetUriMtime(k) ==
    /\ Ends(k, "mtime", <<>>)
    /\ mtime' \in {0} \cup (ops[k].from .. version)
    /\ UNCHANGED <<fileVars, uri, jobVars, workVars, viewVars, monitorVars, localUri,
                   copy, areaVars, passwordVars>>

\* query_remote_uri_mtime_cb: no date, or the one it had.
QuerySaysOld(k, date) ==
    /\ Ends(k, "query", <<>>)
    /\ date \in {0} \cup (ops[k].from .. version) /\ date \in {0, mtime}
    /\ ReloadLocal(jobs, queue)
    /\ UNCHANGED <<fileVars, uri, loadJob, workVars, viewVars, monitorVars, localUri,
                   copy, mtime, areaVars, passwordVars>>

\* Another date: it is stored, and the file is copied, unless there is no local
\* file to copy to any more.
QuerySaysNew(k, date) ==
    /\ Ends(k, "query", IF localUri THEN <<Begin("recopy")>> ELSE <<>>)
    /\ date \in (ops[k].from .. version) \ {mtime}
    /\ mtime' = date
    /\ ticking' = TRUE
    /\ UNCHANGED <<fileVars, uri, jobVars, workVars, viewVars, monitorVars, localUri,
                   copy, area, passwordVars>>

\* reload_remote_copy_ready_cb.
RecopyReady(k) ==
    /\ Ends(k, "recopy", <<>>)
    /\ Copied(k)
    /\ ticking' = FALSE
    /\ ReloadLocal(jobs, queue)
    /\ UNCHANGED <<fileVars, uri, loadJob, workVars, viewVars, monitorVars, localUri,
                   mtime, area, passwordVars>>

RecopyFailed(k) ==
    /\ Ends(k, "recopy", <<>>)
    /\ ticking' = FALSE
    /\ \/ ops[k].stopped /\ area' = area
       \/ ErrorMessage
    /\ UNCHANGED <<fileVars, uri, jobVars, workVars, viewVars, monitorVars, localUri,
                   copy, mtime, passwordVars>>

\* show_loading_progress and show_reloading_progress.
ShowProgress ==
    /\ ticking /\ ticking' = FALSE
    /\ area' = IF area = None THEN "progress" ELSE area
    /\ UNCHANGED <<fileVars, uri, jobVars, workVars, viewVars, monitorVars, copyVars,
                   passwordVars>>

\* ev_window_progress_response_cb: one cancellable for all copies.
CancelCopies ==
    /\ area = "progress" /\ area' = None
    /\ ops' = [k \in DOMAIN ops |->
                 [ops[k] EXCEPT !.stopped = @ \/ ops[k].kind \in {"copy", "recopy"}]]
    /\ UNCHANGED <<fileVars, uri, jobVars, workVars, viewVars, monitorVars, localUri,
                   copy, mtime, ticking, passwordVars>>

CloseArea ==
    /\ area # None /\ area' = None
    /\ UNCHANGED <<fileVars, uri, jobVars, workVars, viewVars, monitorVars, copyVars,
                   ticking, passwordVars>>

-----------------------------------------------------------------------------
User ==
    \/ OpenUri \/ Reload
    \/ ClickUnlock \/ CancelDialog
    \/ \E password \in Passwords, save \in BOOLEAN : Unlock(password, save)
    \/ CancelCopies \/ CloseArea

Report(j) ==
    \/ ReportToNobody(j)
    \/ LoadSucceeded(j) \/ LoadNeedsPassword(j) \/ LoadFailed(j)
    \/ ReloadFinished(j)

MainLoop ==
    \/ \E j \in JobId : Report(j)
    \/ SetupDocument
    \/ Changed \/ ChangesDone \/ TimeoutCb
    \/ ShowProgress

Remote ==
    \E k \in DOMAIN ops :
        \/ CopyReady(k) \/ CopyNeedsMount(k) \/ CopyCancelled(k) \/ CopyFailed(k)
        \/ Mounted(k) \/ MountFailed(k) \/ SetUriMtime(k)
        \/ \E date \in 0 .. version : QuerySaysOld(k, date) \/ QuerySaysNew(k, date)
        \/ RecopyReady(k) \/ RecopyFailed(k)

Next ==
    /\ ~aborted
    /\ \/ User
       \/ MainLoop
       \/ StartJob \/ FinishJob
       \/ Remote
       \/ \E bad \in BOOLEAN, news \in {<<"changed">>, <<"changed", "done">>} :
            WriteFile(bad, news)

Spec == Init /\ [][Next]_vars

-----------------------------------------------------------------------------
(* Fairness: the main loop dispatches what is ready, the worker runs what is *)
(* queued, and an operation on a remote file ends.  Users, and whoever       *)
(* writes the file, need do nothing.                                         *)

FairSpec ==
    /\ Spec
    /\ WF_vars(~aborted /\ \E j \in JobId : Report(j))
    /\ WF_vars(~aborted /\ SetupDocument)
    /\ WF_vars(~aborted /\ (Changed \/ ChangesDone \/ TimeoutCb))
    /\ WF_vars(~aborted /\ (StartJob \/ FinishJob))
    /\ WF_vars(~aborted /\ Remote)

-----------------------------------------------------------------------------
(* Properties *)

VersionShown == IF shown = NoJob THEN 0 ELSE jobs[shown].version

\* The window of a native file listens to no job but those it holds, however
\* loads, reloads and passwords overlap: what it dropped cannot put a document
\* into it (ev_window_clear_load_job, ev_window_clear_reload_job).  For a remote
\* file two reloads that overlap leave one that nobody holds.
OnlyHeldJobsAreHeard ==
    ~remote => \A j \in JobId : jobs[j].heard => j \in {loadJob, reloadJob}

\* The jobs, the queue and the dialogs are well formed and hear of each other
\* through the window alone.
JobsAreInHand == TypeOK /\ OnlyHeldJobsAreHeard

\* While a remote file is copied for the first time, or its volume is mounted,
\* there is the load job that waits for it, which nobody else has pushed, and the
\* local file: window_open_file_copy_ready_cb pushes priv->load_job and
\* ev_window_load_file_remote copies to priv->local_uri whatever was done
\* meanwhile, and neither looks.
IsUnderWay(j) == j \in ToSet(queue) \cup ToSet(idles) \cup {running.job}

TheLoadWaitsForItsCopy ==
    \A k \in DOMAIN ops : ops[k].kind \in {"copy", "mount"} =>
        /\ loadJob # NoJob /\ ~IsUnderWay(loadJob)
        /\ localUri
        /\ \A l \in DOMAIN ops \ {k} : ops[l].kind \notin {"copy", "mount"}

\* A document that could not be read, for want of a password, gets into the
\* window only while the worker runs its job again, pushed by a second unlock
\* before the first was answered: the run has reset the error of the first
\* (ev_job_load_run, ev_window_load_job_cb).
UnreadIsShownOnlyByASecondUnlock ==
    [][shown' # shown /\ VersionShown' = 0 => running.job = shown']_vars

\* A write the monitor has heard of gets shown, whatever was under way then and
\* whichever reloads it cancels, unless the file cannot be loaded
\* (ev_file_monitor_changed_cb to ev_window_reload_job_cb).  The file is native
\* and needs no password.
CanFollow == ~remote /\ ~locked /\ version \notin broken

HeardWritesAreShown ==
    CanFollow /\ (events # <<>> \/ timer) ~> VersionShown = version \/ ~CanFollow

\* A load of a native file comes to an end the user can see: its document, an
\* error or a question for the password (ev_window_load_job_cb).
LoadsAreAnswered ==
    ~remote /\ loadJob # NoJob ~> loadJob = NoJob \/ page = "password" \/ aborted

\* What ev_window_password_view_unlock asserts: there is a load job to unlock.
UnlockHasALoadJob == ~aborted

=============================================================================
