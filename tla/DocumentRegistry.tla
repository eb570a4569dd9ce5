-------------------------- MODULE DocumentRegistry --------------------------
(***************************************************************************)
(* The daemon that knows which process has a document open (ev-daemon.c)   *)
(* and the processes that ask it (ev-application.c).  Each runs its own    *)
(* main loop; they talk over the session bus.                              *)
(*                                                                         *)
(* The bus keeps what is sent in the order in which it was sent: inbox is  *)
(* what the daemon has still to handle, mail[p] what process p has.  A     *)
(* call to a process that has gone is answered with an error.  The daemon  *)
(* is started by the bus when it is called, and leaves when it has been    *)
(* idle, whatever is on its way to it then is answered with an error.      *)
(* What is addressed to the name of a process never reaches another one:   *)
(* names are not used twice.                                               *)
(*                                                                         *)
(* A process has one document.  Its windows are taken together: none, or   *)
(* some in which the document is loading, or has been or could not be.     *)
(* Other programs ask the daemon for the owner of a document               *)
(* (FindDocument); the daemon may start a process for it.                  *)
(***************************************************************************)
EXTENDS Integers, Sequences, FiniteSets, SequencesExt

CONSTANTS
    Viewers,    \* the processes that can be started, by their bus names
    Uris,       \* the documents
    Callers,    \* other programs
    MaxCalls,   \* bound: RegisterDocument calls of one process under way
    MaxQueued,  \* bound: nobody calls a daemon that has so much to handle
    None        \* the empty string, the null pointer

ASSUME RegistryAssumption ==
    /\ None \notin Viewers
    /\ None \notin Uris
    /\ Viewers \cap Callers = {}
    /\ IsFiniteSet(Viewers) /\ IsFiniteSet(Uris)
    /\ MaxCalls \in Nat
    /\ MaxQueued \in Nat

VARIABLES
    running,    \* whether the daemon runs
    docs,       \* its records: bus name and document
    subs,       \* the names whose DocumentLoaded it listens to
    holds,      \* its use count
    pending,    \* document -> the callers that wait for a process to load it
    inbox,      \* what has been sent to the daemon
    mail,       \* process -> what has been sent to it
    status,     \* process -> "off", "running", "closing" or "gone"
    uri,        \* process -> application->uri
    registered, \* process -> application->doc_registered
    windows,    \* process -> "none", "loading" or "open"
    calls,      \* process -> its RegisterDocument and Reload calls under way
    waiting     \* the callers whose FindDocument is under way

daemonVars == <<running, docs, subs, holds, pending>>
viewerVars == <<status, uri, registered, windows, calls>>
vars == <<running, docs, subs, holds, pending, inbox, mail, status, uri,
          registered, windows, calls, waiting>>

Doc == [name : Viewers, uri : Uris]

Request ==
    [type : {"Register", "Unregister", "Loaded", "Vanished"},
     from : Viewers, uri : Uris]
        \cup [type : {"Find", "FindOrSpawn"}, from : Callers, uri : Uris]

Letter ==
    [type : {"Owner"}, from : Viewers \cup {None}]
        \cup [type : {"RegisterFailed", "Reloaded", "Unregistered"}, from : {None}]
        \cup [type : {"Reload"}, from : Viewers]

TypeOK ==
    /\ running \in BOOLEAN
    /\ docs \subseteq Doc
    /\ subs \subseteq Viewers
    /\ holds \in Nat
    /\ pending \in [Uris -> SUBSET Callers]
    /\ inbox \in Seq(Request)
    /\ mail \in [Viewers -> Seq(Letter)]
    /\ status \in [Viewers -> {"off", "running", "closing", "gone"}]
    /\ uri \in [Viewers -> Uris \cup {None}]
    /\ registered \in [Viewers -> BOOLEAN]
    /\ windows \in [Viewers -> {"none", "loading", "open"}]
    /\ calls \in [Viewers -> Int]
    /\ waiting \subseteq Callers

Init ==
    /\ running = FALSE
    /\ docs = {}
    /\ subs = {}
    /\ holds = 0
    /\ pending = [u \in Uris |-> {}]
    /\ inbox = <<>>
    /\ mail = [p \in Viewers |-> <<>>]
    /\ status = [p \in Viewers |-> "off"]
    /\ uri = [p \in Viewers |-> None]
    /\ registered = [p \in Viewers |-> FALSE]
    /\ windows = [p \in Viewers |-> "none"]
    /\ calls = [p \in Viewers |-> 0]
    /\ waiting = {}

-----------------------------------------------------------------------------
(* The bus *)

Message(type, from, u) == [type |-> type, from |-> from, uri |-> u]

Post(type, from) == [type |-> type, from |-> from]

OnTheBus(p) == status[p] \in {"running", "closing"}

\* A message for a process that has gone is dropped.
Delivered(boxes, p, letter) ==
    IF OnTheBus(p) THEN [boxes EXCEPT ![p] = Append(@, letter)] ELSE boxes

\* What the process q is told of the calls to p it is waiting for when p goes.
CallsTo(p, q) ==
    Cardinality({k \in DOMAIN mail[p] : mail[p][k] = Post("Reload", q)})

\* Process p leaves the bus: the calls in its mail fail, who watches its name
\* is told.
LeaveBus(p) ==
    /\ status' = [status EXCEPT ![p] = "gone"]
    /\ mail' = [q \in Viewers |->
                  IF q = p THEN <<>>
                  ELSE mail[q] \o [k \in 1 .. CallsTo(p, q) |-> Post("Reloaded", None)]]
    /\ inbox' = IF \E d \in docs : d.name = p
                THEN Append(inbox, Message("Vanished", p, uri[p]))
                ELSE inbox
    /\ windows' = [windows EXCEPT ![p] = "none"]

-----------------------------------------------------------------------------
(* The daemon *)

\* ev_daemon_application_find_doc.
Registered(u) == \E d \in docs : d.uri = u

OwnerOf(u) == (CHOOSE d \in docs : d.uri = u).name

NextRequest(type) == running /\ inbox # <<>> /\ Head(inbox).type = type

\* ev_doc_free, and the end of the hold that was taken for the record.
Forget(d) ==
    /\ docs' = docs \ {d}
    /\ holds' = holds - 1

AnswerOwner(p, u) ==
    /\ Registered(u)
    /\ mail' = Delivered(mail, p, Post("Owner", OwnerOf(u)))
    /\ inbox' = Tail(inbox)
    /\ UNCHANGED <<docs, subs, holds>>

\* Mutant: no hold is taken.
MutRecord(p, u) ==
    /\ docs' = docs \cup {[name |-> p, uri |-> u]}
    /\ subs' = subs \cup {p}
    /\ UNCHANGED holds

Record(p, u) ==
    /\ docs' = docs \cup {[name |-> p, uri |-> u]}
    /\ subs' = subs \cup {p}
    /\ holds' = holds + 1

\* Mutant: the watch only tells of names that have had an owner.
MutWatched(p, u) == Tail(inbox)

\* The watch of a name that has no owner any more reports it as vanished.
Watched(p, u) ==
    IF OnTheBus(p) THEN Tail(inbox)
    ELSE Append(Tail(inbox), Message("Vanished", p, u))

HandleRegisterDocument ==
    /\ NextRequest("Register")
    /\ LET p == Head(inbox).from
           u == Head(inbox).uri
       IN \/ AnswerOwner(p, u)
          \/ /\ ~ Registered(u)
             /\ Record(p, u)
             /\ mail' = Delivered(mail, p, Post("Owner", None))
             /\ inbox' = Watched(p, u)
    /\ UNCHANGED <<running, pending, viewerVars, waiting>>

HandleUnregisterDocument ==
    /\ NextRequest("Unregister")
    /\ LET p == Head(inbox).from
           d == [name |-> p, uri |-> Head(inbox).uri]
       IN /\ IF d \in docs
             THEN Forget(d) /\ subs' = subs \ {p}
             ELSE UNCHANGED <<docs, holds, subs>>   \* an error is the answer
          /\ mail' = Delivered(mail, p, Post("Unregistered", None))
    /\ inbox' = Tail(inbox)
    /\ UNCHANGED <<running, pending, viewerVars, waiting>>

\* A process for document u is started.
Started(p, u) ==
    /\ status[p] = "off"
    /\ status' = [status EXCEPT ![p] = "running"]
    /\ uri' = [uri EXCEPT ![p] = u]
    /\ calls' = [calls EXCEPT ![p] = 1]
    /\ UNCHANGED <<registered, windows>>

HandleFindDocument ==
    /\ running
    /\ inbox # <<>>
    /\ Head(inbox).type \in {"Find", "FindOrSpawn"}
    /\ LET c == Head(inbox).from
           u == Head(inbox).uri
           defer == ~ Registered(u) /\ Head(inbox).type = "FindOrSpawn"
       IN \/ /\ defer
             /\ pending[u] # {}
             /\ pending' = [pending EXCEPT ![u] = @ \cup {c}]
             /\ inbox' = Tail(inbox)
             /\ UNCHANGED <<waiting, viewerVars>>
          \/ /\ defer
             /\ pending[u] = {}
             /\ \E p \in Viewers : Started(p, u) /\
                  inbox' = Append(Tail(inbox), Message("Register", p, u))
             /\ pending' = [pending EXCEPT ![u] = {c}]
             /\ UNCHANGED waiting
          \* It is answered: with the owner, or with "" when there is none and
          \* none is to be started or none could be.
          \/ /\ defer => pending[u] = {}
             /\ waiting' = waiting \ {c}
             /\ inbox' = Tail(inbox)
             /\ UNCHANGED <<pending, viewerVars>>
    /\ UNCHANGED <<running, docs, subs, holds, mail>>

\* Mutant: one caller is answered, the others stay.
MutHandleDocumentLoaded ==
    /\ NextRequest("Loaded")
    /\ LET p == Head(inbox).from
           u == Head(inbox).uri
       IN IF p \in subs /\ pending[u] # {}
          THEN LET c == CHOOSE c \in pending[u] : TRUE IN
               /\ waiting' = waiting \ {c}
               /\ pending' = [pending EXCEPT ![u] = @ \ {c}]
               /\ subs' = subs \ {p}
          ELSE /\ subs' = subs \ {p}
               /\ UNCHANGED <<waiting, pending>>
    /\ inbox' = Tail(inbox)
    /\ UNCHANGED <<running, docs, holds, mail, viewerVars>>

\* document_loaded_cb; process_pending_invocations answers who waits.
HandleDocumentLoaded ==
    /\ NextRequest("Loaded")
    /\ LET p == Head(inbox).from
           u == Head(inbox).uri
       IN IF p \in subs
          THEN /\ waiting' = waiting \ pending[u]
               /\ pending' = [pending EXCEPT ![u] = {}]
               /\ subs' = subs \ {p}
          ELSE UNCHANGED <<waiting, pending, subs>>
    /\ inbox' = Tail(inbox)
    /\ UNCHANGED <<running, docs, holds, mail, viewerVars>>

\* Mutant: the record is looked for by its document.
MutHandleNameVanished2 ==
    /\ NextRequest("Vanished")
    /\ \/ \E d \in docs : d.uri = Head(inbox).uri /\ Forget(d)
       \/ /\ \A d \in docs : d.uri # Head(inbox).uri
          /\ UNCHANGED <<docs, holds>>
    /\ inbox' = Tail(inbox)
    /\ UNCHANGED <<running, subs, pending, mail, viewerVars, waiting>>

\* name_vanished_cb: one record of the name goes.
HandleNameVanished ==
    /\ NextRequest("Vanished")
    /\ \/ \E d \in docs : d.name = Head(inbox).from /\ Forget(d)
       \/ /\ \A d \in docs : d.name # Head(inbox).from
          /\ UNCHANGED <<docs, holds>>
    /\ inbox' = Tail(inbox)
    /\ UNCHANGED <<running, subs, pending, mail, viewerVars, waiting>>

\* Calls wake it up, signals do not; there are none when it does not run.
StartDaemon ==
    /\ ~ running
    /\ inbox # <<>>
    /\ running' = TRUE
    /\ UNCHANGED <<docs, subs, holds, pending, inbox, mail, viewerVars, waiting>>

\* What p is told when the daemon leaves before it has handled p's calls.
Lost(p, type, answer) ==
    LET n == Cardinality({k \in DOMAIN inbox :
                            inbox[k].type = type /\ inbox[k].from = p})
    IN [k \in 1 .. n |-> Post(answer, None)]

\* The inactivity timeout, after DAEMON_TIMEOUT seconds without a hold.
ExitWhenIdle ==
    /\ running
    /\ holds = 0
    /\ running' = FALSE
    /\ docs' = {}
    /\ subs' = {}
    /\ pending' = [u \in Uris |-> {}]
    /\ waiting' = {}
    /\ mail' = [p \in Viewers |->
                  IF OnTheBus(p)
                  THEN mail[p] \o Lost(p, "Register", "RegisterFailed")
                               \o Lost(p, "Unregister", "Unregistered")
                  ELSE mail[p]]
    /\ inbox' = <<>>
    /\ UNCHANGED <<holds, viewerVars>>

-----------------------------------------------------------------------------
(* The processes *)

\* ev_application_open_uri_at_dest of another document, or from the shell:
\* a new process (ev_spawn), which registers its document.
Launch(p, u) ==
    /\ Started(p, u)
    /\ inbox' = Append(inbox, Message("Register", p, u))
    /\ UNCHANGED <<daemonVars, mail, waiting>>

\* The document is opened once more in its own process.  When it is registered
\* the windows there are are reloaded.
OpenAgain(p) ==
    /\ status[p] = "running"
    /\ ~ registered[p]
    /\ calls[p] < MaxCalls
    /\ Len(inbox) < MaxQueued
    /\ inbox' = Append(inbox, Message("Register", p, uri[p]))
    /\ calls' = [calls EXCEPT ![p] = @ + 1]
    /\ UNCHANGED <<daemonVars, mail, status, uri, registered, windows, waiting>>

NextLetter(p, type) ==
    /\ status[p] = "running"
    /\ mail[p] # <<>>
    /\ Head(mail[p]).type = type

\* _ev_application_open_uri_at_dest: in an empty window or a new one.
OpenWindow(p) == windows' = [windows EXCEPT ![p] = "loading"]

\* on_register_uri_cb, with an error: the document is opened all the same.
OnRegisterFailed(p) ==
    /\ NextLetter(p, "RegisterFailed")
    /\ OpenWindow(p)
    /\ calls' = [calls EXCEPT ![p] = @ - 1]
    /\ mail' = [mail EXCEPT ![p] = Tail(@)]
    /\ UNCHANGED <<daemonVars, inbox, status, uri, registered, waiting>>

\* on_register_uri_cb, with an owner or with "".
OnRegisterUri(p) ==
    /\ NextLetter(p, "Owner")
    /\ LET owner == Head(mail[p]).from
           boxes == [mail EXCEPT ![p] = Tail(@)]
       IN \/ /\ owner = None
             /\ registered' = [registered EXCEPT ![p] = TRUE]
             /\ OpenWindow(p)
             /\ calls' = [calls EXCEPT ![p] = @ - 1]
             /\ mail' = boxes
          \/ /\ owner # None
             /\ mail' = IF OnTheBus(owner)
                        THEN Delivered(boxes, owner, Post("Reload", p))
                        ELSE Delivered(boxes, p, Post("Reloaded", None))
             /\ UNCHANGED <<registered, windows, calls>>
    /\ UNCHANGED <<daemonVars, inbox, status, uri, waiting>>

\* Mutant: the invocation is not completed.
MutHandleReload(p) ==
    /\ NextLetter(p, "Reload")
    /\ mail' = [mail EXCEPT ![p] = Tail(@)]
    /\ UNCHANGED <<daemonVars, inbox, viewerVars, waiting>>

\* handle_reload_cb: the windows there are are reloaded, none is opened.
HandleReload(p) ==
    /\ NextLetter(p, "Reload")
    /\ mail' = Delivered([mail EXCEPT ![p] = Tail(@)],
                         Head(mail[p]).from, Post("Reloaded", None))
    /\ UNCHANGED <<daemonVars, inbox, viewerVars, waiting>>

OnReload(p) ==
    /\ NextLetter(p, "Reloaded")
    /\ calls' = [calls EXCEPT ![p] = @ - 1]
    /\ mail' = [mail EXCEPT ![p] = Tail(@)]
    /\ UNCHANGED <<daemonVars, inbox, status, uri, registered, windows, waiting>>

\* ev_window_load_job_cb, with the signal DocumentLoaded, which only reaches
\* a daemon that has subscribed to it.
LoadSucceeds(p) ==
    /\ status[p] = "running"
    /\ windows[p] = "loading"
    /\ windows' = [windows EXCEPT ![p] = "open"]
    /\ inbox' = IF p \in subs THEN Append(inbox, Message("Loaded", p, uri[p]))
                ELSE inbox
    /\ UNCHANGED <<daemonVars, mail, status, uri, registered, calls, waiting>>

LoadFails(p) ==
    /\ status[p] = "running"
    /\ windows[p] = "loading"
    /\ windows' = [windows EXCEPT ![p] = "open"]
    /\ UNCHANGED <<daemonVars, inbox, mail, status, uri, registered, calls, waiting>>

CloseWindow(p) ==
    /\ status[p] = "running"
    /\ windows[p] # "none"
    /\ windows' = [windows EXCEPT ![p] = "none"]
    /\ UNCHANGED <<daemonVars, inbox, mail, status, uri, registered, calls, waiting>>

\* A process without windows ends, unless a call holds it: ev_application_shutdown.
\* UnregisterDocument is a synchronous call that does not start a daemon.
Shutdown(p) ==
    /\ status[p] = "running"
    /\ windows[p] = "none"
    /\ calls[p] = 0
    /\ \/ /\ registered[p]
          /\ running
          /\ status' = [status EXCEPT ![p] = "closing"]
          /\ inbox' = Append(inbox, Message("Unregister", p, uri[p]))
          /\ UNCHANGED <<mail, windows>>
       \/ /\ ~ registered[p] \/ ~ running
          /\ LeaveBus(p)
    /\ UNCHANGED <<daemonVars, uri, registered, calls, waiting>>

\* The answer to UnregisterDocument is all it waits for.
EndShutdown(p) ==
    /\ status[p] = "closing"
    /\ \E k \in DOMAIN mail[p] : mail[p][k].type = "Unregistered"
    /\ LeaveBus(p)
    /\ UNCHANGED <<daemonVars, uri, registered, calls, waiting>>

Crash(p) ==
    /\ OnTheBus(p)
    /\ LeaveBus(p)
    /\ UNCHANGED <<daemonVars, uri, registered, calls, waiting>>

FindDocument(c, u, spawn) ==
    /\ c \notin waiting
    /\ Len(inbox) < MaxQueued
    /\ waiting' = waiting \cup {c}
    /\ inbox' = Append(inbox, Message(IF spawn THEN "FindOrSpawn" ELSE "Find", c, u))
    /\ UNCHANGED <<daemonVars, mail, viewerVars>>

-----------------------------------------------------------------------------
Daemon ==
    \/ HandleRegisterDocument
    \/ HandleUnregisterDocument
    \/ HandleFindDocument
    \/ HandleDocumentLoaded
    \/ HandleNameVanished

\* What a process does with its mail.
Answer(p) ==
    \/ OnRegisterFailed(p)
    \/ OnRegisterUri(p)
    \/ HandleReload(p)
    \/ OnReload(p)

Viewer(p) ==
    \/ OpenAgain(p)
    \/ Answer(p)
    \/ LoadSucceeds(p)
    \/ LoadFails(p)
    \/ CloseWindow(p)
    \/ Shutdown(p)
    \/ EndShutdown(p)
    \/ Crash(p)

Next ==
    \/ Daemon
    \/ StartDaemon
    \/ ExitWhenIdle
    \/ \E p \in Viewers, u \in Uris : Launch(p, u)
    \/ \E p \in Viewers : Viewer(p)
    \/ \E c \in Callers, u \in Uris, spawn \in BOOLEAN : FindDocument(c, u, spawn)

Spec == Init /\ [][Next]_vars

\* The main loops run and the bus starts the daemon.  Nobody has to close a
\* window, and a load may take as long as it likes.
Fairness ==
    /\ WF_vars(Daemon)
    /\ WF_vars(StartDaemon)
    /\ \A p \in Viewers : WF_vars(Answer(p)) /\ WF_vars(EndShutdown(p))

FairSpec == Spec /\ Fairness

-----------------------------------------------------------------------------
(* Properties *)

\* A process that runs and believes that its document is registered in its
\* name is right, unless it has just asked for the contrary; so two processes
\* never both believe it of one document, whatever the daemon went through:
\* an exit between two calls, a death, two registrations under way at once.
OwnersAreRight ==
    \A p \in Viewers :
        status[p] = "running" /\ registered[p] =>
            running /\ [name |-> p, uri |-> uri[p]] \in docs

\* A document whose owner has reported it as loaded has nobody waiting for it:
\* they were all answered by that report, and nobody can have joined since
\* (process_pending_invocations against handle_find_document_cb).
NobodyWaitsForALoadedDocument ==
    \A d \in docs : d.name \notin subs => pending[d.uri] = {}

\* document_loaded_cb uses the record it looks for without asking whether it
\* found one: it always finds it, and it is that of the sender.
LoadedFindsItsRecord ==
    running /\ inbox # <<>> /\ Head(inbox).type = "Loaded" /\ Head(inbox).from \in subs
        => [name |-> Head(inbox).from, uri |-> Head(inbox).uri] \in docs

\* The holds are those of the records: the daemon does not leave while a
\* document is registered, and nothing else keeps it.
HoldsAreRecords == holds = Cardinality(docs)

\* The records, the holds on the daemon and what the processes believe agree,
\* whatever is still on its way between them.
RecordsAreRight ==
    TypeOK /\ OwnersAreRight /\ LoadedFindsItsRecord /\ HoldsAreRecords

\* The owners that a set of records names.
OwnersIn(D) ==
    [u \in Uris |-> IF \E d \in D : d.uri = u THEN (CHOOSE d \in D : d.uri = u).name
                   ELSE None]

Leaving == {p \in Viewers : status[p] \in {"closing", "gone"}}

Ownership == INSTANCE DocumentOwnership WITH owner <- OwnersIn(docs), leaving <- Leaving

\* The registry is one of owners: it never hands a document over or takes it
\* from a process that stays.
ImplementsOwnership == Ownership!Spec

\* No document stays with a process that has gone (name_vanished_cb, also when
\* the process had gone before its registration was handled).
TheGoneAreForgotten ==
    \A p \in Viewers :
        status[p] = "gone" ~> \A d \in docs : d.name # p

\* Every call of a process to the daemon or to an owner is answered while the
\* process lives, even when the daemon leaves or the owner dies before it has
\* answered: one that has all the calls under way it may have gets one back.
CallsAreAnswered ==
    \A p \in Viewers :
        calls[p] = MaxCalls ~> (calls[p] < MaxCalls \/ status[p] = "gone")

=============================================================================
