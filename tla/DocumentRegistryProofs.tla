----------------------- MODULE DocumentRegistryProofs -----------------------
(***************************************************************************)
(* Machine-checked proofs about DocumentRegistry, for any number of        *)
(* processes, documents and callers: the types, that a process is right    *)
(* when it believes that its document is registered, that nobody waits for *)
(* a document that is loaded, and that the registry is one of owners.      *)
(***************************************************************************)
EXTENDS DocumentRegistry, FiniteSetTheorems, TLAPS

HasRecord(p) == [name |-> p, uri |-> uri[p]] \in docs

\* The records, and the holds that go with them.
Records ==
    /\ IsFiniteSet(docs)
    /\ HoldsAreRecords
    /\ docs # {} => running
    /\ \A d \in docs : status[d.name] # "off" /\ d.uri = uri[d.name]
    /\ \A d, e \in docs : d.uri = e.uri => d = e

\* A message that is on its way tells the truth, also when it arrives: what it
\* says of its sender cannot change back.
GoodRequest(m) ==
    m.from \in Viewers =>
        /\ status[m.from] # "off"
        /\ m.uri = uri[m.from]
        /\ m.type = "Unregister" => status[m.from] \in {"closing", "gone"}
        /\ m.type = "Vanished" => status[m.from] = "gone"
        /\ m.type = "Loaded" /\ m.from \in subs => HasRecord(m.from)

Requests == \A k \in DOMAIN inbox : GoodRequest(inbox[k])

\* The last thing that is heard of a process is that it has vanished.
Ordered(q) ==
    \A i, j \in DOMAIN q :
        q[i].type = "Vanished" /\ q[j].type = "Loaded" /\ q[i].from = q[j].from
            => j < i

Letters(boxes, p) == {boxes[p][k] : k \in DOMAIN boxes[p]}

\* Process p believes that it owns its document, or is about to be told so.
Believes(p) == registered[p] \/ Post("Owner", None) \in Letters(mail, p)

Told ==
    \A p \in Viewers :
        Believes(p) => /\ status[p] # "off"
                       /\ status[p] = "running" => HasRecord(p)

Listening ==
    \A p \in subs : /\ status[p] # "off"
                    /\ status[p] = "running" => HasRecord(p)

Documented == \A p \in Viewers : status[p] # "off" => uri[p] \in Uris

Inv ==
    /\ TypeOK
    /\ Documented
    /\ Records
    /\ Requests
    /\ Ordered(inbox)
    /\ Told
    /\ Listening
    /\ NobodyWaitsForALoadedDocument

-----------------------------------------------------------------------------
(* Queues *)

LEMMA TailElements ==
    ASSUME NEW S, NEW q \in Seq(S), q # <<>>
    PROVE  /\ Tail(q) \in Seq(S)
           /\ 1 \in DOMAIN q /\ Head(q) = q[1] /\ Head(q) \in S
           /\ \A k \in DOMAIN Tail(q) : k \in Nat /\ k + 1 \in DOMAIN q /\ Tail(q)[k] = q[k + 1]
  OBVIOUS

LEMMA AppendElements ==
    ASSUME NEW S, NEW q \in Seq(S), NEW e \in S
    PROVE  /\ Append(q, e) \in Seq(S)
           /\ Len(q) \in Nat /\ DOMAIN q = 1 .. Len(q)
           /\ \A k \in DOMAIN Append(q, e) :
                \/ k \in DOMAIN q /\ Append(q, e)[k] = q[k]
                \/ k = Len(q) + 1 /\ Append(q, e)[k] = e
  OBVIOUS

LEMMA OrderedTail ==
    ASSUME NEW S, NEW q \in Seq(S), q # <<>>, Ordered(q)
    PROVE  Ordered(Tail(q))
<1>1. \A k \in DOMAIN Tail(q) : k \in Nat /\ k + 1 \in DOMAIN q /\ Tail(q)[k] = q[k + 1]
  BY TailElements
<1> SUFFICES ASSUME NEW i \in DOMAIN Tail(q), NEW j \in DOMAIN Tail(q),
                    Tail(q)[i].type = "Vanished", Tail(q)[j].type = "Loaded",
                    Tail(q)[i].from = Tail(q)[j].from
             PROVE  j < i
  BY DEF Ordered
<1>2. j + 1 < i + 1
  BY <1>1 DEF Ordered
<1> QED BY <1>1, <1>2

\* A message may follow unless it is a DocumentLoaded of a name that vanished.
LEMMA OrderedAppend ==
    ASSUME NEW S, NEW q \in Seq(S), NEW e \in S, Ordered(q),
           e.type = "Loaded" => \A k \in DOMAIN q :
                                  q[k].type = "Vanished" => q[k].from # e.from
    PROVE  Ordered(Append(q, e))
<1>1. /\ Len(q) \in Nat /\ DOMAIN q = 1 .. Len(q)
      /\ \A k \in DOMAIN Append(q, e) :
            \/ k \in DOMAIN q /\ Append(q, e)[k] = q[k]
            \/ k = Len(q) + 1 /\ Append(q, e)[k] = e
  BY AppendElements
<1> SUFFICES ASSUME NEW i \in DOMAIN Append(q, e), NEW j \in DOMAIN Append(q, e),
                    Append(q, e)[i].type = "Vanished", Append(q, e)[j].type = "Loaded",
                    Append(q, e)[i].from = Append(q, e)[j].from
             PROVE  j < i
  BY DEF Ordered
<1>2. CASE i \in DOMAIN q /\ Append(q, e)[i] = q[i]
  <2>1. CASE j \in DOMAIN q /\ Append(q, e)[j] = q[j]
    BY <1>2, <2>1 DEF Ordered
  <2>2. CASE j = Len(q) + 1 /\ Append(q, e)[j] = e
    BY <1>2, <2>2
  <2> QED BY <1>1, <2>1, <2>2
<1>3. CASE i = Len(q) + 1 /\ Append(q, e)[i] = e
  <2>1. Append(q, e)[j] # e
    BY <1>3
  <2> QED BY <1>1, <1>3, <2>1
<1> QED BY <1>1, <1>2, <1>3

LEMMA LetterTaken ==
    ASSUME NEW boxes \in [Viewers -> Seq(Letter)], NEW p \in Viewers, boxes[p] # <<>>
    PROVE  /\ [boxes EXCEPT ![p] = Tail(@)] \in [Viewers -> Seq(Letter)]
           /\ Head(boxes[p]) \in Letter
           /\ Head(boxes[p]) \in Letters(boxes, p)
           /\ \A q \in Viewers :
                Letters([boxes EXCEPT ![p] = Tail(@)], q) \subseteq Letters(boxes, q)
<1>1. /\ Tail(boxes[p]) \in Seq(Letter)
      /\ 1 \in DOMAIN boxes[p] /\ Head(boxes[p]) = boxes[p][1] /\ Head(boxes[p]) \in Letter
      /\ \A k \in DOMAIN Tail(boxes[p]) : k + 1 \in DOMAIN boxes[p]
                                          /\ Tail(boxes[p])[k] = boxes[p][k + 1]
  BY TailElements
<1> QED BY <1>1 DEF Letters

LEMMA LetterDelivered ==
    ASSUME NEW boxes \in [Viewers -> Seq(Letter)], NEW p \in Viewers, NEW l \in Letter
    PROVE  /\ Delivered(boxes, p, l) \in [Viewers -> Seq(Letter)]
           /\ \A q \in Viewers :
                Letters(Delivered(boxes, p, l), q)
                    \subseteq Letters(boxes, q) \cup (IF q = p THEN {l} ELSE {})
<1>1. /\ Append(boxes[p], l) \in Seq(Letter)
      /\ \A k \in DOMAIN Append(boxes[p], l) :
            \/ k \in DOMAIN boxes[p] /\ Append(boxes[p], l)[k] = boxes[p][k]
            \/ Append(boxes[p], l)[k] = l
  BY AppendElements
<1> QED BY <1>1 DEF Letters, Delivered

\* A number of equal answers at the end of a queue.
LEMMA LettersAdded ==
    ASSUME NEW q \in Seq(Letter), NEW n \in Nat, NEW l \in Letter
    PROVE  /\ q \o [k \in 1 .. n |-> l] \in Seq(Letter)
           /\ \A k \in DOMAIN (q \o [j \in 1 .. n |-> l]) :
                \/ k \in DOMAIN q /\ (q \o [j \in 1 .. n |-> l])[k] = q[k]
                \/ (q \o [j \in 1 .. n |-> l])[k] = l
<1>1. [k \in 1 .. n |-> l] \in Seq(Letter) /\ Len([k \in 1 .. n |-> l]) = n
  OBVIOUS
<1> DEFINE r == [k \in 1 .. n |-> l]
<1>2. \A k \in 1 .. n : r[k] = l
  OBVIOUS
<1> HIDE DEF r
<1> QED BY <1>1, <1>2

\* How often something occurs in a queue is a number.
LEMMA CountIsNat ==
    ASSUME NEW S, NEW q \in Seq(S), NEW T \in SUBSET DOMAIN q
    PROVE  Cardinality(T) \in Nat
<1>1. DOMAIN q = 1 .. Len(q) /\ Len(q) \in Nat
  OBVIOUS
<1>2. IsFiniteSet(DOMAIN q)
  BY <1>1, FS_Interval
<1>3. IsFiniteSet(T)
  BY <1>2, FS_Subset
<1> QED BY <1>3, FS_CardinalityType

-----------------------------------------------------------------------------
(* Steps of the processes *)

\* A process only ever goes from "off" to "gone", and keeps its document.
Onward ==
    \A p \in Viewers :
        status[p] # "off" =>
            /\ status'[p] # "off"
            /\ uri'[p] = uri[p]
            /\ status[p] \in {"closing", "gone"} => status'[p] \in {"closing", "gone"}
            /\ status[p] = "gone" => status'[p] = "gone"

\* A step that leaves the daemon alone keeps the invariant when what it sends
\* is true and nobody comes to believe anything by it.
LEMMA ProcessStep ==
    ASSUME Inv, TypeOK', Documented', UNCHANGED daemonVars, Onward,
           \/ inbox' = inbox
           \/ \E m \in Request :
                /\ inbox' = Append(inbox, m)
                /\ GoodRequest(m)'
                /\ m.type = "Loaded" => status[m.from] = "running",
           \A p \in Viewers : Believes(p)' => Believes(p)
    PROVE  Inv'
<1>1. \A d \in docs : d.name \in Viewers /\ d = [name |-> d.name, uri |-> d.uri]
  BY DEF Inv, TypeOK, Doc
<1>2. Records'
  BY <1>1 DEF Inv, Records, Onward, daemonVars, HoldsAreRecords
<1>3. \A p \in Viewers : status[p] # "off" => (HasRecord(p) <=> HasRecord(p)')
  BY DEF Onward, HasRecord, daemonVars
<1>4. \A m \in Request : GoodRequest(m) => GoodRequest(m)'
  BY <1>3 DEF GoodRequest, Onward, daemonVars
<1>5. \A k \in DOMAIN inbox : inbox[k] \in Request
  BY DEF Inv, TypeOK
<1>6. Requests' /\ Ordered(inbox)'
  <2>1. CASE inbox' = inbox
    BY <1>4, <1>5, <2>1 DEF Inv, Requests, Ordered
  <2>2. ASSUME NEW m \in Request, inbox' = Append(inbox, m), GoodRequest(m)',
               m.type = "Loaded" => status[m.from] = "running"
        PROVE  Requests' /\ Ordered(inbox)'
    <3>1. \A k \in DOMAIN inbox' : \/ k \in DOMAIN inbox /\ inbox'[k] = inbox[k]
                                   \/ inbox'[k] = m
      BY <2>2, AppendElements DEF Inv, TypeOK
    <3>2. Requests'
      BY <3>1, <2>2, <1>4, <1>5 DEF Inv, Requests
    <3>3. m.type = "Loaded" => m.from \in Viewers
      BY DEF Request
    <3>4. m.type = "Loaded" => \A k \in DOMAIN inbox :
                                  inbox[k].type = "Vanished" => inbox[k].from # m.from
      BY <2>2, <3>3 DEF Inv, Requests, GoodRequest
    <3>5. Ordered(Append(inbox, m))
      BY <3>4, OrderedAppend DEF Inv, TypeOK
    <3> QED BY <3>2, <3>5, <2>2 DEF Ordered
  <2> QED BY <2>1, <2>2
<1>7. Told'
  <2> SUFFICES ASSUME NEW p \in Viewers, Believes(p)'
               PROVE  status'[p] # "off" /\ (status'[p] = "running" => HasRecord(p)')
    BY DEF Told
  <2>1. status[p] # "off" /\ (status[p] = "running" => HasRecord(p))
    BY DEF Inv, Told
  <2>2. status'[p] = "running" => status[p] = "running"
    BY <2>1 DEF Onward, Inv, TypeOK
  <2> QED BY <2>1, <2>2, <1>3 DEF Onward
<1>8. Listening'
  <2> SUFFICES ASSUME NEW p \in subs'
               PROVE  status'[p] # "off" /\ (status'[p] = "running" => HasRecord(p)')
    BY DEF Listening
  <2>1. p \in subs /\ p \in Viewers /\ status[p] # "off"
    BY DEF Inv, Listening, TypeOK, daemonVars
  <2>2. status'[p] # "off"
    BY <2>1 DEF Onward
  <2>3. ASSUME status'[p] = "running" PROVE HasRecord(p)'
    <3>1. status[p] = "running"
      BY <2>1, <2>3 DEF Onward, Inv, TypeOK
    <3> QED BY <3>1, <2>1, <1>3 DEF Inv, Listening
  <2> QED BY <2>2, <2>3
<1>9. NobodyWaitsForALoadedDocument'
  BY DEF Inv, NobodyWaitsForALoadedDocument, daemonVars
<1> QED BY <1>2, <1>6, <1>7, <1>8, <1>9 DEF Inv

\* What a process posts to the daemon.
LEMMA MessageIsRequest ==
    ASSUME NEW p \in Viewers, NEW u \in Uris,
           NEW t \in {"Register", "Unregister", "Loaded", "Vanished"}
    PROVE  /\ Message(t, p, u) \in Request
           /\ Message(t, p, u).type = t
           /\ Message(t, p, u).from = p
           /\ Message(t, p, u).uri = u
  BY DEF Message, Request

LEMMA LetterTypes ==
    /\ \A p \in Viewers \cup {None} : Post("Owner", p) \in Letter
    /\ \A p \in Viewers : Post("Reload", p) \in Letter /\ Post("Reload", p) # Post("Owner", None)
    /\ \A t \in {"RegisterFailed", "Reloaded", "Unregistered"} :
         Post(t, None) \in Letter /\ Post(t, None) # Post("Owner", None)
  BY DEF Post, Letter

\* A process that is not "off" has a document when its messages are about one.
LEMMA LaunchKeepsInv ==
    ASSUME Inv, NEW p \in Viewers, NEW u \in Uris, Launch(p, u)
    PROVE  Inv'
<1>1. Message("Register", p, u) \in Request
  BY MessageIsRequest
<1>2. /\ status[p] = "off" /\ status' = [status EXCEPT ![p] = "running"]
      /\ uri' = [uri EXCEPT ![p] = u] /\ calls' = [calls EXCEPT ![p] = 1]
      /\ UNCHANGED <<registered, windows, daemonVars, mail, waiting>>
      /\ inbox' = Append(inbox, Message("Register", p, u))
  BY DEF Launch, Started
<1>3. TypeOK' /\ Documented'
  BY <1>1, <1>2 DEF Inv, Documented, TypeOK, daemonVars
<1>4. Onward
  BY <1>2 DEF Onward, Inv, TypeOK
<1>5. GoodRequest(Message("Register", p, u))'
  BY <1>2, MessageIsRequest DEF GoodRequest, Inv, TypeOK
<1>6. \A q \in Viewers : Believes(q)' => Believes(q)
  BY <1>2 DEF Believes, Letters
<1> QED BY <1>1, <1>2, <1>3, <1>4, <1>5, <1>6, ProcessStep, MessageIsRequest

\* OpenAgain, LoadSucceeds, LoadFails, CloseWindow and the beginning of a
\* shutdown with UnregisterDocument.
LEMMA OpenAgainKeepsInv ==
    ASSUME Inv, NEW p \in Viewers, OpenAgain(p)
    PROVE  Inv'
<1>1. uri[p] \in Uris
  BY DEF Inv, OpenAgain, Documented
<1>2. Message("Register", p, uri[p]) \in Request
  BY <1>1, MessageIsRequest
<1>3. TypeOK' /\ Documented'
  BY <1>2 DEF Inv, Documented, TypeOK, OpenAgain, daemonVars
<1>4. GoodRequest(Message("Register", p, uri[p]))'
  BY <1>1, MessageIsRequest DEF GoodRequest, OpenAgain
<1>5. Onward /\ \A q \in Viewers : Believes(q)' => Believes(q)
  BY DEF Onward, Believes, Letters, OpenAgain
<1> QED BY <1>1, <1>2, <1>3, <1>4, <1>5, ProcessStep, MessageIsRequest DEF OpenAgain

LEMMA LoadingKeepsInv ==
    ASSUME Inv, NEW p \in Viewers,
           LoadSucceeds(p) \/ LoadFails(p) \/ CloseWindow(p)
    PROVE  Inv'
<1>1. status[p] = "running" /\ UNCHANGED <<daemonVars, mail, status, uri, registered>>
  BY DEF LoadSucceeds, LoadFails, CloseWindow
<1>2. uri[p] \in Uris
  BY <1>1 DEF Inv, Documented
<1>3. Message("Loaded", p, uri[p]) \in Request
  BY <1>2, MessageIsRequest
<1>4. TypeOK' /\ Documented'
  <2>1. inbox' = inbox \/ inbox' = Append(inbox, Message("Loaded", p, uri[p]))
    BY DEF LoadSucceeds, LoadFails, CloseWindow
  <2>2. inbox' \in Seq(Request)
    <3>1. inbox \in Seq(Request)
      BY DEF Inv, TypeOK
    <3> QED BY <1>3, <2>1, <3>1, AppendElements
  <2>3. \E w \in {"none", "open"} : windows' = [windows EXCEPT ![p] = w]
    BY DEF LoadSucceeds, LoadFails, CloseWindow
  <2>4. UNCHANGED <<calls, waiting>>
    BY DEF LoadSucceeds, LoadFails, CloseWindow
  <2> QED BY <1>1, <2>2, <2>3, <2>4 DEF Inv, Documented, TypeOK, daemonVars
<1>5. p \in subs => GoodRequest(Message("Loaded", p, uri[p]))'
  <2>1. p \in subs => HasRecord(p)
    BY <1>1 DEF Inv, Listening
  <2>2. HasRecord(p) => HasRecord(p)'
    BY <1>1 DEF HasRecord, daemonVars
  <2> QED BY <1>1, <1>2, <2>1, <2>2, MessageIsRequest DEF GoodRequest
<1>6. Onward /\ \A q \in Viewers : Believes(q)' => Believes(q)
  BY <1>1 DEF Onward, Believes, Letters
<1>7. \/ inbox' = inbox
      \/ p \in subs /\ inbox' = Append(inbox, Message("Loaded", p, uri[p]))
  BY DEF LoadSucceeds, LoadFails, CloseWindow
<1> QED BY <1>1, <1>2, <1>3, <1>4, <1>5, <1>6, <1>7, ProcessStep, MessageIsRequest

\* A process takes a letter from its mail, and may answer or send one; none of
\* them says that anybody owns a document.
LEMMA AnswerKeepsInv ==
    ASSUME Inv, NEW p \in Viewers, Answer(p)
    PROVE  Inv'
<1> DEFINE boxes == [mail EXCEPT ![p] = Tail(@)]
           l == Head(mail[p])
<1>1. mail[p] # <<>> /\ status[p] = "running"
  BY DEF Answer, OnRegisterFailed, OnRegisterUri, HandleReload, OnReload, NextLetter
<1>2. /\ boxes \in [Viewers -> Seq(Letter)]
      /\ l \in Letter /\ l \in Letters(mail, p)
      /\ \A q \in Viewers : Letters(boxes, q) \subseteq Letters(mail, q)
  BY <1>1, LetterTaken DEF Inv, TypeOK
<1>3. UNCHANGED <<daemonVars, inbox, status, uri, waiting>>
  BY DEF Answer, OnRegisterFailed, OnRegisterUri, HandleReload, OnReload, viewerVars
<1>4. /\ mail' \in [Viewers -> Seq(Letter)]
      /\ \A q \in Viewers :
           Post("Owner", None) \in Letters(mail', q) => Post("Owner", None) \in Letters(mail, q)
  <2>1. CASE mail' = boxes
    BY <1>2, <2>1
  <2>2. ASSUME NEW q \in Viewers, NEW r \in Letter, r # Post("Owner", None),
               mail' = Delivered(boxes, q, r)
        PROVE  <1>4!1 /\ <1>4!2
    <3>1. /\ Delivered(boxes, q, r) \in [Viewers -> Seq(Letter)]
          /\ \A x \in Viewers :
               Letters(Delivered(boxes, q, r), x)
                 \subseteq Letters(boxes, x) \cup (IF x = q THEN {r} ELSE {})
      BY <1>2, LetterDelivered
    <3> QED BY <1>2, <2>2, <3>1
  <2>3. CASE OnRegisterFailed(p) \/ OnReload(p)
    BY <2>1, <2>3 DEF OnRegisterFailed, OnReload
  <2>4. CASE HandleReload(p)
    <3>1. l.from \in Viewers
      BY <1>2, <2>4 DEF HandleReload, NextLetter, Letter
    <3> QED BY <2>2, <2>4, <3>1, LetterTypes DEF HandleReload
  <2>5. CASE OnRegisterUri(p)
    <3>1. l.from \in Viewers \cup {None}
      BY <1>2, <2>5 DEF OnRegisterUri, NextLetter, Letter
    <3>2. \/ mail' = boxes
          \/ l.from # None /\ mail' = Delivered(boxes, l.from, Post("Reload", p))
          \/ mail' = Delivered(boxes, p, Post("Reloaded", None))
      BY <2>5 DEF OnRegisterUri
    <3> QED BY <2>1, <2>2, <3>1, <3>2, LetterTypes
  <2> QED BY <2>3, <2>4, <2>5 DEF Answer
<1>5. TypeOK' /\ Documented'
  <2>1. registered' \in [Viewers -> BOOLEAN]
    BY DEF Inv, TypeOK, Answer, OnRegisterFailed, OnRegisterUri, HandleReload, OnReload, viewerVars
  <2>2. windows' \in [Viewers -> {"none", "loading", "open"}]
    BY DEF Inv, TypeOK, Answer, OnRegisterFailed, OnRegisterUri, HandleReload, OnReload,
           viewerVars, OpenWindow
  <2>3. calls' = calls \/ calls' = [calls EXCEPT ![p] = @ - 1]
    BY DEF Answer, OnRegisterFailed, OnRegisterUri, HandleReload, OnReload, viewerVars
  <2>4. calls' \in [Viewers -> Int]
    BY <2>3 DEF Inv, TypeOK
  <2> QED BY <1>3, <1>4, <2>1, <2>2, <2>4 DEF Inv, Documented, TypeOK, daemonVars
<1>6. \A q \in Viewers : registered'[q] => Believes(q)
  <2>1. CASE registered' = registered
    BY <2>1 DEF Believes
  <2>2. CASE registered' # registered
    <3>1. OnRegisterUri(p) /\ l.from = None /\ registered' = [registered EXCEPT ![p] = TRUE]
      BY <2>2 DEF Answer, OnRegisterFailed, OnRegisterUri, HandleReload, OnReload, viewerVars
    <3>2. l = Post("Owner", None)
      BY <3>1, <1>2 DEF OnRegisterUri, NextLetter, Letter, Post
    <3> QED BY <3>1, <3>2, <1>2 DEF Believes, Inv, TypeOK
  <2> QED BY <2>1, <2>2
<1>7. \A q \in Viewers : Believes(q)' => Believes(q)
  BY <1>4, <1>6 DEF Believes, Letters
<1>8. Onward
  BY <1>3 DEF Onward
<1> QED BY <1>3, <1>5, <1>7, <1>8, ProcessStep

LEMMA LeavingKeepsInv ==
    ASSUME Inv, NEW p \in Viewers, OnTheBus(p), LeaveBus(p),
           UNCHANGED <<daemonVars, uri, registered, calls, waiting>>
    PROVE  Inv'
<1>1. uri[p] \in Uris
  BY DEF Inv, Documented, OnTheBus
<1>2. Message("Vanished", p, uri[p]) \in Request
  BY <1>1, MessageIsRequest
<1>3. \A q \in Viewers :
        /\ mail'[q] \in Seq(Letter)
        /\ Post("Owner", None) \in Letters(mail', q) => Post("Owner", None) \in Letters(mail, q)
  <2> SUFFICES ASSUME NEW q \in Viewers
               PROVE  /\ mail'[q] \in Seq(Letter)
                      /\ \A k \in DOMAIN mail'[q] :
                           mail'[q][k] = Post("Owner", None) =>
                             k \in DOMAIN mail[q] /\ mail[q][k] = mail'[q][k]
    BY DEF Letters
  <2>1. CASE q = p
    BY <2>1 DEF LeaveBus
  <2>2. CASE q # p
    <3>1. {k \in DOMAIN mail[p] : mail[p][k] = Post("Reload", q)} \in SUBSET DOMAIN mail[p]
      OBVIOUS
    <3>2. CallsTo(p, q) \in Nat
      BY <3>1, CountIsNat DEF CallsTo, Inv, TypeOK
    <3>3. mail'[q] = mail[q] \o [k \in 1 .. CallsTo(p, q) |-> Post("Reloaded", None)]
      BY <2>2 DEF LeaveBus
    <3>4. mail[q] \in Seq(Letter)
      BY DEF Inv, TypeOK
    <3>5. /\ mail'[q] \in Seq(Letter)
          /\ \A k \in DOMAIN mail'[q] :
               (k \in DOMAIN mail[q] /\ mail'[q][k] = mail[q][k]) \/ mail'[q][k] = Post("Reloaded", None)
      <4> DEFINE r == Post("Reloaded", None)
      <4>1. r \in Letter
        BY LetterTypes
      <4> HIDE DEF r
      <4>2. /\ mail[q] \o [k \in 1 .. CallsTo(p, q) |-> r] \in Seq(Letter)
            /\ \A k \in DOMAIN (mail[q] \o [j \in 1 .. CallsTo(p, q) |-> r]) :
                 \/ k \in DOMAIN mail[q] /\ (mail[q] \o [j \in 1 .. CallsTo(p, q) |-> r])[k] = mail[q][k]
                 \/ (mail[q] \o [j \in 1 .. CallsTo(p, q) |-> r])[k] = r
        BY <3>2, <3>4, <4>1, LettersAdded
      <4>3. mail'[q] = mail[q] \o [k \in 1 .. CallsTo(p, q) |-> r]
        BY <3>3 DEF r
      <4> QED BY <4>2, <4>3 DEF r
    <3> QED BY <3>5, LetterTypes
  <2> QED BY <2>1, <2>2
<1>4. mail' \in [Viewers -> Seq(Letter)]
  <2>1. mail' = [q \in Viewers |-> mail'[q]]
    BY DEF LeaveBus
  <2> QED BY <2>1, <1>3
<1>5. TypeOK' /\ Documented'
  <2>1. inbox' = inbox \/ inbox' = Append(inbox, Message("Vanished", p, uri[p]))
    BY DEF LeaveBus
  <2>2. inbox' \in Seq(Request)
    <3>1. inbox \in Seq(Request)
      BY DEF Inv, TypeOK
    <3> QED BY <1>2, <2>1, <3>1, AppendElements
  <2>3. /\ status' \in [Viewers -> {"off", "running", "closing", "gone"}]
        /\ \A q \in Viewers : status'[q] # "off" => status[q] # "off"
    BY DEF LeaveBus, OnTheBus, Inv, TypeOK
  <2>4. windows' \in [Viewers -> {"none", "loading", "open"}]
    BY DEF LeaveBus, Inv, TypeOK
  <2> QED BY <1>4, <2>2, <2>3, <2>4 DEF Inv, Documented, TypeOK, daemonVars
<1>6. Onward
  BY DEF Onward, LeaveBus, Inv, TypeOK
<1>7. GoodRequest(Message("Vanished", p, uri[p]))'
  BY <1>1, MessageIsRequest DEF GoodRequest, LeaveBus, Inv, TypeOK
<1>8. \A q \in Viewers : Believes(q)' => Believes(q)
  BY <1>3 DEF Believes, Letters
<1>9. inbox' = inbox \/ inbox' = Append(inbox, Message("Vanished", p, uri[p]))
  BY DEF LeaveBus
<1> QED BY <1>1, <1>2, <1>5, <1>6, <1>7, <1>8, <1>9, ProcessStep, MessageIsRequest

LEMMA ShutdownKeepsInv ==
    ASSUME Inv, NEW p \in Viewers, Shutdown(p)
    PROVE  Inv'
<1>1. status[p] = "running" /\ UNCHANGED <<daemonVars, uri, registered, calls, waiting>>
  BY DEF Shutdown
<1>2. CASE LeaveBus(p)
  BY <1>1, <1>2, LeavingKeepsInv DEF OnTheBus
<1>3. CASE /\ status' = [status EXCEPT ![p] = "closing"]
           /\ inbox' = Append(inbox, Message("Unregister", p, uri[p]))
           /\ UNCHANGED <<mail, windows>>
  <2>1. uri[p] \in Uris
    BY <1>1 DEF Inv, Documented
  <2>2. Message("Unregister", p, uri[p]) \in Request
    BY <2>1, MessageIsRequest
  <2>3. TypeOK' /\ Documented'
    BY <1>1, <1>3, <2>2 DEF Inv, Documented, TypeOK, daemonVars
  <2>4. GoodRequest(Message("Unregister", p, uri[p]))'
    BY <1>1, <1>3, <2>1, MessageIsRequest DEF GoodRequest, Inv, TypeOK
  <2>5. Onward
    BY <1>1, <1>3 DEF Onward, Inv, TypeOK
  <2>6. \A q \in Viewers : Believes(q)' => Believes(q)
    BY <1>1, <1>3 DEF Believes, Letters
  <2> QED BY <1>1, <1>3, <2>1, <2>2, <2>3, <2>4, <2>5, <2>6, ProcessStep, MessageIsRequest
<1> QED BY <1>2, <1>3 DEF Shutdown

LEMMA FindDocumentKeepsInv ==
    ASSUME Inv, NEW c \in Callers, NEW u \in Uris, NEW spawn \in BOOLEAN,
           FindDocument(c, u, spawn)
    PROVE  Inv'
<1> DEFINE m == Message(IF spawn THEN "FindOrSpawn" ELSE "Find", c, u)
<1>1. m \in Request /\ m.from = c /\ m.type # "Loaded"
  BY DEF Message, Request
<1>2. c \notin Viewers
  BY RegistryAssumption
<1>3. TypeOK' /\ Documented'
  BY <1>1 DEF Inv, Documented, TypeOK, FindDocument, daemonVars, viewerVars
<1>4. GoodRequest(m)'
  BY <1>1, <1>2 DEF GoodRequest
<1>5. Onward /\ \A q \in Viewers : Believes(q)' => Believes(q)
  BY DEF Onward, Believes, Letters, FindDocument, viewerVars
<1> HIDE DEF m
<1>6. inbox' = Append(inbox, m) /\ UNCHANGED daemonVars
  BY DEF FindDocument, m
<1> QED BY <1>1, <1>3, <1>4, <1>5, <1>6, ProcessStep

-----------------------------------------------------------------------------
(* Steps of the daemon *)

\* The messages that stay when one is handled.
Behind == {Tail(inbox)[k] : k \in DOMAIN Tail(inbox)}

\* What is known of the message that is handled, and of those behind it.
LEMMA RequestTaken ==
    ASSUME Inv, inbox # <<>>
    PROVE  /\ Head(inbox) \in Request /\ GoodRequest(Head(inbox))
           /\ Tail(inbox) \in Seq(Request) /\ Ordered(Tail(inbox))
           /\ \A m \in Behind :
                /\ m \in Request /\ GoodRequest(m)
                /\ Head(inbox).type = "Vanished" /\ m.type = "Loaded"
                     => m.from # Head(inbox).from
<1>1. inbox \in Seq(Request) /\ Requests /\ Ordered(inbox)
  BY DEF Inv, TypeOK
<1>2. /\ Tail(inbox) \in Seq(Request)
      /\ 1 \in DOMAIN inbox /\ Head(inbox) = inbox[1] /\ Head(inbox) \in Request
      /\ \A k \in DOMAIN Tail(inbox) :
            k \in Nat /\ k + 1 \in DOMAIN inbox /\ Tail(inbox)[k] = inbox[k + 1]
  BY <1>1, TailElements
<1>3. Ordered(Tail(inbox))
  BY <1>1, OrderedTail
<1>4. \A k \in DOMAIN Tail(inbox) :
        Head(inbox).type = "Vanished" /\ Tail(inbox)[k].type = "Loaded"
          => Tail(inbox)[k].from # Head(inbox).from
  BY <1>1, <1>2 DEF Ordered
<1> QED BY <1>1, <1>2, <1>3, <1>4 DEF Requests, Behind

\* A request of a process is about its own document.
LEMMA SenderIsAProcess ==
    ASSUME Inv, NEW t \in {"Register", "Unregister", "Loaded", "Vanished"}, NextRequest(t)
    PROVE  /\ inbox # <<>>
           /\ running
           /\ Head(inbox).from \in Viewers
           /\ Head(inbox).uri \in Uris
           /\ status[Head(inbox).from] # "off"
           /\ Head(inbox).uri = uri[Head(inbox).from]
<1>1. inbox # <<>> /\ running /\ Head(inbox).type = t
  BY DEF NextRequest
<1>2. Head(inbox) \in Request /\ GoodRequest(Head(inbox))
  BY <1>1, RequestTaken
<1>3. Head(inbox).from \in Viewers /\ Head(inbox).uri \in Uris
  BY <1>1, <1>2 DEF Request
<1> QED BY <1>1, <1>2, <1>3 DEF GoodRequest

\* The message is taken, one may come at the end; what matters is that every
\* message of the rest is still true.
LEMMA DaemonStep ==
    ASSUME Inv, TypeOK', Documented', Records', inbox # <<>>,
           \/ inbox' = Tail(inbox)
           \/ \E m \in Request :
                inbox' = Append(Tail(inbox), m) /\ GoodRequest(m)' /\ m.type # "Loaded",
           \A m \in Behind : GoodRequest(m)',
           Told', Listening', NobodyWaitsForALoadedDocument'
    PROVE  Inv'
<1>1. Tail(inbox) \in Seq(Request) /\ Ordered(Tail(inbox))
  BY RequestTaken
<1>2. CASE inbox' = Tail(inbox)
  BY <1>1, <1>2 DEF Inv, Requests, Ordered, Behind
<1>3. ASSUME NEW m \in Request,
             inbox' = Append(Tail(inbox), m), GoodRequest(m)', m.type # "Loaded"
      PROVE  Inv'
  <2>1. \A k \in DOMAIN inbox' :
          \/ k \in DOMAIN Tail(inbox) /\ inbox'[k] = Tail(inbox)[k]
          \/ inbox'[k] = m
    BY <1>1, <1>3, AppendElements
  <2>2. Requests'
    BY <1>3, <2>1 DEF Requests, Behind
  <2>3. Ordered(Append(Tail(inbox), m))
    BY <1>1, <1>3, OrderedAppend
  <2> QED BY <1>3, <2>2, <2>3 DEF Inv, Ordered
<1> QED BY <1>2, <1>3

LEMMA RegisterKeepsInv ==
    ASSUME Inv, HandleRegisterDocument
    PROVE  Inv'
<1>1. NextRequest("Register") /\ UNCHANGED <<running, pending, viewerVars, waiting>>
  BY DEF HandleRegisterDocument
<1>2. PICK p \in Viewers, u \in Uris :
         /\ p = Head(inbox).from /\ u = Head(inbox).uri
         /\ inbox # <<>> /\ running /\ status[p] # "off" /\ u = uri[p]
  BY <1>1, SenderIsAProcess
<1>3. /\ Tail(inbox) \in Seq(Request)
      /\ \A m \in Behind : m \in Request /\ GoodRequest(m)
  BY <1>2, RequestTaken
<1>4. Message("Vanished", p, u) \in Request
  BY <1>2, MessageIsRequest
<1>5. CASE AnswerOwner(p, u)
  <2>1. OwnerOf(u) \in Viewers
    BY <1>5 DEF AnswerOwner, Registered, OwnerOf, Inv, TypeOK, Doc
  <2>2. Post("Owner", OwnerOf(u)) \in Letter /\ Post("Owner", OwnerOf(u)) # Post("Owner", None)
    BY <2>1, LetterTypes, RegistryAssumption DEF Post
  <2>3. /\ mail' \in [Viewers -> Seq(Letter)]
        /\ \A q \in Viewers :
             Post("Owner", None) \in Letters(mail', q) => Post("Owner", None) \in Letters(mail, q)
    <3> DEFINE l == Post("Owner", OwnerOf(u))
    <3>1. mail \in [Viewers -> Seq(Letter)] /\ mail' = Delivered(mail, p, l)
      BY <1>5 DEF AnswerOwner, Inv, TypeOK
    <3>2. l \in Letter /\ l # Post("Owner", None)
      BY <2>2
    <3> HIDE DEF l
    <3> QED BY <1>2, <3>1, <3>2, LetterDelivered
  <2>4. TypeOK' /\ Documented'
    BY <1>1, <1>3, <1>5, <2>3 DEF Inv, TypeOK, Documented, AnswerOwner, viewerVars
  <2>5. Records'
    BY <1>1, <1>5 DEF Inv, Records, HoldsAreRecords, AnswerOwner, viewerVars
  <2>6. \A q \in Viewers : Believes(q)' => Believes(q)
    BY <1>1, <2>3 DEF Believes, Letters, viewerVars
  <2>7. Told' /\ Listening' /\ NobodyWaitsForALoadedDocument'
    BY <1>1, <1>5, <2>6 DEF Inv, Told, Listening, HasRecord, NobodyWaitsForALoadedDocument,
                            AnswerOwner, viewerVars
  <2>8. \A m \in Behind : GoodRequest(m)'
    <3>1. \A m \in Request : GoodRequest(m) => GoodRequest(m)'
      BY <1>1, <1>5 DEF GoodRequest, HasRecord, AnswerOwner, viewerVars
    <3> QED BY <1>3, <3>1
  <2>9. inbox' = Tail(inbox)
    BY <1>5 DEF AnswerOwner
  <2> QED BY <1>2, <2>4, <2>5, <2>7, <2>8, <2>9, DaemonStep
<1>6. CASE /\ ~ Registered(u)
           /\ Record(p, u)
           /\ mail' = Delivered(mail, p, Post("Owner", None))
           /\ inbox' = Watched(p, u)
  <2> DEFINE d == [name |-> p, uri |-> u]
  <2>1. docs' = docs \cup {d} /\ subs' = subs \cup {p} /\ holds' = holds + 1
    BY <1>6 DEF Record
  <2>2. /\ mail' \in [Viewers -> Seq(Letter)]
        /\ \A q \in Viewers \ {p} :
             Post("Owner", None) \in Letters(mail', q) => Post("Owner", None) \in Letters(mail, q)
    <3> DEFINE l == Post("Owner", None)
    <3>1. mail \in [Viewers -> Seq(Letter)] /\ mail' = Delivered(mail, p, l)
      BY <1>6 DEF Inv, TypeOK
    <3>2. l \in Letter
      BY LetterTypes
    <3> HIDE DEF l
    <3>3. \A q \in Viewers \ {p} : Letters(mail', q) \subseteq Letters(mail, q)
      BY <1>2, <3>1, <3>2, LetterDelivered
    <3> QED BY <1>2, <3>1, <3>2, <3>3, LetterDelivered
  <2>3. inbox' = Tail(inbox) \/ (inbox' = Append(Tail(inbox), Message("Vanished", p, u))
                                 /\ ~ OnTheBus(p))
    BY <1>6 DEF Watched
  <2>4. inbox' \in Seq(Request)
    BY <1>3, <1>4, <2>3, AppendElements
  <2>5. TypeOK' /\ Documented'
    BY <1>1, <1>2, <2>1, <2>2, <2>4 DEF Inv, TypeOK, Documented, Doc, viewerVars
  <2>6. d \notin docs /\ \A e \in docs : e.uri # u
    BY <1>6 DEF Registered
  <2>7. Records'
    <3>1. IsFiniteSet(docs') /\ Cardinality(docs') = Cardinality(docs) + 1
      BY <2>1, <2>6, FS_AddElement DEF Inv, Records
    <3>2. HoldsAreRecords'
      BY <2>1, <3>1 DEF Inv, Records, HoldsAreRecords
    <3> QED BY <1>1, <1>2, <2>1, <2>6, <3>1, <3>2 DEF Inv, Records, viewerVars
  <2>8. /\ HasRecord(p)'
        /\ \A q \in Viewers : HasRecord(q) => HasRecord(q)'
    BY <1>1, <1>2, <2>1 DEF HasRecord, viewerVars
  <2>9. Told'
    <3>1. \A q \in Viewers \ {p} : Believes(q)' => Believes(q)
      BY <1>1, <2>2 DEF Believes, Letters, viewerVars
    <3> QED BY <1>1, <1>2, <2>8, <3>1 DEF Inv, Told, viewerVars
  <2>10. Listening'
    BY <1>1, <1>2, <2>1, <2>8 DEF Inv, TypeOK, Listening, viewerVars
  <2>11. NobodyWaitsForALoadedDocument'
    BY <1>1, <2>1 DEF Inv, NobodyWaitsForALoadedDocument
  <2>12. \A m \in Behind : GoodRequest(m)'
    <3>1. \A m \in Request : GoodRequest(m) => GoodRequest(m)'
      BY <1>1, <1>2, <2>1, <2>8 DEF GoodRequest, viewerVars
    <3> QED BY <1>3, <3>1
  <2>13. ~ OnTheBus(p) => GoodRequest(Message("Vanished", p, u))'
    BY <1>1, <1>2, MessageIsRequest DEF GoodRequest, OnTheBus, viewerVars, Inv, TypeOK
  <2>14. Message("Vanished", p, u).type # "Loaded"
    BY <1>2, MessageIsRequest
  <2> QED BY <1>2, <1>4, <2>3, <2>5, <2>7, <2>9, <2>10, <2>11, <2>12, <2>13, <2>14, DaemonStep
<1> QED BY <1>2, <1>5, <1>6 DEF HandleRegisterDocument

\* A record goes; its process is not running.
LEMMA ForgettingKeeps ==
    ASSUME Inv, NEW d \in docs, Forget(d), status[d.name] # "running",
           UNCHANGED <<running, viewerVars, pending>>,
           subs' = subs \/ subs' = subs \ {d.name},
           \A q \in Viewers : Believes(q)' => Believes(q)
    PROVE  /\ Records' /\ Told' /\ Listening' /\ NobodyWaitsForALoadedDocument'
           /\ docs' \subseteq Doc /\ holds' \in Nat /\ subs' \subseteq Viewers
           /\ \A q \in Viewers \ {d.name} : HasRecord(q) => HasRecord(q)'
<1>1. docs' = docs \ {d} /\ holds' = holds - 1
  BY DEF Forget
<1>2. d.name \in Viewers /\ d.uri = uri[d.name] /\ d = [name |-> d.name, uri |-> d.uri]
  BY DEF Inv, TypeOK, Doc, Records
<1>3. IsFiniteSet(docs') /\ Cardinality(docs') = Cardinality(docs) - 1
      /\ Cardinality(docs') \in Nat
  BY <1>1, FS_RemoveElement, FS_CardinalityType DEF Inv, Records
<1>4. HoldsAreRecords' /\ holds' \in Nat
  BY <1>1, <1>3 DEF Inv, Records, HoldsAreRecords
<1>5. Records'
  BY <1>1, <1>3, <1>4 DEF Inv, Records, viewerVars
<1>6. \A q \in Viewers \ {d.name} : HasRecord(q) => HasRecord(q)'
  BY <1>1, <1>2 DEF HasRecord, viewerVars
<1>7. Told' /\ Listening'
  BY <1>6 DEF Inv, TypeOK, Told, Listening, viewerVars
<1>8. NobodyWaitsForALoadedDocument'
  <2> SUFFICES ASSUME NEW e \in docs', e.name \notin subs' PROVE pending[e.uri] = {}
    BY DEF NobodyWaitsForALoadedDocument
  <2>1. e \in docs /\ e # d
    BY <1>1
  <2>2. e.name # d.name
    BY <2>1 DEF Inv, Records
  <2> QED BY <2>1, <2>2 DEF Inv, NobodyWaitsForALoadedDocument
<1> QED BY <1>1, <1>4, <1>5, <1>6, <1>7, <1>8 DEF Inv, TypeOK

LEMMA UnregisterKeepsInv ==
    ASSUME Inv, HandleUnregisterDocument
    PROVE  Inv'
<1> DEFINE p == Head(inbox).from
           d == [name |-> p, uri |-> Head(inbox).uri]
<1>1. NextRequest("Unregister") /\ UNCHANGED <<running, pending, viewerVars, waiting>>
      /\ inbox' = Tail(inbox) /\ mail' = Delivered(mail, p, Post("Unregistered", None))
  BY DEF HandleUnregisterDocument
<1>2. /\ inbox # <<>> /\ p \in Viewers /\ status[p] # "off" /\ Head(inbox).uri = uri[p]
  BY <1>1, SenderIsAProcess
<1>3. /\ Tail(inbox) \in Seq(Request) /\ GoodRequest(Head(inbox))
      /\ \A m \in Behind : m \in Request /\ GoodRequest(m)
  BY <1>2, RequestTaken
<1>4. status[p] \in {"closing", "gone"}
  BY <1>1, <1>2, <1>3 DEF GoodRequest, NextRequest
<1>5. /\ mail' \in [Viewers -> Seq(Letter)]
      /\ \A q \in Viewers :
           Post("Owner", None) \in Letters(mail', q) => Post("Owner", None) \in Letters(mail, q)
  <2> DEFINE l == Post("Unregistered", None)
  <2>1. l \in Letter /\ l # Post("Owner", None)
    BY LetterTypes
  <2>2. mail \in [Viewers -> Seq(Letter)] /\ mail' = Delivered(mail, p, l)
    BY <1>1 DEF Inv, TypeOK
  <2> HIDE DEF l, p
  <2> QED BY <1>2, <2>1, <2>2, LetterDelivered
<1>6. \A q \in Viewers : Believes(q)' => Believes(q)
  BY <1>1, <1>5 DEF Believes, Letters, viewerVars
<1>7. CASE d \in docs /\ Forget(d) /\ subs' = subs \ {p}
  <2>1. d.name = p
    OBVIOUS
  <2>2. /\ Records' /\ Told' /\ Listening' /\ NobodyWaitsForALoadedDocument'
        /\ docs' \subseteq Doc /\ holds' \in Nat /\ subs' \subseteq Viewers
        /\ \A q \in Viewers \ {p} : HasRecord(q) => HasRecord(q)'
    <3> HIDE DEF d, p
    <3> QED BY <1>1, <1>4, <1>6, <1>7, <2>1, ForgettingKeeps
  <2>3. TypeOK' /\ Documented'
    BY <1>1, <1>3, <1>5, <2>2 DEF Inv, TypeOK, Documented, viewerVars
  <2>4. \A m \in Request : GoodRequest(m) => GoodRequest(m)'
    BY <1>1, <1>7, <2>2 DEF GoodRequest, viewerVars
  <2> QED BY <1>1, <1>2, <1>3, <2>2, <2>3, <2>4, DaemonStep
<1>8. CASE UNCHANGED <<docs, holds, subs>>
  <2>1. TypeOK' /\ Documented'
    BY <1>1, <1>3, <1>5, <1>8 DEF Inv, TypeOK, Documented, viewerVars
  <2>2. Records' /\ Told' /\ Listening' /\ NobodyWaitsForALoadedDocument'
    BY <1>1, <1>6, <1>8 DEF Inv, Records, HoldsAreRecords, Told, Listening, HasRecord,
                            NobodyWaitsForALoadedDocument, viewerVars
  <2>3. \A m \in Request : GoodRequest(m) => GoodRequest(m)'
    BY <1>1, <1>8 DEF GoodRequest, HasRecord, viewerVars
  <2> QED BY <1>1, <1>2, <1>3, <2>1, <2>2, <2>3, DaemonStep
<1> QED BY <1>7, <1>8 DEF HandleUnregisterDocument

LEMMA VanishedKeepsInv ==
    ASSUME Inv, HandleNameVanished
    PROVE  Inv'
<1> DEFINE p == Head(inbox).from
<1>1. NextRequest("Vanished") /\ UNCHANGED <<running, subs, pending, mail, viewerVars, waiting>>
      /\ inbox' = Tail(inbox)
  BY DEF HandleNameVanished
<1>2. /\ inbox # <<>> /\ p \in Viewers
  BY <1>1, SenderIsAProcess
<1>3. /\ Tail(inbox) \in Seq(Request) /\ GoodRequest(Head(inbox))
      /\ \A m \in Behind : /\ m \in Request /\ GoodRequest(m)
                           /\ m.type = "Loaded" => m.from # p
  BY <1>1, <1>2, RequestTaken DEF NextRequest
<1>4. status[p] = "gone"
  BY <1>1, <1>2, <1>3 DEF GoodRequest, NextRequest
<1>5. \A q \in Viewers : Believes(q)' => Believes(q)
  BY <1>1 DEF Believes, Letters, viewerVars
<1>6. ASSUME NEW d \in docs, d.name = p, Forget(d) PROVE Inv'
  <2>1. /\ Records' /\ Told' /\ Listening' /\ NobodyWaitsForALoadedDocument'
        /\ docs' \subseteq Doc /\ holds' \in Nat /\ subs' \subseteq Viewers
        /\ \A q \in Viewers \ {p} : HasRecord(q) => HasRecord(q)'
    <3> HIDE DEF p
    <3> QED BY <1>1, <1>4, <1>5, <1>6, ForgettingKeeps
  <2>2. TypeOK' /\ Documented'
    BY <1>1, <1>3, <2>1 DEF Inv, TypeOK, Documented, viewerVars
  <2>3. \A m \in Request : GoodRequest(m) /\ (m.type = "Loaded" => m.from # p) => GoodRequest(m)'
    BY <1>1, <2>1 DEF GoodRequest, viewerVars
  <2> QED BY <1>1, <1>2, <1>3, <2>1, <2>2, <2>3, DaemonStep
<1>7. CASE UNCHANGED <<docs, holds>>
  <2>1. TypeOK' /\ Documented'
    BY <1>1, <1>3, <1>7 DEF Inv, TypeOK, Documented, viewerVars
  <2>2. Records' /\ Told' /\ Listening' /\ NobodyWaitsForALoadedDocument'
    BY <1>1, <1>5, <1>7 DEF Inv, Records, HoldsAreRecords, Told, Listening, HasRecord,
                            NobodyWaitsForALoadedDocument, viewerVars
  <2>3. \A m \in Request : GoodRequest(m) => GoodRequest(m)'
    BY <1>1, <1>7 DEF GoodRequest, HasRecord, viewerVars
  <2> QED BY <1>1, <1>2, <1>3, <2>1, <2>2, <2>3, DaemonStep
<1> QED BY <1>6, <1>7 DEF HandleNameVanished

LEMMA LoadedKeepsInv ==
    ASSUME Inv, HandleDocumentLoaded
    PROVE  Inv'
<1>1. NextRequest("Loaded") /\ UNCHANGED <<running, docs, holds, mail, viewerVars>>
      /\ inbox' = Tail(inbox)
  BY DEF HandleDocumentLoaded
<1>2. PICK p \in Viewers, u \in Uris :
         /\ p = Head(inbox).from /\ u = Head(inbox).uri
         /\ inbox # <<>> /\ status[p] # "off" /\ u = uri[p]
  BY <1>1, SenderIsAProcess
<1>3. /\ Tail(inbox) \in Seq(Request)
      /\ \A m \in Behind : m \in Request /\ GoodRequest(m)
  BY <1>2, RequestTaken
<1>4. \/ /\ waiting' = waiting \ pending[u]
         /\ pending' = [pending EXCEPT ![u] = {}]
         /\ subs' = subs \ {p}
      \/ UNCHANGED <<waiting, pending, subs>>
  BY <1>2 DEF HandleDocumentLoaded
<1>5. TypeOK' /\ Documented'
  <2>1. subs' \subseteq Viewers /\ waiting' \subseteq Callers
        /\ pending' \in [Uris -> SUBSET Callers]
    BY <1>4 DEF Inv, TypeOK
  <2> QED BY <1>1, <1>3, <2>1 DEF Inv, TypeOK, Documented, viewerVars
<1>6. \A q \in Viewers : Believes(q)' => Believes(q)
  BY <1>1 DEF Believes, Letters, viewerVars
<1>7. Records' /\ Told' /\ Listening'
  BY <1>1, <1>4, <1>6 DEF Inv, TypeOK, Records, HoldsAreRecords, Told, Listening, HasRecord, viewerVars
<1>8. NobodyWaitsForALoadedDocument'
  <2> SUFFICES ASSUME NEW d \in docs', d.name \notin subs' PROVE pending'[d.uri] = {}
    BY DEF NobodyWaitsForALoadedDocument
  <2>1. d \in docs /\ d.uri \in Uris /\ d.uri = uri[d.name]
    BY <1>1 DEF Inv, TypeOK, Doc, Records
  <2>2. CASE UNCHANGED <<waiting, pending, subs>>
    BY <2>1, <2>2 DEF Inv, NobodyWaitsForALoadedDocument
  <2>3. CASE pending' = [pending EXCEPT ![u] = {}] /\ subs' = subs \ {p}
    BY <1>2, <2>1, <2>3 DEF Inv, TypeOK, NobodyWaitsForALoadedDocument
  <2> QED BY <1>4, <2>2, <2>3
<1>9. \A m \in Request : GoodRequest(m) => GoodRequest(m)'
  BY <1>1, <1>4 DEF GoodRequest, HasRecord, viewerVars
<1> QED BY <1>1, <1>2, <1>3, <1>5, <1>7, <1>8, <1>9, DaemonStep

LEMMA FindKeepsInv ==
    ASSUME Inv, HandleFindDocument
    PROVE  Inv'
<1>1. inbox # <<>> /\ UNCHANGED <<running, docs, subs, holds, mail>>
      /\ Head(inbox).type \in {"Find", "FindOrSpawn"}
  BY DEF HandleFindDocument
<1>2. /\ Tail(inbox) \in Seq(Request) /\ Head(inbox) \in Request
      /\ \A m \in Behind : m \in Request /\ GoodRequest(m)
  BY <1>1, RequestTaken
<1>3. PICK c \in Callers, u \in Uris : c = Head(inbox).from /\ u = Head(inbox).uri
  BY <1>1, <1>2 DEF Request
<1>4. \/ pending' = pending
      \/ ~ Registered(u) /\ \E C \in SUBSET Callers : pending' = [pending EXCEPT ![u] = C]
  BY <1>3 DEF HandleFindDocument, Inv, TypeOK
<1>5. NobodyWaitsForALoadedDocument' /\ pending' \in [Uris -> SUBSET Callers]
  <2>1. pending \in [Uris -> SUBSET Callers] /\ \A d \in docs : d.uri \in Uris
    BY DEF Inv, TypeOK, Doc
  <2>2. NobodyWaitsForALoadedDocument
    BY DEF Inv
  <2>3. CASE pending' = pending
    BY <1>1, <2>1, <2>2, <2>3 DEF NobodyWaitsForALoadedDocument
  <2>4. ASSUME ~ Registered(u), NEW C \in SUBSET Callers, pending' = [pending EXCEPT ![u] = C]
        PROVE  NobodyWaitsForALoadedDocument' /\ pending' \in [Uris -> SUBSET Callers]
    BY <1>1, <2>1, <2>2, <2>4 DEF NobodyWaitsForALoadedDocument, Registered
  <2> QED BY <1>4, <2>3, <2>4
<1>6. waiting' \subseteq Callers
  BY DEF HandleFindDocument, Inv, TypeOK
<1>7. CASE inbox' = Tail(inbox) /\ UNCHANGED viewerVars
  <2>1. TypeOK' /\ Documented'
    BY <1>1, <1>2, <1>5, <1>6, <1>7 DEF Inv, TypeOK, Documented, viewerVars
  <2>2. Records' /\ Told' /\ Listening'
    BY <1>1, <1>7 DEF Inv, Records, HoldsAreRecords, Told, Believes, Letters, Listening,
                      HasRecord, viewerVars
  <2>3. \A m \in Request : GoodRequest(m) => GoodRequest(m)'
    BY <1>1, <1>7 DEF GoodRequest, HasRecord, viewerVars
  <2> QED BY <1>1, <1>2, <1>5, <1>7, <2>1, <2>2, <2>3, DaemonStep
<1>8. ASSUME NEW p \in Viewers, Started(p, u),
             inbox' = Append(Tail(inbox), Message("Register", p, u))
      PROVE  Inv'
  <2> DEFINE m == Message("Register", p, u)
  <2>1. m \in Request /\ m.type = "Register" /\ m.from = p /\ m.uri = u
    BY MessageIsRequest
  <2>2. status[p] = "off" /\ status' = [status EXCEPT ![p] = "running"]
        /\ uri' = [uri EXCEPT ![p] = u] /\ calls' = [calls EXCEPT ![p] = 1]
        /\ UNCHANGED <<registered, windows>>
    BY <1>8 DEF Started
  <2>3. inbox' \in Seq(Request)
    BY <1>2, <1>8, <2>1, AppendElements
  <2>4. TypeOK' /\ Documented'
    BY <1>1, <1>5, <1>6, <2>2, <2>3 DEF Inv, TypeOK, Documented
  <2>5. \A q \in Viewers : status[q] # "off" =>
          status'[q] = status[q] /\ uri'[q] = uri[q] /\ (HasRecord(q)' <=> HasRecord(q))
    BY <1>1, <2>2 DEF Inv, TypeOK, HasRecord
  <2>6. \A d \in docs : d.name \in Viewers
    BY DEF Inv, TypeOK, Doc
  <2>7. Records'
    BY <1>1, <2>5, <2>6 DEF Inv, Records, HoldsAreRecords
  <2>8. \A q \in Viewers : Believes(q)' => Believes(q)
    BY <1>1, <2>2 DEF Believes, Letters
  <2>9. Told' /\ Listening'
    BY <1>1, <2>5, <2>8 DEF Inv, TypeOK, Told, Listening
  <2>10. \A n \in Request : GoodRequest(n) => GoodRequest(n)'
    BY <1>1, <2>5 DEF GoodRequest
  <2>11. GoodRequest(m)'
    BY <2>1, <2>2 DEF GoodRequest, Inv, TypeOK
  <2>12. inbox' = Append(Tail(inbox), m)
    BY <1>8
  <2> HIDE DEF m
  <2>13. m.type # "Loaded"
    BY <2>1
  <2> QED BY <1>1, <1>2, <1>5, <2>1, <2>4, <2>7, <2>9, <2>10, <2>11, <2>12, <2>13, DaemonStep
<1> QED BY <1>3, <1>7, <1>8 DEF HandleFindDocument

LEMMA StartKeepsInv ==
    ASSUME Inv, StartDaemon
    PROVE  Inv'
<1>1. running' = TRUE /\ UNCHANGED <<docs, subs, holds, pending, inbox, mail, viewerVars, waiting>>
  BY DEF StartDaemon
<1>2. TypeOK' /\ Documented'
  BY <1>1 DEF Inv, TypeOK, Documented, viewerVars
<1>3. Records'
  BY <1>1 DEF Inv, Records, HoldsAreRecords, viewerVars
<1>4. Told' /\ Listening' /\ NobodyWaitsForALoadedDocument' /\ Ordered(inbox)'
  BY <1>1 DEF Inv, Told, Believes, Letters, Listening, HasRecord, Ordered,
              NobodyWaitsForALoadedDocument, viewerVars
<1>5. Requests'
  <2>1. \A m \in Request : GoodRequest(m) => GoodRequest(m)'
    BY <1>1 DEF GoodRequest, HasRecord, viewerVars
  <2> QED BY <1>1, <2>1 DEF Inv, TypeOK, Requests
<1> QED BY <1>2, <1>3, <1>4, <1>5 DEF Inv

\* The daemon leaves when it has no record, so there is nothing to be wrong about.
LEMMA ExitKeepsInv ==
    ASSUME Inv, ExitWhenIdle
    PROVE  Inv'
<1>1. /\ docs' = {} /\ subs' = {} /\ inbox' = <<>> /\ waiting' = {}
      /\ running' = FALSE /\ holds = 0
      /\ pending' = [u \in Uris |-> {}]
      /\ UNCHANGED <<holds, viewerVars>>
  BY DEF ExitWhenIdle
<1>2. docs = {}
  BY <1>1, FS_EmptySet DEF Inv, Records, HoldsAreRecords
<1>3. \A p \in Viewers :
        /\ mail'[p] \in Seq(Letter)
        /\ \A k \in DOMAIN mail'[p] :
             mail'[p][k] = Post("Owner", None) => k \in DOMAIN mail[p] /\ mail[p][k] = mail'[p][k]
  <2> SUFFICES ASSUME NEW p \in Viewers
               PROVE  /\ mail'[p] \in Seq(Letter)
                      /\ \A k \in DOMAIN mail'[p] :
                           mail'[p][k] = Post("Owner", None)
                             => k \in DOMAIN mail[p] /\ mail[p][k] = mail'[p][k]
    OBVIOUS
  <2> DEFINE f == Post("RegisterFailed", None)
             n == Post("Unregistered", None)
  <2>1. /\ f \in Letter /\ f # Post("Owner", None)
        /\ n \in Letter /\ n # Post("Owner", None)
    BY LetterTypes
  <2>2. PICK a \in Nat, b \in Nat :
          /\ Lost(p, "Register", "RegisterFailed") = [k \in 1 .. a |-> f]
          /\ Lost(p, "Unregister", "Unregistered") = [k \in 1 .. b |-> n]
    <3>1. \A t \in {"Register", "Unregister"} :
            Cardinality({k \in DOMAIN inbox : inbox[k].type = t /\ inbox[k].from = p}) \in Nat
      <4> TAKE t \in {"Register", "Unregister"}
      <4>1. {k \in DOMAIN inbox : inbox[k].type = t /\ inbox[k].from = p} \in SUBSET DOMAIN inbox
        OBVIOUS
      <4> QED BY <4>1, CountIsNat DEF Inv, TypeOK
    <3> QED BY <3>1 DEF Lost
  <2>3. \/ mail'[p] = mail[p]
        \/ mail'[p] = mail[p] \o [k \in 1 .. a |-> f] \o [k \in 1 .. b |-> n]
    BY <2>2 DEF ExitWhenIdle
  <2>4. mail[p] \in Seq(Letter)
    BY DEF Inv, TypeOK
  <2> HIDE DEF f, n
  <2> DEFINE q == mail[p] \o [k \in 1 .. a |-> f]
  <2>5. /\ q \in Seq(Letter)
        /\ \A k \in DOMAIN q : (k \in DOMAIN mail[p] /\ q[k] = mail[p][k]) \/ q[k] = f
    BY <2>1, <2>4, LettersAdded
  <2> DEFINE r == q \o [k \in 1 .. b |-> n]
  <2> HIDE DEF q
  <2>6. /\ r \in Seq(Letter)
        /\ \A k \in DOMAIN r : (k \in DOMAIN q /\ r[k] = q[k]) \/ r[k] = n
    BY <2>1, <2>5, LettersAdded
  <2>7. mail'[p] = mail[p] \/ mail'[p] = r
    BY <2>3 DEF q
  <2> HIDE DEF r
  <2> QED BY <2>1, <2>4, <2>5, <2>6, <2>7
<1>4. mail' \in [Viewers -> Seq(Letter)]
  <2>1. mail' = [p \in Viewers |-> mail'[p]]
    BY DEF ExitWhenIdle
  <2> QED BY <2>1, <1>3
<1>5. TypeOK' /\ Documented'
  <2>1. <<>> \in Seq(Request)
    OBVIOUS
  <2> QED BY <1>1, <1>4, <2>1 DEF Inv, TypeOK, Documented, viewerVars
<1>6. Records'
  BY <1>1, FS_EmptySet DEF Records, HoldsAreRecords
<1>7. Requests' /\ Ordered(inbox)' /\ Listening' /\ NobodyWaitsForALoadedDocument'
  BY <1>1 DEF Requests, Ordered, Listening, NobodyWaitsForALoadedDocument
<1>8. Told'
  <2>1. \A p \in Viewers : Believes(p)' => Believes(p)
    BY <1>1, <1>3 DEF Believes, Letters, viewerVars
  <2> QED BY <1>1, <1>2, <2>1 DEF Inv, Told, HasRecord, viewerVars
<1> QED BY <1>5, <1>6, <1>7, <1>8 DEF Inv

-----------------------------------------------------------------------------
(* The theorems *)

LEMMA InitHasInv == Init => Inv
<1> SUFFICES ASSUME Init PROVE Inv
  OBVIOUS
<1>1. TypeOK /\ Documented
  <2>1. <<>> \in Seq(Request) /\ <<>> \in Seq(Letter)
    OBVIOUS
  <2>2. mail \in [Viewers -> Seq(Letter)] /\ inbox \in Seq(Request)
    BY <2>1 DEF Init
  <2>3. /\ running \in BOOLEAN /\ docs \subseteq Doc /\ subs \subseteq Viewers /\ holds \in Nat
        /\ waiting \subseteq Callers
    BY DEF Init
  <2>4. pending \in [Uris -> SUBSET Callers]
    BY DEF Init
  <2>5. status \in [Viewers -> {"off", "running", "closing", "gone"}] /\ Documented
    BY DEF Init, Documented
  <2>6. /\ uri \in [Viewers -> Uris \cup {None}] /\ registered \in [Viewers -> BOOLEAN]
        /\ calls \in [Viewers -> Int]
    BY DEF Init
  <2>7. windows \in [Viewers -> {"none", "loading", "open"}]
    BY DEF Init
  <2> QED BY <2>2, <2>3, <2>4, <2>5, <2>6, <2>7 DEF TypeOK
<1>2. Records
  BY FS_EmptySet DEF Init, Records, HoldsAreRecords
<1>3. Requests /\ Ordered(inbox) /\ Listening /\ NobodyWaitsForALoadedDocument
  BY DEF Init, Requests, Ordered, Listening, NobodyWaitsForALoadedDocument
<1>4. Told
  BY DEF Init, Told, Believes, Letters
<1> QED BY <1>1, <1>2, <1>3, <1>4 DEF Inv

LEMMA NextKeepsInv == Inv /\ [Next]_vars => Inv'
<1> SUFFICES ASSUME Inv, [Next]_vars PROVE Inv'
  OBVIOUS
<1>1. CASE Daemon
  BY <1>1, RegisterKeepsInv, UnregisterKeepsInv, FindKeepsInv, LoadedKeepsInv,
     VanishedKeepsInv DEF Daemon
<1>2. CASE StartDaemon
  BY <1>2, StartKeepsInv
<1>3. CASE ExitWhenIdle
  BY <1>3, ExitKeepsInv
<1>4. CASE \E p \in Viewers, u \in Uris : Launch(p, u)
  BY <1>4, LaunchKeepsInv
<1>5. ASSUME NEW p \in Viewers, Viewer(p) PROVE Inv'
  <2>1. CASE EndShutdown(p) \/ Crash(p)
    <3>1. /\ OnTheBus(p) /\ LeaveBus(p)
          /\ UNCHANGED <<daemonVars, uri, registered, calls, waiting>>
      BY <2>1 DEF EndShutdown, Crash, OnTheBus
    <3> QED BY <3>1, LeavingKeepsInv
  <2> QED BY <1>5, <2>1, OpenAgainKeepsInv, AnswerKeepsInv, LoadingKeepsInv, ShutdownKeepsInv
          DEF Viewer
<1>6. CASE \E c \in Callers, u \in Uris, spawn \in BOOLEAN : FindDocument(c, u, spawn)
  BY <1>6, FindDocumentKeepsInv
<1>7. CASE UNCHANGED vars
  <2>1. UNCHANGED <<daemonVars, inbox, mail, viewerVars, waiting>>
    BY <1>7 DEF vars, daemonVars, viewerVars
  <2>2. TypeOK' /\ Documented' /\ Onward
    BY <2>1 DEF Inv, TypeOK, Documented, Onward, daemonVars, viewerVars
  <2>3. \A p \in Viewers : Believes(p)' => Believes(p)
    BY <2>1 DEF Believes, Letters, viewerVars
  <2> QED BY <2>1, <2>2, <2>3, ProcessStep
<1> QED BY <1>1, <1>2, <1>3, <1>4, <1>5, <1>6, <1>7 DEF Next

\* The inductive invariant holds in every state.
THEOREM InvHolds == Spec => []Inv
  BY InitHasInv, NextKeepsInv, PTL DEF Spec

\* The types: what is sent and kept by the daemon, the bus and the processes.
THEOREM TypeCorrect == Spec => []TypeOK
<1>1. Inv => TypeOK
  BY DEF Inv
<1> QED BY <1>1, InvHolds, PTL

\* A running process that believes its document registered in its name is
\* right, so no two of them believe it of one document; the daemon that knows
\* of it runs (ev_daemon_application, doc_registered).
THEOREM OwnersAreAlwaysRight == Spec => []OwnersAreRight
<1>1. Inv => OwnersAreRight
  BY DEF Inv, OwnersAreRight, Told, Believes, HasRecord, Records
<1> QED BY <1>1, InvHolds, PTL

\* Nobody waits for a document that has been reported as loaded
\* (process_pending_invocations, handle_find_document_cb).
THEOREM LoadedDocumentsAreAnswered == Spec => []NobodyWaitsForALoadedDocument
<1>1. Inv => NobodyWaitsForALoadedDocument
  BY DEF Inv
<1> QED BY <1>1, InvHolds, PTL

\* The record that document_loaded_cb uses is there, and the sender's.
THEOREM LoadedAlwaysFindsItsRecord == Spec => []LoadedFindsItsRecord
<1>1. Inv => LoadedFindsItsRecord
  <2> SUFFICES ASSUME Inv, running, inbox # <<>>, Head(inbox).type = "Loaded",
                      Head(inbox).from \in subs
               PROVE  [name |-> Head(inbox).from, uri |-> Head(inbox).uri] \in docs
    BY DEF LoadedFindsItsRecord
  <2>1. NextRequest("Loaded")
    BY DEF NextRequest
  <2>2. Head(inbox).from \in Viewers /\ Head(inbox).uri = uri[Head(inbox).from]
    BY <2>1, SenderIsAProcess
  <2>3. GoodRequest(Head(inbox))
    BY RequestTaken
  <2> QED BY <2>2, <2>3 DEF GoodRequest, HasRecord
<1> QED BY <1>1, InvHolds, PTL

\* The daemon holds itself once for every record (g_application_hold and
\* g_application_release).
THEOREM HoldsAreAlwaysRecords == Spec => []HoldsAreRecords
<1>1. Inv => HoldsAreRecords
  BY DEF Inv, Records
<1> QED BY <1>1, InvHolds, PTL

\* The records, the holds and what the processes believe agree in every state.
THEOREM RecordsAreAlwaysRight == Spec => []RecordsAreRight
<1>1. TypeOK /\ OwnersAreRight /\ LoadedFindsItsRecord /\ HoldsAreRecords
        => RecordsAreRight
  BY DEF RecordsAreRight
<1> QED
  BY <1>1, TypeCorrect, OwnersAreAlwaysRight, LoadedAlwaysFindsItsRecord,
     HoldsAreAlwaysRecords, PTL

-----------------------------------------------------------------------------
(* The registry is one of owners *)

LEMMA OwnersAreNames ==
    ASSUME NEW D \in SUBSET Doc, \A d, e \in D : d.uri = e.uri => d = e
    PROVE  /\ \A d \in D : OwnersIn(D)[d.uri] = d.name
           /\ \A u \in Uris : (\A d \in D : d.uri # u) => OwnersIn(D)[u] = None
           /\ \A u \in Uris : OwnersIn(D)[u] # None =>
                \E d \in D : d.uri = u /\ d.name = OwnersIn(D)[u]
  BY DEF OwnersIn, Doc

LEMMA OwnersAfterRecord ==
    ASSUME NEW D \in SUBSET Doc, \A d, e \in D : d.uri = e.uri => d = e,
           NEW d \in Doc, \A e \in D : e.uri # d.uri
    PROVE  OwnersIn(D \cup {d}) = [OwnersIn(D) EXCEPT ![d.uri] = d.name]
<1> DEFINE E == D \cup {d}
<1>1. E \in SUBSET Doc /\ \A a, b \in E : a.uri = b.uri => a = b
  OBVIOUS
<1>2. \A u \in Uris : OwnersIn(E)[u] = IF u = d.uri THEN d.name ELSE OwnersIn(D)[u]
  <2> TAKE u \in Uris
  <2>1. CASE u = d.uri
    BY <1>1, <2>1, OwnersAreNames
  <2>2. CASE u # d.uri /\ \E e \in D : e.uri = u
    BY <1>1, <2>2, OwnersAreNames
  <2>3. CASE u # d.uri /\ \A e \in D : e.uri # u
    BY <1>1, <2>3, OwnersAreNames
  <2> QED BY <2>1, <2>2, <2>3
<1> HIDE DEF E
<1>3. OwnersIn(E) = [OwnersIn(D) EXCEPT ![d.uri] = d.name]
  BY <1>2 DEF OwnersIn
<1> QED BY <1>3 DEF E

LEMMA OwnersAfterForget ==
    ASSUME NEW D \in SUBSET Doc, \A d, e \in D : d.uri = e.uri => d = e, NEW d \in D
    PROVE  OwnersIn(D \ {d}) = [OwnersIn(D) EXCEPT ![d.uri] = None]
<1> DEFINE E == D \ {d}
<1>1. E \in SUBSET Doc /\ \A a, b \in E : a.uri = b.uri => a = b
  OBVIOUS
<1>2. \A u \in Uris : OwnersIn(E)[u] = IF u = d.uri THEN None ELSE OwnersIn(D)[u]
  <2> TAKE u \in Uris
  <2>1. CASE u = d.uri
    BY <1>1, <2>1, OwnersAreNames
  <2>2. CASE u # d.uri /\ \E e \in D : e.uri = u
    BY <1>1, <2>2, OwnersAreNames
  <2>3. CASE u # d.uri /\ \A e \in D : e.uri # u
    BY <1>1, <2>3, OwnersAreNames
  <2> QED BY <2>1, <2>2, <2>3
<1> HIDE DEF E
<1>3. OwnersIn(E) = [OwnersIn(D) EXCEPT ![d.uri] = None]
  BY <1>2 DEF OwnersIn
<1> QED BY <1>3 DEF E

LEMMA RecordIsAcquired ==
    ASSUME Inv, HandleRegisterDocument
    PROVE  [Ownership!Next]_(Ownership!vars)
<1>1. NextRequest("Register") /\ UNCHANGED viewerVars
  BY DEF HandleRegisterDocument
<1>2. PICK p \in Viewers, u \in Uris :
        p = Head(inbox).from /\ u = Head(inbox).uri /\ u = uri[p]
  BY <1>1, SenderIsAProcess
<1>3. CASE AnswerOwner(p, u)
  BY <1>1, <1>3 DEF AnswerOwner, viewerVars, Leaving, Ownership!vars
<1>4. CASE ~ Registered(u) /\ Record(p, u)
  <2> DEFINE d == [name |-> p, uri |-> u]
  <2>1. docs \in SUBSET Doc /\ \A a, b \in docs : a.uri = b.uri => a = b
    BY DEF Inv, TypeOK, Records
  <2>2. d \in Doc /\ \A e \in docs : e.uri # d.uri
    BY <1>4 DEF Doc, Registered
  <2>3. OwnersIn(docs \cup {d}) = [OwnersIn(docs) EXCEPT ![u] = p]
    BY <2>1, <2>2, OwnersAfterRecord
  <2>4. OwnersIn(docs)[u] = None
    BY <2>1, <2>2, OwnersAreNames
  <2>5. \A v \in Uris : OwnersIn(docs)[v] # p
    <3> SUFFICES ASSUME NEW v \in Uris, OwnersIn(docs)[v] = p PROVE FALSE
      OBVIOUS
    <3>1. PICK e \in docs : e.uri = v /\ e.name = p
      BY <2>1, OwnersAreNames, RegistryAssumption
    <3>2. e.uri = u
      BY <1>2, <3>1 DEF Inv, Records
    <3> QED BY <2>2, <3>2
  <2>6. Leaving' = Leaving
    BY <1>1 DEF Leaving, viewerVars
  <2>7. Ownership!Acquire(p, u)
    BY <1>4, <2>3, <2>4, <2>5, <2>6 DEF Ownership!Acquire, Record
  <2> QED BY <2>7 DEF Ownership!Next
<1> QED BY <1>2, <1>3, <1>4 DEF HandleRegisterDocument

LEMMA ForgettingIsReleasing ==
    ASSUME Inv, NEW d \in docs, Forget(d), status[d.name] \in {"closing", "gone"},
           UNCHANGED viewerVars
    PROVE  Ownership!Next
<1>1. docs \in SUBSET Doc /\ \A a, b \in docs : a.uri = b.uri => a = b
  BY DEF Inv, TypeOK, Records
<1>2. OwnersIn(docs)' = [OwnersIn(docs) EXCEPT ![d.uri] = None]
  BY <1>1, OwnersAfterForget DEF Forget
<1>3. d.uri \in Uris /\ d.name \in Viewers /\ OwnersIn(docs)[d.uri] = d.name
  BY <1>1, OwnersAreNames DEF Doc
<1>4. Leaving' = Leaving /\ d.name \in Leaving
  BY <1>3 DEF Leaving, viewerVars
<1>5. Ownership!Release(d.uri)
  BY <1>2, <1>3, <1>4 DEF Ownership!Release
<1> QED BY <1>3, <1>5 DEF Ownership!Next

\* What leaves the records alone is a process that leaves, or nothing.
LEMMA OthersLeaveOrStutter ==
    ASSUME UNCHANGED docs,
           \/ Leaving' = Leaving
           \/ \E p \in Viewers : Leaving' = Leaving \cup {p}
    PROVE  [Ownership!Next]_(Ownership!vars)
<1>1. OwnersIn(docs)' = OwnersIn(docs)
  OBVIOUS
<1>2. CASE Leaving' = Leaving
  BY <1>1, <1>2 DEF Ownership!vars
<1>3. CASE \E p \in Viewers : Leaving' = Leaving \cup {p}
  BY <1>1, <1>3 DEF Ownership!Next, Ownership!Leave
<1> QED BY <1>2, <1>3

LEMMA StepsAreOwnershipSteps ==
    ASSUME Inv, [Next]_vars
    PROVE  [Ownership!Next]_(Ownership!vars)
<1>1. CASE HandleRegisterDocument
  BY <1>1, RecordIsAcquired
<1>2. CASE HandleUnregisterDocument
  <2>1. /\ NextRequest("Unregister") /\ UNCHANGED viewerVars
    BY <1>2 DEF HandleUnregisterDocument
  <2>2. PICK p \in Viewers : p = Head(inbox).from
    BY <2>1, SenderIsAProcess
  <2>3. status[p] \in {"closing", "gone"}
    BY <2>1, <2>2, RequestTaken DEF GoodRequest, NextRequest
  <2>4. \/ \E d \in docs : d.name = p /\ Forget(d)
        \/ UNCHANGED docs
    BY <1>2, <2>2 DEF HandleUnregisterDocument
  <2>5. Leaving' = Leaving
    BY <2>1 DEF Leaving, viewerVars
  <2> QED BY <2>1, <2>3, <2>4, <2>5, ForgettingIsReleasing, OthersLeaveOrStutter
<1>3. CASE HandleNameVanished
  <2>1. /\ NextRequest("Vanished") /\ UNCHANGED viewerVars
    BY <1>3 DEF HandleNameVanished
  <2>2. PICK p \in Viewers : p = Head(inbox).from
    BY <2>1, SenderIsAProcess
  <2>3. status[p] = "gone"
    BY <2>1, <2>2, RequestTaken DEF GoodRequest, NextRequest
  <2>4. \/ \E d \in docs : d.name = p /\ Forget(d)
        \/ UNCHANGED docs
    BY <1>3, <2>2 DEF HandleNameVanished
  <2>5. Leaving' = Leaving
    BY <2>1 DEF Leaving, viewerVars
  <2> QED BY <2>1, <2>3, <2>4, <2>5, ForgettingIsReleasing, OthersLeaveOrStutter
<1>4. CASE HandleFindDocument
  <2>1. UNCHANGED docs
    BY <1>4 DEF HandleFindDocument
  <2>2. \/ UNCHANGED status
        \/ \E p \in Viewers : status[p] = "off" /\ status' = [status EXCEPT ![p] = "running"]
    BY <1>4 DEF HandleFindDocument, Started, viewerVars
  <2>3. Leaving' = Leaving
    BY <2>2 DEF Leaving, Inv, TypeOK
  <2> QED BY <2>1, <2>3, OthersLeaveOrStutter
<1>5. CASE HandleDocumentLoaded \/ StartDaemon
  BY <1>5, OthersLeaveOrStutter DEF HandleDocumentLoaded, StartDaemon, viewerVars, Leaving
<1>6. CASE ExitWhenIdle
  <2>1. docs = {} /\ docs' = {} /\ UNCHANGED viewerVars
    BY <1>6, FS_EmptySet DEF ExitWhenIdle, Inv, Records, HoldsAreRecords
  <2> QED BY <2>1, OthersLeaveOrStutter DEF viewerVars, Leaving
<1>7. ASSUME NEW p \in Viewers, NEW u \in Uris, Launch(p, u)
      PROVE  [Ownership!Next]_(Ownership!vars)
  <2>1. UNCHANGED docs /\ status[p] = "off" /\ status' = [status EXCEPT ![p] = "running"]
    BY <1>7 DEF Launch, Started, daemonVars
  <2>2. Leaving' = Leaving
    BY <2>1 DEF Leaving, Inv, TypeOK
  <2> QED BY <2>1, <2>2, OthersLeaveOrStutter
<1>8. ASSUME NEW p \in Viewers, Viewer(p)
      PROVE  [Ownership!Next]_(Ownership!vars)
  <2>1. UNCHANGED docs
    BY <1>8 DEF Viewer, OpenAgain, Answer, OnRegisterFailed, OnRegisterUri, HandleReload,
                OnReload, LoadSucceeds, LoadFails, CloseWindow, Shutdown, EndShutdown, Crash,
                daemonVars
  <2>2. \/ UNCHANGED status
        \/ status' = [status EXCEPT ![p] = "closing"]
        \/ status' = [status EXCEPT ![p] = "gone"]
    BY <1>8 DEF Viewer, OpenAgain, Answer, OnRegisterFailed, OnRegisterUri, HandleReload,
                OnReload, LoadSucceeds, LoadFails, CloseWindow, Shutdown, EndShutdown, Crash,
                LeaveBus, viewerVars
  <2>3. Leaving' = Leaving \/ Leaving' = Leaving \cup {p}
    BY <2>2 DEF Leaving, Inv, TypeOK
  <2> QED BY <2>1, <2>3, OthersLeaveOrStutter
<1>9. CASE \E c \in Callers, u \in Uris, spawn \in BOOLEAN : FindDocument(c, u, spawn)
  BY <1>9, OthersLeaveOrStutter DEF FindDocument, daemonVars, viewerVars, Leaving
<1>10. CASE UNCHANGED vars
  BY <1>10, OthersLeaveOrStutter DEF vars, Leaving
<1> QED BY <1>1, <1>2, <1>3, <1>4, <1>5, <1>6, <1>7, <1>8, <1>9, <1>10 DEF Next, Daemon

\* The registry is one of owners: every step of the daemon and the processes
\* gives a document to somebody while it has no owner, takes it from one that
\* is leaving, or leaves the owners alone.
THEOREM RegistryIsOwnership == Spec => ImplementsOwnership
<1>1. Init => Ownership!Init
  BY DEF Init, Ownership!Init, OwnersIn, Leaving
<1>2. Inv /\ [Next]_vars => [Ownership!Next]_(Ownership!vars)
  BY StepsAreOwnershipSteps
<1> QED BY <1>1, <1>2, InvHolds, PTL DEF Spec, ImplementsOwnership, Ownership!Spec

=============================================================================
