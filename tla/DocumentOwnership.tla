------------------------- MODULE DocumentOwnership -------------------------
(***************************************************************************)
(* What the registry of documents promises: a document has at most one     *)
(* owner, a process owns at most one document, ownership never passes from *)
(* one process to another without having been given up, it is given up     *)
(* only by an owner that is leaving.  DocumentRegistry implements this.    *)
(***************************************************************************)
CONSTANTS
    Viewers,    \* the processes
    Uris,       \* the documents
    None        \* nobody

VARIABLES
    owner,      \* document -> its owner, or None
    leaving     \* the processes that have begun to leave, or have left

vars == <<owner, leaving>>

Init ==
    /\ owner = [u \in Uris |-> None]
    /\ leaving = {}

\* A process may have gone when its request is granted.
Acquire(p, u) ==
    /\ owner[u] = None
    /\ \A v \in Uris : owner[v] # p
    /\ owner' = [owner EXCEPT ![u] = p]
    /\ UNCHANGED leaving

Leave(p) ==
    /\ leaving' = leaving \cup {p}
    /\ UNCHANGED owner

Release(u) ==
    /\ owner[u] \in leaving
    /\ owner' = [owner EXCEPT ![u] = None]
    /\ UNCHANGED leaving

Next ==
    \/ \E p \in Viewers, u \in Uris : Acquire(p, u)
    \/ \E p \in Viewers : Leave(p)
    \/ \E u \in Uris : Release(u)

Spec == Init /\ [][Next]_vars

=============================================================================
