------------------------------ MODULE TabStrip ------------------------------
(***************************************************************************)
(* What a tab manager promises to its observers: a row of distinct tabs,   *)
(* one of which is active unless the row is empty, and the tab that        *)
(* observers were last told to be the active one is the active one.        *)
(* Closing the active tab activates its left neighbour, or the right one   *)
(* when there is none to the left.  TabManager implements this.            *)
(***************************************************************************)
EXTENDS Integers, Sequences, SequencesExt

CONSTANTS
    Tabs,   \* all tabs there can be
    None    \* no tab

VARIABLES
    strip,      \* the row of tabs
    active,     \* the active one, or None
    announced   \* the tab of the last announcement

vars == <<strip, active, announced>>

Init ==
    /\ strip = <<>>
    /\ active = None
    /\ announced = None

\* A new tab comes at the right end and is active.
Show(tab) ==
    /\ tab \in Tabs
    /\ \A k \in DOMAIN strip : strip[k] # tab
    /\ strip' = Append(strip, tab)
    /\ active' = tab
    /\ announced' = tab

Select(k) ==
    /\ active' = strip[k]
    /\ announced' = strip[k]
    /\ UNCHANGED strip

\* The tab that takes over when the active one, at place k, is closed.
Heir(k) ==
    IF Len(strip) = 1 THEN None
    ELSE IF k = 1 THEN strip[2] ELSE strip[k - 1]

Close(k) ==
    /\ strip' = RemoveAt(strip, k)
    /\ active' = IF strip[k] = active THEN Heir(k) ELSE active
    /\ announced' = active'

\* The same tabs in another order.
Rearrange ==
    /\ Len(strip') = Len(strip)
    /\ \A j \in DOMAIN strip : \E k \in DOMAIN strip' : strip'[k] = strip[j]
    /\ UNCHANGED <<active, announced>>

\* The program ends; the next one starts with an empty row.
Restart ==
    /\ strip' = <<>>
    /\ active' = None
    /\ announced' = None

Next ==
    \/ \E tab \in Tabs : Show(tab)
    \/ \E k \in DOMAIN strip : Select(k) \/ Close(k)
    \/ Rearrange
    \/ Restart

Spec == Init /\ [][Next]_vars

=============================================================================
