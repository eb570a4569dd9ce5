----------------------------- MODULE WorkQueue -----------------------------
(***************************************************************************)
(* What a job scheduler promises about the entries handed to it: each      *)
(* entry is submitted once and then leaves by exactly one of two doors.    *)
(* Either it is taken, worked on and retired by whoever took it, or it is  *)
(* withdrawn while it still waits.  Nobody works on a withdrawn entry,     *)
(* nobody withdraws an entry that is being worked on, and no entry is      *)
(* given back twice.                                                       *)
(*                                                                         *)
(* JobScheduler (libview/ev-job-scheduler.c) implements this module: an    *)
(* entry is an EvSchedulerJob, and retiring or withdrawing it frees it.    *)
(***************************************************************************)
CONSTANT Entries

VARIABLE phase

Phases == {"new", "waiting", "taken", "retired"}

WQTypeOK == phase \in [Entries -> Phases]

WQInit == phase = [e \in Entries |-> "new"]

\* Entry e goes from one of the phases in `from` to the phase `to`.
Move(e, from, to) ==
    /\ phase[e] = from
    /\ phase' = [phase EXCEPT ![e] = to]

\* Handed over to a worker thread, to wait its turn.
Submit(e) == Move(e, "new", "waiting")

\* Handed over to the main loop, which works on it where it stands.
SubmitTaken(e) == Move(e, "new", "taken")

Take(e) == Move(e, "waiting", "taken")

Withdraw(e) == Move(e, "waiting", "retired")

Retire(e) == Move(e, "taken", "retired")

WQNext ==
    \E e \in Entries :
        Submit(e) \/ SubmitTaken(e) \/ Take(e) \/ Withdraw(e) \/ Retire(e)

WQSpec == WQInit /\ [][WQNext]_phase

=============================================================================
