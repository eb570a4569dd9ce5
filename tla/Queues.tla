------------------------------- MODULE Queues -------------------------------
(***************************************************************************)
(* Taking entries out of a queue.                                          *)
(***************************************************************************)
EXTENDS Integers, Sequences

\* What is left of the queue q without the entries that are in gone, in the
\* same order: g_queue_find and g_queue_delete_link for each of them.  It is
\* SelectSeq as a recursive function, the form that can be reasoned about.
Removing(q, gone) ==
    LET left[i \in 0 .. Len(q)] ==
            IF i = 0 THEN <<>>
            ELSE IF q[i] \in gone THEN left[i - 1]
            ELSE Append(left[i - 1], q[i])
    IN  left[Len(q)]

=============================================================================
