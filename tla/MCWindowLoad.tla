---------------------------- MODULE MCWindowLoad ----------------------------
(* WindowLoad for TLC: the files there may be. *)
EXTENDS WindowLoad

File(far, secret) == [remote |-> far, locked |-> secret]

Plain == {File(FALSE, FALSE)}
Secret == {File(FALSE, TRUE)}
Each == {File(FALSE, FALSE), File(FALSE, TRUE), File(TRUE, FALSE)}
=============================================================================
