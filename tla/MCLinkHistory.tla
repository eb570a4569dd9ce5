--------------------------- MODULE MCLinkHistory ---------------------------
(* Two documents of different length, whose links lead to the same names.  *)
EXTENDS LinkHistory

CONSTANTS d1, d2, toc, xref, broken

MCNPages == d1 :> 3 @@ d2 :> 2

\* In d1 both links lead to a page, in d2 one of them beyond the end.
MCDest ==
    LET dest(a, b, c) == toc :> a @@ xref :> b @@ broken :> c
    IN  d1 :> dest(0, 2, NoPage) @@ d2 :> dest(1, 2, NoPage)
=============================================================================
