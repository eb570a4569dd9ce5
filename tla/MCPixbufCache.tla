--------------------------- MODULE MCPixbufCache ---------------------------
(* A small instance of PixbufCache: a scale is the bytes of one page. *)
EXTENDS PixbufCache

MCBytes == [page \in Page |-> [sc \in Scales |-> sc]]

=============================================================================
