-------------------------------- MODULE Nil ---------------------------------
(* Go's nil, or a zero value that means: not set. *)
CONSTANT None
=============================================================================
