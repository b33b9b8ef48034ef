--------------------------- MODULE MCSharedBuffer ---------------------------
(* Model-checking instances of SharedBuffer.                               *)
EXTENDS SharedBuffer
=============================================================================
