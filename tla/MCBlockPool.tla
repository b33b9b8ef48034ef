---------------------------- MODULE MCBlockPool -----------------------------
(* Model-checking instances of BlockPool.                                  *)
EXTENDS BlockPool

\* After a stale pop nothing is promised, and no run looks further.
NoStalePop == ~stale
=============================================================================
