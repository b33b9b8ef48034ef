---------------------------- MODULE MCTlsBuffer ----------------------------
(* Model-checking instances of TlsBuffer.                                  *)
EXTENDS TlsBufferProofs, TLC

CONSTANTS main, worker

\* A fresh block does not depend on what it held before, so it does not matter
\* which one the pool hands out: of several, the least.
LeastBlock ==
  \A t \in Threads : cur'[t] # cur[t] => \A b \in pool : cur'[t] <= b

\* One thread logs long events, the worker's thread none.
MainLogs == main :> 2 @@ worker :> 0
\* Both log, the one that can end so often that it can do so after it has ended.
BothLog  == main :> 2 @@ worker :> 1

\* When the worker has taken a block that its thread still uses nothing is
\* promised, and the runs look no further.
NotStrayed == ~strayed
=============================================================================
