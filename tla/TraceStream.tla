---------------------------- MODULE TraceStream ----------------------------
(***************************************************************************)
(* What the trace promises a thread that logs: its events make a stream,   *)
(* to which whole events are appended.  A prefix of the stream has been    *)
(* sent, which grows up to the last event that is complete; and when the   *)
(* thread has ended it is forgotten only after all was sent, the events it *)
(* has logged since included.  The promise ends with the first use of a    *)
(* block that its thread had already lost.                                 *)
(***************************************************************************)
EXTENDS Integers

CONSTANTS Threads

VARIABLES
  whole,  \* [Threads -> Nat] length of the stream, up to the last complete event
  sent,   \* [Threads -> Nat] length of what was sent of it
  life,   \* [Threads -> "live", "ended" or "forgotten"]
  broken  \* a thread that has ended has used a block it had lost

Init ==
  /\ whole = [t \in Threads |-> 0] /\ sent = [t \in Threads |-> 0]
  /\ life = [t \in Threads |-> "live"]
  /\ broken = FALSE

Log(t) ==
  /\ life[t] # "forgotten"
  /\ whole'[t] > whole[t]
  /\ whole' = [whole EXCEPT ![t] = whole'[t]]
  /\ UNCHANGED <<sent, life>>

Send(t) ==
  /\ sent'[t] > sent[t] /\ sent'[t] <= whole[t]
  /\ sent' = [sent EXCEPT ![t] = sent'[t]]
  /\ UNCHANGED <<whole, life>>

End(t) ==
  /\ life[t] = "live"
  /\ life' = [life EXCEPT ![t] = "ended"]
  /\ UNCHANGED <<whole, sent>>

Forget(t) ==
  /\ life[t] = "ended"
  /\ sent[t] = whole[t]
  /\ life' = [life EXCEPT ![t] = "forgotten"]
  /\ UNCHANGED <<whole, sent>>

Next ==
  \/ broken'
  \/ ~broken /\ ~broken' /\ \E t \in Threads : Log(t) \/ Send(t) \/ End(t) \/ Forget(t)

Spec == Init /\ [][Next]_<<whole, sent, life, broken>>
=============================================================================
