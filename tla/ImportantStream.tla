-------------------------- MODULE ImportantStream ---------------------------
(***************************************************************************)
(* What the trace promises of important events: a stream of bytes of which *)
(* every client, whenever it connects, is sent all from the first on.      *)
(***************************************************************************)
EXTENDS Integers

VARIABLES
  traced,  \* length of the stream
  client,  \* "none" or "fed"
  got      \* how much of the stream the client was sent

Init == traced = 0 /\ client = "none" /\ got = 0

Extend ==
  /\ traced' \in Nat /\ traced' > traced
  /\ got' = IF client = "fed" THEN traced' ELSE got
  /\ UNCHANGED client

Connect ==
  /\ client = "none"
  /\ client' = "fed" /\ got' = traced
  /\ UNCHANGED traced

Disconnect ==
  /\ client = "fed"
  /\ client' = "none" /\ got' = 0
  /\ UNCHANGED traced

Next == Extend \/ Connect \/ Disconnect

Spec == Init /\ [][Next]_<<traced, client, got>>
=============================================================================
