-------------------------------- MODULE Pool --------------------------------
(***************************************************************************)
(* What the block pool promises: a set of free blocks.  A thread that asks *)
(* takes one of them, or adds new ones, keeps one and shares the rest.  It *)
(* uses what it has in hand, and what is retired from its chain, the       *)
(* oldest first, is given back.  Blocks move in no other way, and each is  *)
(* in one place; until the pool breaks, which then promises nothing.       *)
(***************************************************************************)
EXTENDS Integers, Sequences, SequencesExt

CONSTANTS Threads

VARIABLES
  asking,  \* the threads that ask for a block
  hand,    \* [Threads -> set of the blocks that the thread has taken or added]
  chain,   \* [Threads -> sequence of the blocks that it uses, oldest first]
  given,   \* the set of the blocks that are about to be given back
  free,    \* the set of the free blocks
  broken

poolVars == <<asking, hand, chain, given, free, broken>>

Known == free \union given \union UNION {hand[t] \union ToSet(chain[t]) : t \in Threads}

Init ==
  /\ asking = {}
  /\ hand = [t \in Threads |-> {}] /\ chain = [t \in Threads |-> <<>>]
  /\ given = {} /\ free = {} /\ broken = FALSE

Ask(t) ==
  /\ t \notin asking
  /\ asking' = asking \union {t}
  /\ UNCHANGED <<hand, chain, given, free>>

Take(t) ==
  /\ t \in asking /\ hand[t] = {}
  /\ \E b \in free : hand' = [hand EXCEPT ![t] = {b}] /\ free' = free \ {b}
  /\ UNCHANGED <<asking, chain, given>>

Add(t) ==
  /\ t \in asking /\ hand[t] = {}
  /\ hand'[t] # {} /\ hand'[t] \intersect Known = {}
  /\ hand' = [hand EXCEPT ![t] = hand'[t]]
  /\ UNCHANGED <<asking, chain, given, free>>

Share(t) ==
  /\ \E b \in hand[t] :
       hand' = [hand EXCEPT ![t] = {b}] /\ free' = free \union (hand[t] \ {b})
  /\ UNCHANGED <<asking, chain, given>>

Use(t) ==
  /\ \E b \in hand[t] : hand[t] = {b} /\ chain' = [chain EXCEPT ![t] = Append(@, b)]
  /\ hand' = [hand EXCEPT ![t] = {}]
  /\ asking' = asking \ {t}
  /\ UNCHANGED <<given, free>>

Retire(t) ==
  /\ Len(chain[t]) > 1
  /\ chain' = [chain EXCEPT ![t] = Tail(@)]
  /\ given' = given \union {Head(chain[t])}
  /\ UNCHANGED <<asking, hand, free>>

GiveBack ==
  /\ given # {} /\ given' = {}
  /\ free' = free \union given
  /\ UNCHANGED <<asking, hand, chain>>

Next ==
  \/ broken'
  \/ /\ ~broken /\ ~broken'
     /\ \/ \E t \in Threads : Ask(t) \/ Take(t) \/ Add(t) \/ Share(t) \/ Use(t) \/ Retire(t)
        \/ GiveBack

Spec == Init /\ [][Next]_poolVars
=============================================================================
