------------------------------ MODULE MCClients ------------------------------
(***************************************************************************)
(* Model-checking instances of what a client meets: the tail (PacketRing), *)
(* the cache of important events (ImportantCache) and the control server   *)
(* (Control).  All three belong to the worker and share no state, so each  *)
(* behaviour is about one of them, its subject, and the others rest.       *)
(***************************************************************************)
EXTENDS ClientProofs

Plain(n)          == [reserve |-> n, final |-> n]
Encoded(max, len) == [reserve |-> max, final |-> len]

SomeRequests == {Plain(1), Encoded(3, 2)}

VARIABLE subject

allVars == <<subject, vars, cacheVars, controlVars>>

ClientsInit ==
  /\ subject \in {"tail", "cache", "control"}
  /\ Init /\ CacheInit /\ ControlInit

OfTail(step) ==
  subject = "tail" /\ step /\ UNCHANGED <<subject, cacheVars, controlVars>>
OfCache(step) ==
  subject = "cache" /\ step /\ UNCHANGED <<subject, vars, controlVars>>
OfControl(step) ==
  subject = "control" /\ step /\ UNCHANGED <<subject, vars, cacheVars>>

\* Next, CacheNext and ControlNext, disjunct by disjunct.
ClientsNext ==
  \/ \E r \in Requests : OfTail(BeginAppend(r))
  \/ OfTail(DiscardPacket)
  \/ OfTail(PlacePacket)
  \/ \E n \in TooBig : OfTail(AppendTooBig(n))
  \/ OfTail(Connect)
  \/ OfTail(Disconnect)
  \/ \E n \in DataSizes : OfCache(CacheData(n))
  \/ OfCache(Collect)
  \/ \E n \in 1 .. EncodeMaxSize : OfCache(CacheCommit(n))
  \/ OfCache(CacheConnect)
  \/ OfCache(CacheDisconnect)
  \/ OfControl(ControlListen)
  \/ OfControl(AcceptFails)
  \/ OfControl(ControlAccept)
  \/ OfControl(BeginRecv)
  \/ OfControl(Receive)
  \/ OfControl(HangUp)
  \/ OfControl(EndRecv)
  \/ OfControl(Knock)
  \/ OfControl(CloseEnd)
  \/ \E ch \in Characters : OfControl(SendCharacter(ch))

\* The fairness of Control, where the behaviour is about it.
ClientsSpec ==
  ClientsInit /\ [][ClientsNext]_allVars /\ WF_allVars(OfControl(Serve))
=============================================================================
