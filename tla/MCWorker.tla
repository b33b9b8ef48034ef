------------------------------ MODULE MCWorker ------------------------------
(***************************************************************************)
(* Model-checking instances of what the worker takes from the threads of   *)
(* the program without a lock: important events (SharedBuffer) and the     *)
(* events that are new to it (EventNode).  The two share no state, so each *)
(* behaviour is about one of them, its subject, and the other rests.       *)
(***************************************************************************)
EXTENDS SharedBuffer, EventNode

VARIABLE subject

allVars == <<subject, vars, nodeVars>>

WorkerInit == subject \in {"important", "new"} /\ Init /\ EventInit

OfShared(step) == subject = "important" /\ step /\ UNCHANGED <<subject, nodeVars>>
OfEvents(step) == subject = "new" /\ step /\ UNCHANGED <<subject, vars>>

\* Next and EventNext, disjunct by disjunct.
WorkerNext ==
  \/ \E t \in Threads, n \in EventSizes : OfShared(Enter(t, n))
  \/ \E t \in Threads : OfShared(ClaimSpace(t))
  \/ \E t \in Threads : OfShared(TouchFreed(t))
  \/ \E t \in Threads : OfShared(CreateNext(t))
  \/ \E t \in Threads : OfShared(WaitForNext(t))
  \/ \E t \in Threads : OfShared(ReleaseFull(t))
  \/ \E t \in Threads : OfShared(Commit(t))
  \/ OfShared(StartUpdate)
  \/ OfShared(BeginRetire)
  \/ OfShared(RetireSharedBuffer)
  \/ OfShared(SendHead)
  \/ \E e \in Events : OfEvents(LoadNewList(e))
  \/ \E e \in Events : OfEvents(Publish(e))
  \/ \E e \in Events : OfEvents(Trace(e))
  \/ OfEvents(AcceptConnection)
  \/ OfEvents(NoConnection)
  \/ OfEvents(OnConnect)
  \/ OfEvents(ReadNew)
  \/ OfEvents(DescribeNext)
  \/ OfEvents(SendTail)
  \/ OfEvents(DescribeAnnounce)
  \/ OfEvents(DrainBuffers)
  \/ OfEvents(LoseClient)

\* The fairness of SharedBuffer and of EventNode, where the behaviour is about them.
WorkerSpec ==
  /\ WorkerInit /\ [][WorkerNext]_allVars
  /\ \A t \in Threads : WF_allVars(OfShared(InEvent(t)))
  /\ WF_allVars(OfShared(Update))
  /\ WF_allVars(OfEvents(NodeUpdate))
=============================================================================
