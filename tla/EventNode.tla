----------------------------- MODULE EventNode ------------------------------
(***************************************************************************)
(* Descriptions of events (EventNode.cpp, and the order of an update in    *)
(* Writer.cpp).  An event's static node is pushed on GNewEventList by the  *)
(* first thread that traces it; the worker takes that list, describes the  *)
(* events in it and appends it to the list of the events it knows.  A new  *)
(* connection is told about all of them again.                             *)
(*                                                                         *)
(* An event that is traced goes through its thread's buffers (TlsBuffer)   *)
(* into the tail and to the client; only which event it is matters here,   *)
(* and the tail keeps everything.                                          *)
(***************************************************************************)
EXTENDS Integers, Links

CONSTANTS
  Events,         \* event types, each with its FEventNode
  NoEvent,        \* nullptr
  MaxConnections  \* bound: connections made

ASSUME EventAssumption      == NoEvent \notin Events
ASSUME ConnectionAssumption == MaxConnections \in Nat

VARIABLES
  newList,      \* GNewEventList
  listHead,     \* GEventListHead
  listTail,     \* GEventListTail
  nextEvent,    \* [Events -> event] Next
  reg,          \* [Events -> control state of FEventNode::Initialize]
  buffered,     \* events traced and not yet drained
  tailed,       \* events in the tail
  npc,          \* control state of the worker's update
  stage,        \* "connect" or "announce": who called ReadNew
  inner,        \* FIter::Inner
  connected,    \* GDataHandle
  connections,  \* connections made so far
  described,    \* [Events -> Nat] descriptions the client was sent
  received      \* events the client was sent

eventVars  == <<nextEvent, reg, buffered>>
toldVars   == <<connected, connections, described, received>>
nodeVars == <<newList, listHead, listTail, eventVars, tailed, npc, stage, inner, toldVars>>

EventInit ==
  /\ newList = NoEvent /\ listHead = NoEvent /\ listTail = NoEvent
  /\ nextEvent = [e \in Events |-> NoEvent]
  /\ reg = [e \in Events |-> "unused"]
  /\ buffered = {} /\ tailed = {}
  /\ npc = "idle" /\ stage = "connect" /\ inner = NoEvent
  /\ connected = FALSE /\ connections = 0
  /\ described = [e \in Events |-> 0] /\ received = {}

AfterDescribing == IF stage = "connect" THEN "tail" ELSE "drain"

(***************************************************************************)
(* Slips: what a definition below would be with a likely mistake in the    *)
(* code.  Each breaks a property; the specification uses none of them.     *)
(***************************************************************************)
\* Pushes without comparing.
PublishSlip(e) ==
  /\ reg[e] = "push"
  /\ newList' = e
  /\ reg' = [reg EXCEPT ![e] = "listed"]
  /\ UNCHANGED <<listHead, listTail, nextEvent, buffered, tailed, npc, stage, inner, toldVars>>

\* Reads only the new events when a connection is made.
OnConnectNothing ==
  /\ npc = "onconnect"
  /\ npc' = "read" /\ stage' = "connect"
  /\ UNCHANGED <<newList, listHead, listTail, eventVars, tailed, inner, toldVars>>

\* Never describes after the connection was made.
DescribeAnnounceNever ==
  /\ npc = "announce"
  /\ npc' = "drain"
  /\ UNCHANGED <<newList, listHead, listTail, eventVars, tailed, stage, inner, toldVars>>

(***************************************************************************)
(* FEventNode::Initialize and the thread that traces the event.  The       *)
(* thread-safe static in GetUid lets one thread initialize an event.       *)
(***************************************************************************)
LoadNewList(e) ==
  /\ reg[e] \in {"unused", "load"}
  /\ nextEvent' = [nextEvent EXCEPT ![e] = newList]
  /\ reg' = [reg EXCEPT ![e] = "push"]
  /\ UNCHANGED <<newList, listHead, listTail, buffered, tailed, npc, stage, inner, toldVars>>

\* "Make this new event instance visible"
Publish(e) ==
  /\ reg[e] = "push"
  /\ \/ newList = nextEvent[e] /\ newList' = e /\ reg' = [reg EXCEPT ![e] = "listed"]
     \/ newList # nextEvent[e] /\ reg' = [reg EXCEPT ![e] = "load"] /\ UNCHANGED newList
  /\ UNCHANGED <<listHead, listTail, nextEvent, buffered, tailed, npc, stage, inner, toldVars>>

Trace(e) ==
  /\ reg[e] = "listed"
  /\ buffered' = buffered \union {e}
  /\ UNCHANGED <<newList, listHead, listTail, nextEvent, reg, tailed, npc, stage, inner, toldVars>>

(***************************************************************************)
(* Writer_WorkerUpdateInternal, as far as events and the client go         *)
(***************************************************************************)
\* Writer_UpdateConnection: a pending handle becomes the connection ...
AcceptConnection ==
  /\ npc = "idle"
  /\ ~connected
  /\ connections < MaxConnections
  /\ connected' = TRUE /\ connections' = connections + 1
  /\ described' = [e \in Events |-> 0] /\ received' = {}
  /\ npc' = "onconnect"
  /\ UNCHANGED <<newList, listHead, listTail, eventVars, tailed, stage, inner>>

\* ... or there is none, or it is rejected.
NoConnection ==
  /\ npc = "idle"
  /\ npc' = "announce"
  /\ UNCHANGED <<newList, listHead, listTail, eventVars, tailed, stage, inner, toldVars>>

\* "Re-add known events back as new events so that they get described again"
OnConnect ==
  /\ npc = "onconnect"
  /\ IF listHead = NoEvent THEN UNCHANGED <<newList, nextEvent>>
     ELSE /\ nextEvent' = [nextEvent EXCEPT ![listTail] = newList]
          /\ newList' = listHead
  /\ listHead' = NoEvent
  /\ listTail' = IF listHead = NoEvent THEN listTail ELSE NoEvent
  /\ npc' = "read" /\ stage' = "connect"
  /\ UNCHANGED <<reg, buffered, tailed, inner, toldVars>>

ReadNew ==
  /\ npc = "read"
  /\ newList' = NoEvent
  /\ inner' = newList
  /\ listHead' = IF listHead = NoEvent THEN newList ELSE listHead
  /\ nextEvent' = IF newList # NoEvent /\ listHead # NoEvent
             THEN [nextEvent EXCEPT ![listTail] = newList] ELSE nextEvent
  /\ npc' = IF newList = NoEvent THEN AfterDescribing ELSE "describe"
  /\ UNCHANGED <<listTail, reg, buffered, tailed, stage, toldVars>>

\* One turn of Writer_DescribeEvents: GetNext, which finds the new end of the
\* list on its way, Describe, and Writer_SendData.
DescribeNext ==
  /\ npc = "describe"
  /\ described' = IF connected THEN [described EXCEPT ![inner] = @ + 1] ELSE described
  /\ inner' = nextEvent[inner]
  /\ listTail' = IF nextEvent[inner] = NoEvent THEN inner ELSE listTail
  /\ npc' = IF nextEvent[inner] = NoEvent THEN AfterDescribing ELSE "describe"
  /\ UNCHANGED <<newList, listHead, eventVars, tailed, stage, connected, connections, received>>

\* Writer_TailOnConnect
SendTail ==
  /\ npc = "tail"
  /\ received' = IF connected THEN received \union tailed ELSE received
  /\ npc' = "announce"
  /\ UNCHANGED <<newList, listHead, listTail, eventVars, tailed, stage, inner, connected,
                 connections, described>>

DescribeAnnounce ==
  /\ npc = "announce"
  /\ IF connected THEN npc' = "read" /\ stage' = "announce"
                  ELSE npc' = "drain" /\ UNCHANGED stage
  /\ UNCHANGED <<newList, listHead, listTail, eventVars, tailed, inner, toldVars>>

\* Writer_DrainBuffers: of what is traced while it runs it may miss some.
DrainBuffers ==
  /\ npc = "drain"
  /\ \E drained \in SUBSET buffered :
       /\ buffered' = buffered \ drained
       /\ tailed' = tailed \union drained
       /\ received' = IF connected THEN received \union drained ELSE received
  /\ npc' = "idle"
  /\ UNCHANGED <<newList, listHead, listTail, nextEvent, reg, stage, inner, connected,
                 connections, described>>

\* A send fails, or the connection is stopped.
LoseClient ==
  /\ connected
  /\ connected' = FALSE
  /\ UNCHANGED <<newList, listHead, listTail, eventVars, tailed, npc, stage, inner,
                 connections, described, received>>

---------------------------------------------------------------------------
NodeUpdate ==
  \/ AcceptConnection \/ NoConnection \/ OnConnect \/ ReadNew \/ DescribeNext
  \/ SendTail \/ DescribeAnnounce \/ DrainBuffers

EventNext ==
  \/ \E e \in Events : LoadNewList(e) \/ Publish(e) \/ Trace(e)
  \/ NodeUpdate
  \/ LoseClient

EventSpec == EventInit /\ [][EventNext]_nodeVars

\* The worker loops for ever.
EventFairSpec == EventSpec /\ WF_nodeVars(NodeUpdate)

---------------------------------------------------------------------------
Listed == {e \in Events : reg[e] = "listed"}

\* The events that a walk from e meets.
EventsFrom(e) == Reach(nextEvent, e)

\* Every registered event is in one of the two lists, once, and the worker
\* appends to the end of the events it knows, although it finds that end only
\* while it describes them.
EveryEventListed ==
  /\ \A e \in Events : e \notin EventsFrom(nextEvent[e])
  /\ EventsFrom(newList) \intersect EventsFrom(listHead) = {}
  /\ EventsFrom(newList) \union EventsFrom(listHead) = Listed
  /\ listHead # NoEvent /\ npc # "describe" =>
       listTail \in EventsFrom(listHead) /\ nextEvent[listTail] = NoEvent

\* A client is not told twice what an event is.
DescribedOnce == \A e \in Events : described[e] <= 1

\* Together: the two lists hold every event once, and a session tells of it once.
ListInv == EveryEventListed /\ DescribedOnce

\* "The first events we will send are ones that describe the trace's events":
\* whatever is in the tail has been described when the tail is sent.
DescribedBeforeTail ==
  connected /\ npc = "tail" => \A e \in tailed : described[e] > 0

\* An event that overtook its own description is still to be described.
StillDescribed ==
  \A e \in received :
     connected /\ described[e] = 0 =>
       \/ e \in EventsFrom(newList)
       \/ npc = "describe" /\ e \in EventsFrom(inner)

\* Together: no event is left for the client to guess at, old or new.
DescriptionInv == DescribedBeforeTail /\ StillDescribed

\* Whoever is sent an event learns what it is, or hangs up.
EventuallyDescribed ==
  \A e \in Events :
     (connected /\ e \in received) ~> (described[e] > 0 \/ ~connected)
=============================================================================
