----------------------------- MODULE Connection -----------------------------
(***************************************************************************)
(* The connection of a trace (Writer.cpp): a thread of the program opens a *)
(* file or a socket and leaves its handle in GPendingDataHandle, and the   *)
(* next update makes it GDataHandle, brings its reader up to date and then *)
(* sends it what is new.  Updates are run by the worker thread, by the     *)
(* thread that ends the program, and after that by any thread that         *)
(* allocates memory (Trace::Update); GUpdateInProgress keeps them apart.   *)
(* Commands that a client sends (Control.cpp) run inside an update.        *)
(*                                                                         *)
(* The model starts when Writer_Initialize has started the worker.  What   *)
(* is sent is one of five sections: the handshake, the descriptions of the *)
(* events, the important events so far, the tail, and what is new.         *)
(***************************************************************************)
EXTENDS Integers, Sequences

CONSTANTS
  Callers,     \* threads that call WriteTo, SendTo and Stop
  Worker,      \* the worker thread
  Exit,        \* the thread that runs ~FInitializer
  Pumps,       \* threads that call Update
  Commands,    \* commands that clients send: a subset of {"WriteTo", "Stop"}
  Exits,       \* whether the program ends
  MaxHandles   \* bound: files and sockets opened

ASSUME CommandAssumption == Commands \subseteq {"WriteTo", "Stop"}
ASSUME HandleAssumption  == MaxHandles \in Nat
ASSUME ExitAssumption    == Exits \in BOOLEAN

Updaters == {Worker, Exit} \union Pumps
Actors   == Callers \union Updaters
Handles  == 1 .. MaxHandles
None     == 0

\* GPendingDataHandle counts a close request down to ~0 - CloseInertia.
CloseInertia == 2
CloseNow     == MaxHandles + 1
CloseRequest == CloseNow + CloseInertia

\* GNumSyncPackets
NumSyncPackets == 3

VARIABLES
  dataHandle,  \* GDataHandle
  pending,     \* GPendingDataHandle
  opened,      \* handles opened so far: 1 .. opened
  closed,      \* [Handles -> Nat] times each was closed
  fed,         \* [Handles -> Nat] the last section sent to it, or Broken
  locked,      \* GUpdateInProgress
  syncs,       \* GSyncPacketCountdown
  upc,         \* [Updaters -> control state of Writer_WorkerUpdate]
  op,          \* [Actors -> call an actor is in: "none", "WriteTo" or "Stop"]
  opc,         \* [Actors -> control state of that call]
  mine,        \* [Actors -> handle that WriteTo has opened and not yet given up]
  stopped,     \* handles that were connected when a Stop returned true
  overwritten, \* history: a call stored its result over another's
  quit,        \* GWorkerThreadQuit
  xpc          \* control state of Writer_WorkerJoin; "done" when GWorkerThread = 0

handleVars == <<opened, closed, fed>>
callVars   == <<op, opc, mine, stopped, overwritten>>
exitVars   == <<quit, xpc>>
connectionVars == <<dataHandle, pending, handleVars, locked, syncs, upc, callVars, exitVars>>

Broken == 6

ConnectionInit ==
  /\ dataHandle = None /\ pending = None
  /\ opened = 0 /\ closed = [h \in Handles |-> 0] /\ fed = [h \in Handles |-> 0]
  /\ locked = FALSE /\ syncs = 0 /\ upc = [u \in Updaters |-> "idle"]
  /\ op = [a \in Actors |-> "none"] /\ opc = [a \in Actors |-> "idle"]
  /\ mine = [a \in Actors |-> None] /\ stopped = {}
  /\ overwritten = FALSE
  /\ quit = FALSE /\ xpc = "running"

MayUpdate(u) ==
  CASE u = Worker -> ~quit
    [] u = Exit   -> xpc = "update"
    [] OTHER      -> xpc = "done"

\* IoClose
Closing(h) == closed' = IF h = None THEN closed ELSE [closed EXCEPT ![h] = @ + 1]

\* The steps of an update that send if there is a connection, and what follows each.
After == [prologue |-> "describe", describe |-> "cache", cache |-> "tail", tail |-> "announce",
          announce |-> "shared", shared |-> "drain", drain |-> "sync"]

\* Writer_UpdateConnection ends with the tail, and asks for new sync packets.
AskSyncs(u) == syncs' = IF upc[u] = "tail" THEN NumSyncPackets ELSE syncs

(***************************************************************************)
(* Slips: what a definition below would be with a likely mistake in the    *)
(* code.  Each breaks a property; the specification uses none of them.     *)
(***************************************************************************)
\* GUpdateInProgress is set without testing it.
BeginUpdateSlip(u) ==
  /\ upc[u] = "idle"
  /\ MayUpdate(u)
  /\ locked' = TRUE
  /\ upc' = [upc EXCEPT ![u] = "control"]
  /\ UNCHANGED <<dataHandle, pending, handleVars, syncs, callVars, exitVars>>

\* A rejected handle stays pending.
RejectSlip(u) ==
  /\ upc[u] = "connection"
  /\ pending \in Handles
  /\ dataHandle # None
  /\ Closing(pending)
  /\ upc' = [upc EXCEPT ![u] = "announce"]
  /\ UNCHANGED <<dataHandle, pending, opened, fed, locked, syncs, callVars, exitVars>>

\* A close request starts over at every update.
CountDownSlip(u) ==
  /\ upc[u] = "connection"
  /\ pending >= CloseNow
  /\ pending' = CloseRequest - 1
  /\ upc' = [upc EXCEPT ![u] = IF pending' = CloseNow THEN "close" ELSE "announce"]
  /\ UNCHANGED <<dataHandle, handleVars, locked, syncs, callVars, exitVars>>

\* A handle that cannot be written to is forgotten and not closed.
SendFailsSlip(u) ==
  /\ upc[u] \in DOMAIN After
  /\ dataHandle # None
  /\ dataHandle' = None
  /\ upc' = [upc EXCEPT ![u] = IF @ = "prologue" THEN "announce" ELSE After[@]]
  /\ AskSyncs(u)
  /\ UNCHANGED <<pending, handleVars, locked, callVars, exitVars>>

(***************************************************************************)
(* Writer_SendTo, Writer_WriteTo and Writer_Stop, called by a thread of    *)
(* the program or by a command in an update.                               *)
(***************************************************************************)
\* "if (GPendingDataHandle || ...": the call goes on only if there is none.
LoadPending(a, call) ==
  /\ opc[a] = "idle"
  /\ pending = None
  /\ op' = [op EXCEPT ![a] = call]
  /\ opc' = [opc EXCEPT ![a] = "data"]
  /\ UNCHANGED <<dataHandle, pending, handleVars, locked, syncs, upc, mine, stopped, overwritten, exitVars>>

\* "... GDataHandle)": WriteTo goes on without a connection, Stop with one.
LoadData(a) ==
  LET go == (op[a] = "WriteTo") <=> (dataHandle = None) IN
  /\ opc[a] = "data"
  /\ op' = [op EXCEPT ![a] = IF go THEN @ ELSE "none"]
  /\ opc' = [opc EXCEPT ![a] = IF ~go THEN "idle" ELSE IF op[a] = "Stop" THEN "store" ELSE "open"]
  /\ UNCHANGED <<dataHandle, pending, handleVars, locked, syncs, upc, mine, stopped, overwritten, exitVars>>

OpenHandle(a) ==
  /\ opc[a] = "open"
  /\ \/ /\ opened < MaxHandles
        /\ opened' = opened + 1
        /\ mine' = [mine EXCEPT ![a] = opened + 1]
        /\ opc' = [opc EXCEPT ![a] = "store"] /\ UNCHANGED op
     \/ /\ op' = [op EXCEPT ![a] = "none"] /\ opc' = [opc EXCEPT ![a] = "idle"]
        /\ UNCHANGED <<opened, mine>>
  /\ UNCHANGED <<dataHandle, pending, closed, fed, locked, syncs, upc, stopped, overwritten, exitVars>>

StorePending(a) ==
  /\ opc[a] = "store"
  /\ pending' = IF op[a] = "Stop" THEN CloseRequest ELSE mine[a]
  /\ stopped' = IF op[a] = "Stop" THEN stopped \union ({dataHandle} \ {None}) ELSE stopped
  /\ overwritten' = (overwritten \/ pending # None)
  /\ mine' = [mine EXCEPT ![a] = None]
  /\ op' = [op EXCEPT ![a] = "none"] /\ opc' = [opc EXCEPT ![a] = "idle"]
  /\ UNCHANGED <<dataHandle, handleVars, locked, syncs, upc, exitVars>>

(***************************************************************************)
(* Writer_WorkerUpdate                                                     *)
(***************************************************************************)
BeginUpdate(u) ==
  /\ upc[u] = "idle"
  /\ MayUpdate(u)
  /\ ~locked
  /\ locked' = TRUE
  /\ upc' = [upc EXCEPT ![u] = "control"]
  /\ UNCHANGED <<dataHandle, pending, handleVars, syncs, callVars, exitVars>>

\* Writer_UpdateControl, when the commands that came in have run.
Control(u) ==
  /\ upc[u] = "control"
  /\ opc[u] = "idle"
  /\ upc' = [upc EXCEPT ![u] = "connection"]
  /\ UNCHANGED <<dataHandle, pending, handleVars, locked, syncs, callVars, exitVars>>

NoPending(u) ==
  /\ upc[u] = "connection"
  /\ pending = None
  /\ upc' = [upc EXCEPT ![u] = "announce"]
  /\ UNCHANGED <<dataHandle, pending, handleVars, locked, syncs, callVars, exitVars>>

\* "Is this a close request?"
CountDown(u) ==
  /\ upc[u] = "connection"
  /\ pending >= CloseNow
  /\ pending' = pending - 1
  /\ upc' = [upc EXCEPT ![u] = IF pending - 1 = CloseNow THEN "close" ELSE "announce"]
  /\ UNCHANGED <<dataHandle, handleVars, locked, syncs, callVars, exitVars>>

CloseStopped(u) ==
  /\ upc[u] = "close"
  /\ Closing(dataHandle)
  /\ dataHandle' = None
  /\ pending' = None
  /\ upc' = [upc EXCEPT ![u] = "announce"]
  /\ UNCHANGED <<opened, fed, locked, syncs, callVars, exitVars>>

\* "Reject the pending connection if we've already got a connection"
Reject(u) ==
  /\ upc[u] = "connection"
  /\ pending \in Handles
  /\ dataHandle # None
  /\ Closing(pending)
  /\ pending' = None
  /\ upc' = [upc EXCEPT ![u] = "announce"]
  /\ UNCHANGED <<dataHandle, opened, fed, locked, syncs, callVars, exitVars>>

Connect(u) ==
  /\ upc[u] = "connection"
  /\ pending \in Handles
  /\ dataHandle = None
  /\ dataHandle' = pending
  /\ upc' = [upc EXCEPT ![u] = "clear"]
  /\ UNCHANGED <<pending, handleVars, locked, syncs, callVars, exitVars>>

ClearPending(u) ==
  /\ upc[u] = "clear"
  /\ pending' = None
  /\ upc' = [upc EXCEPT ![u] = "prologue"]
  /\ UNCHANGED <<dataHandle, handleVars, locked, syncs, callVars, exitVars>>

\* Sections in the order in which a reader needs them.
Section == [prologue |-> 1, describe |-> 2, cache |-> 3, tail |-> 4,
            announce |-> 5, shared |-> 5, drain |-> 5]

FedWith(h, k) ==
  IF closed[h] = 0 /\ (fed[h] = k - 1 \/ (fed[h] = 5 /\ k = 5)) THEN k ELSE Broken

\* Writer_SendDataImpl on a connection: the data is written, or the connection
\* is closed.
Send(u) ==
  /\ upc[u] \in DOMAIN After
  /\ dataHandle # None
  /\ fed' = [fed EXCEPT ![dataHandle] = FedWith(dataHandle, Section[upc[u]])]
  /\ upc' = [upc EXCEPT ![u] = After[@]]
  /\ AskSyncs(u)
  /\ UNCHANGED <<dataHandle, pending, opened, closed, locked, callVars, exitVars>>

\* A failed handshake ends Writer_UpdateConnection; any other failed send only
\* leaves the rest of the update without a connection.
SendFails(u) ==
  /\ upc[u] \in DOMAIN After
  /\ dataHandle # None
  /\ Closing(dataHandle)
  /\ dataHandle' = None
  /\ upc' = [upc EXCEPT ![u] = IF @ = "prologue" THEN "announce" ELSE After[@]]
  /\ AskSyncs(u)
  /\ UNCHANGED <<pending, opened, fed, locked, callVars, exitVars>>

\* There is no connection, or nothing new for it.
SendNothing(u) ==
  /\ upc[u] \in DOMAIN After
  /\ dataHandle = None \/ upc[u] \in {"announce", "shared", "drain"}
  /\ upc' = [upc EXCEPT ![u] = After[@]]
  /\ AskSyncs(u)
  /\ UNCHANGED <<dataHandle, pending, handleVars, locked, callVars, exitVars>>

\* Writer_SendSync, which does not ask whether there still is a connection: it counts down
\* also without one, when handle 0 is written to and closed, to no effect.
SendSync(u) ==
  /\ upc[u] = "sync"
  /\ upc' = [upc EXCEPT ![u] = "unlock"]
  /\ \/ syncs = 0 /\ UNCHANGED <<dataHandle, closed, fed, syncs>>
     \/ /\ syncs > 0 /\ dataHandle # None
        /\ syncs' = syncs - 1
        /\ fed' = [fed EXCEPT ![dataHandle] = FedWith(dataHandle, 5)]
        /\ UNCHANGED <<dataHandle, closed>>
     \/ /\ syncs > 0
        /\ syncs' = syncs - 1
        /\ Closing(dataHandle)
        /\ dataHandle' = None /\ UNCHANGED fed
  /\ UNCHANGED <<pending, opened, locked, callVars, exitVars>>

EndUpdate(u) ==
  /\ upc[u] = "unlock"
  /\ locked' = FALSE
  /\ upc' = [upc EXCEPT ![u] = "idle"]
  /\ xpc' = IF u = Exit THEN "clear" ELSE xpc
  /\ UNCHANGED <<dataHandle, pending, handleVars, syncs, callVars, quit>>

(***************************************************************************)
(* Writer_WorkerJoin                                                       *)
(***************************************************************************)
QuitWorker ==
  /\ Exits
  /\ xpc = "running"
  /\ quit' = TRUE
  /\ xpc' = "join"
  /\ UNCHANGED <<dataHandle, pending, handleVars, locked, syncs, upc, callVars>>

\* ThreadJoin
JoinWorker ==
  /\ xpc = "join"
  /\ upc[Worker] = "idle"
  /\ xpc' = "update"
  /\ UNCHANGED <<dataHandle, pending, handleVars, locked, syncs, upc, callVars, quit>>

\* "GWorkerThread = 0": from now on Trace::Update runs updates.
ClearWorker ==
  /\ xpc = "clear"
  /\ xpc' = "done"
  /\ UNCHANGED <<dataHandle, pending, handleVars, locked, syncs, upc, callVars, quit>>

---------------------------------------------------------------------------
InCall(a) == LoadData(a) \/ OpenHandle(a) \/ StorePending(a)

InUpdate(u) ==
  \/ Control(u) \/ NoPending(u) \/ CountDown(u) \/ CloseStopped(u) \/ Reject(u) \/ Connect(u)
  \/ ClearPending(u) \/ Send(u) \/ SendFails(u) \/ SendNothing(u) \/ SendSync(u)
  \/ EndUpdate(u)

ConnectionNext ==
  \/ \E c \in Callers : \E call \in {"WriteTo", "Stop"} : LoadPending(c, call)
  \/ \E u \in Updaters : upc[u] = "control" /\ \E call \in Commands : LoadPending(u, call)
  \/ \E a \in Actors : InCall(a)
  \/ \E u \in Updaters : BeginUpdate(u) \/ InUpdate(u)
  \/ QuitWorker \/ JoinWorker \/ ClearWorker

ConnectionSpec == ConnectionInit /\ [][ConnectionNext]_connectionVars

\* The worker loops for ever; a call returns, in an update as elsewhere, and an
\* update does not go on taking commands for ever.  Nobody else has to update.
ConnectionFairSpec ==
  /\ ConnectionSpec
  /\ \A a \in Actors : WF_connectionVars(InCall(a))
  /\ WF_connectionVars(BeginUpdate(Worker))
  /\ WF_connectionVars(InUpdate(Worker)) /\ SF_connectionVars(Control(Worker))

---------------------------------------------------------------------------
\* Every variable keeps its type.
ConnectionTypes ==
  /\ dataHandle \in Handles \union {None} /\ pending \in 0 .. CloseRequest
  /\ opened \in 0 .. MaxHandles /\ closed \in [Handles -> Nat] /\ fed \in [Handles -> 0 .. Broken]
  /\ locked \in BOOLEAN /\ syncs \in 0 .. NumSyncPackets
  /\ upc \in [Updaters -> {"idle", "control", "connection", "close", "clear", "sync", "unlock"}
                            \union DOMAIN After]
  /\ op \in [Actors -> {"none", "WriteTo", "Stop"}]
  /\ opc \in [Actors -> {"idle", "data", "open", "store"}]
  /\ mine \in [Actors -> Handles \union {None}] /\ stopped \subseteq Handles
  /\ overwritten \in BOOLEAN
  /\ quit \in BOOLEAN /\ xpc \in {"running", "join", "update", "clear", "done"}

\* A handle is closed once, and only after it was opened.
ClosedOnce == \A h \in Handles : closed[h] <= (IF h <= opened THEN 1 ELSE 0)

\* "but only if we're not already sending/writing": whatever was opened is the
\* connection, about to become it, or closed.
NoHandleLost ==
  \A h \in 1 .. opened :
     closed[h] = 0 => h \in {dataHandle, pending} \union {mine[a] : a \in Actors}

\* A reader is sent handshake, descriptions, important events, tail and new data
\* in this order, each but the last once, and nothing after its handle was closed.
SessionInOrder == \A h \in Handles : fed[h] # Broken

\* The only way to lose a handle is a call that stores over a pending one.
LostOnlyByOverwrite == overwritten \/ NoHandleLost

\* Together: a handle is opened once, closed at most once, and until then somebody's.
ConnectionInv == ConnectionTypes /\ ClosedOnce /\ LostOnlyByOverwrite

\* As long as the worker runs and no call overwrites another's request: a
\* connection that Stop was told to close is closed.
StopCloses ==
  \A h \in Handles : h \in stopped ~> (closed[h] > 0 \/ quit \/ overwritten)

\* And a file or socket that was opened is written to, or closed.
OpenedIsServed ==
  \A h \in Handles : pending = h ~> (fed[h] > 0 \/ closed[h] > 0 \/ quit \/ overwritten)
=============================================================================
