-------------------------- MODULE ConnectionProofs --------------------------
(* What Connection promises for any number of threads and handles.         *)
EXTENDS Connection, TLAPS

\* One update runs at a time.
LockInv ==
  /\ \A u \in Updaters : upc[u] # "idle" => locked
  /\ \A u, v \in Updaters : upc[u] # "idle" /\ upc[v] # "idle" => u = v

\* A handle that is not stored yet is that of a WriteTo.
CallInv ==
  \A a \in Actors : /\ opc[a] # "idle" => op[a] # "none"
                    /\ opc[a] = "open" => op[a] = "WriteTo"
                    /\ mine[a] # None => opc[a] = "store" /\ op[a] = "WriteTo"

\* Whatever a handle is in use for, it is open, and it is in one use only: but while an update
\* takes the pending handle for the connection it is both.
HandleInv ==
  /\ dataHandle # None => dataHandle <= opened /\ closed[dataHandle] = 0
  /\ pending \in Handles => pending <= opened /\ closed[pending] = 0
  /\ pending = dataHandle /\ dataHandle # None => \E u \in Updaters : upc[u] = "clear"
  /\ \A a \in Actors : mine[a] # None => /\ mine[a] <= opened /\ closed[mine[a]] = 0
                                        /\ mine[a] # dataHandle /\ mine[a] # pending
  /\ \A a, b \in Actors : mine[a] # None /\ mine[a] = mine[b] => a = b

\* What an update has found pending is still there when it clears it, or overwritten.
PendingInv ==
  /\ pending = CloseNow => \E u \in Updaters : upc[u] = "close"
  /\ \A u \in Updaters : /\ upc[u] = "close" => pending = CloseNow \/ overwritten
                         /\ upc[u] = "clear" => dataHandle # None /\ (pending = dataHandle \/ overwritten)

\* What an update that makes a connection has sent before each of its steps.
Stage == [clear |-> 0, prologue |-> 0, describe |-> 1, cache |-> 2, tail |-> 3]

\* Any other time the connection has been brought up to date.
FedInv ==
  /\ \A h \in Handles : fed[h] # Broken /\ (closed[h] = 0 /\ h # dataHandle => fed[h] = 0)
  /\ \A u \in Updaters : dataHandle # None /\ upc[u] \in DOMAIN Stage => fed[dataHandle] = Stage[upc[u]]
  /\ dataHandle # None /\ (\A u \in Updaters : upc[u] \notin DOMAIN Stage) => fed[dataHandle] \in {4, 5}

HandlesInv == /\ ConnectionTypes /\ LockInv /\ CallInv /\ HandleInv /\ ClosedOnce /\ LostOnlyByOverwrite
              /\ PendingInv /\ FedInv

USE CommandAssumption, HandleAssumption, ExitAssumption
    DEF None, CloseNow, CloseRequest, CloseInertia, Broken, NumSyncPackets

\* Handles are numbered from 1 on, and the numbers above are close requests.
LEMMA HandleNumbers ==
  /\ \A h \in Handles : h \in Nat /\ 1 <= h /\ h <= MaxHandles
  /\ \A n \in Nat : 1 <= n /\ n <= MaxHandles => n \in Handles
BY DEF Handles

\* Whoever runs updates may be told to make calls, too.
LEMMA ActorSets == Callers \subseteq Actors /\ Updaters \subseteq Actors
BY DEF Actors

USE HandleNumbers, ActorSets

\* Before any call the invariant holds.
LEMMA InitStep == ConnectionInit => HandlesInv
<1> SUFFICES ASSUME ConnectionInit PROVE HandlesInv
  OBVIOUS
<1> USE DEF ConnectionInit
<1>1. ConnectionTypes
  <2>1. 0 \in 0 .. CloseRequest /\ 0 \in 0 .. MaxHandles /\ 0 \in 0 .. Broken /\ 0 \in 0 .. NumSyncPackets
    OBVIOUS
  <2> QED
    BY <2>1 DEF ConnectionTypes
<1>2. LockInv /\ CallInv /\ ClosedOnce /\ LostOnlyByOverwrite
  BY DEF LockInv, CallInv, ClosedOnce, LostOnlyByOverwrite, NoHandleLost
<1>3. HandleInv
  BY DEF HandleInv
<1>4. PendingInv
  BY DEF PendingInv
<1>5. FedInv
  BY DEF FedInv
<1> QED
  BY <1>1, <1>2, <1>3, <1>4, <1>5 DEF HandlesInv

\* A call has found that no handle is pending.
LEMMA LoadPendingStep ==
  ASSUME HandlesInv, NEW a \in Actors, NEW call \in {"WriteTo", "Stop"}, LoadPending(a, call)
  PROVE  HandlesInv'
<1> USE DEF LoadPending, handleVars, callVars, exitVars
<1>1. ConnectionTypes'
  BY DEF HandlesInv, ConnectionTypes
<1>2. LockInv'
  BY DEF HandlesInv, LockInv
<1>3. CallInv'
  BY DEF HandlesInv, ConnectionTypes, CallInv
<1>4. HandleInv'
  BY DEF HandlesInv, HandleInv
<1>5. ClosedOnce'
  BY DEF HandlesInv, ClosedOnce
<1>6. LostOnlyByOverwrite'
  BY DEF HandlesInv, LostOnlyByOverwrite, NoHandleLost
<1>7. PendingInv'
  BY DEF HandlesInv, PendingInv
<1>8. FedInv'
  BY DEF HandlesInv, FedInv
<1> QED
  BY <1>1, <1>2, <1>3, <1>4, <1>5, <1>6, <1>7, <1>8 DEF HandlesInv

\* It has looked for a connection.
LEMMA LoadDataStep ==
  ASSUME HandlesInv, NEW a \in Actors, LoadData(a)
  PROVE  HandlesInv'
<1> USE DEF LoadData, handleVars, callVars, exitVars
<1>1. ConnectionTypes'
  BY DEF HandlesInv, ConnectionTypes
<1>2. LockInv'
  BY DEF HandlesInv, LockInv
<1>3. CallInv'
  <2>1. /\ mine' = mine
        /\ \A b \in Actors : b # a => op'[b] = op[b] /\ opc'[b] = opc[b]
    OBVIOUS
  <2>2. mine[a] = None
    BY DEF HandlesInv, CallInv
  <2>3. /\ opc'[a] # "idle" => op'[a] # "none"
        /\ opc'[a] = "open" => op'[a] = "WriteTo"
    <3>1. op[a] \in {"none", "WriteTo", "Stop"}
      BY DEF HandlesInv, ConnectionTypes
    <3>2. CASE (op[a] = "WriteTo") <=> (dataHandle = None)
      <4>1. op'[a] = op[a] /\ opc'[a] = IF op[a] = "Stop" THEN "store" ELSE "open"
        BY <3>2 DEF HandlesInv, ConnectionTypes
      <4>2. op[a] # "none"
        BY DEF HandlesInv, CallInv
      <4> QED
        BY <3>1, <4>1, <4>2
    <3>3. CASE ~((op[a] = "WriteTo") <=> (dataHandle = None))
      BY <3>3 DEF HandlesInv, ConnectionTypes
    <3> QED
      BY <3>2, <3>3
  <2> QED
    BY <2>3 DEF HandlesInv, CallInv
<1>4. HandleInv'
  BY DEF HandlesInv, HandleInv
<1>5. ClosedOnce'
  BY DEF HandlesInv, ClosedOnce
<1>6. LostOnlyByOverwrite'
  BY DEF HandlesInv, LostOnlyByOverwrite, NoHandleLost
<1>7. PendingInv'
  BY DEF HandlesInv, PendingInv
<1>8. FedInv'
  BY DEF HandlesInv, FedInv
<1> QED
  BY <1>1, <1>2, <1>3, <1>4, <1>5, <1>6, <1>7, <1>8 DEF HandlesInv

\* A handle is opened: it is new, and this call's own.
LEMMA OpenStep ==
  ASSUME HandlesInv, NEW a \in Actors, OpenHandle(a)
  PROVE  HandlesInv'
<1> USE DEF OpenHandle, handleVars, callVars, exitVars
<1>1. ConnectionTypes'
  BY DEF HandlesInv, ConnectionTypes
<1>2. LockInv'
  BY DEF HandlesInv, LockInv
<1>3. CallInv'
  BY DEF HandlesInv, ConnectionTypes, CallInv
<1>4. HandleInv'
  BY DEF HandlesInv, ConnectionTypes, HandleInv, ClosedOnce
<1>5. ClosedOnce'
  BY DEF HandlesInv, ConnectionTypes, ClosedOnce
<1>6. LostOnlyByOverwrite'
  BY DEF HandlesInv, ConnectionTypes, CallInv, LostOnlyByOverwrite, NoHandleLost
<1>7. PendingInv'
  BY DEF HandlesInv, PendingInv
<1>8. FedInv'
  BY DEF HandlesInv, FedInv
<1> QED
  BY <1>1, <1>2, <1>3, <1>4, <1>5, <1>6, <1>7, <1>8 DEF HandlesInv

\* The handle becomes pending, or a close request does; what they overwrite is known as lost.
LEMMA StorePendingStep ==
  ASSUME HandlesInv, NEW a \in Actors, StorePending(a)
  PROVE  HandlesInv'
<1> USE DEF StorePending, handleVars, callVars, exitVars
<1>1. ConnectionTypes'
  BY DEF HandlesInv, ConnectionTypes
<1>2. LockInv'
  BY DEF HandlesInv, LockInv
<1>3. CallInv'
  BY DEF HandlesInv, ConnectionTypes, CallInv
<1>4. HandleInv'
  BY DEF HandlesInv, ConnectionTypes, HandleInv
<1>5. ClosedOnce'
  BY DEF HandlesInv, ClosedOnce
<1>6. LostOnlyByOverwrite'
  <2> SUFFICES ASSUME ~overwritten, pending = None, NEW h \in 1 .. opened, closed[h] = 0
               PROVE  h = dataHandle \/ h = pending' \/ \E b \in Actors : h = mine'[b]
    BY DEF LostOnlyByOverwrite, NoHandleLost
  <2>1. h = dataHandle \/ \E b \in Actors : h = mine[b]
    BY DEF HandlesInv, LostOnlyByOverwrite, NoHandleLost
  <2>2. CASE h = mine[a]
    BY <2>2 DEF HandlesInv, CallInv
  <2>3. ASSUME NEW b \in Actors, b # a, h = mine[b] PROVE h = mine'[b]
    BY <2>3
  <2> QED
    BY <2>1, <2>2
<1>7. PendingInv'
  BY DEF HandlesInv, ConnectionTypes, LockInv, PendingInv
<1>8. FedInv'
  BY DEF HandlesInv, FedInv
<1> QED
  BY <1>1, <1>2, <1>3, <1>4, <1>5, <1>6, <1>7, <1>8 DEF HandlesInv

\* An update begins when no other is in progress.
LEMMA BeginUpdateStep ==
  ASSUME HandlesInv, NEW u \in Updaters, BeginUpdate(u)
  PROVE  HandlesInv'
<1> USE DEF BeginUpdate, handleVars, callVars, exitVars
<1>1. ConnectionTypes'
  BY DEF HandlesInv, ConnectionTypes
<1>2. LockInv'
  BY DEF HandlesInv, LockInv
<1>3. CallInv'
  BY DEF HandlesInv, CallInv
<1>4. HandleInv'
  BY DEF HandlesInv, HandleInv
<1>5. ClosedOnce'
  BY DEF HandlesInv, ClosedOnce
<1>6. LostOnlyByOverwrite'
  BY DEF HandlesInv, LostOnlyByOverwrite, NoHandleLost
<1>7. PendingInv'
  BY DEF HandlesInv, PendingInv
<1>8. FedInv'
  BY DEF HandlesInv, FedInv, Stage
<1> QED
  BY <1>1, <1>2, <1>3, <1>4, <1>5, <1>6, <1>7, <1>8 DEF HandlesInv

\* The commands have run.
LEMMA ControlStep ==
  ASSUME HandlesInv, NEW u \in Updaters, Control(u)
  PROVE  HandlesInv'
<1> USE DEF Control, handleVars, callVars, exitVars
<1>1. ConnectionTypes'
  BY DEF HandlesInv, ConnectionTypes
<1>2. LockInv'
  BY DEF HandlesInv, LockInv
<1>3. CallInv'
  BY DEF HandlesInv, CallInv
<1>4. HandleInv'
  BY DEF HandlesInv, HandleInv
<1>5. ClosedOnce'
  BY DEF HandlesInv, ClosedOnce
<1>6. LostOnlyByOverwrite'
  BY DEF HandlesInv, LostOnlyByOverwrite, NoHandleLost
<1>7. PendingInv'
  BY DEF HandlesInv, PendingInv
<1>8. FedInv'
  BY DEF HandlesInv, FedInv, Stage
<1> QED
  BY <1>1, <1>2, <1>3, <1>4, <1>5, <1>6, <1>7, <1>8 DEF HandlesInv

\* No handle is pending.
LEMMA NoPendingStep ==
  ASSUME HandlesInv, NEW u \in Updaters, NoPending(u)
  PROVE  HandlesInv'
<1> USE DEF NoPending, handleVars, callVars, exitVars
<1>1. ConnectionTypes'
  BY DEF HandlesInv, ConnectionTypes, After
<1>2. LockInv'
  BY DEF HandlesInv, LockInv
<1>3. CallInv'
  BY DEF HandlesInv, CallInv
<1>4. HandleInv'
  BY DEF HandlesInv, HandleInv
<1>5. ClosedOnce'
  BY DEF HandlesInv, ClosedOnce
<1>6. LostOnlyByOverwrite'
  BY DEF HandlesInv, LostOnlyByOverwrite, NoHandleLost
<1>7. PendingInv'
  BY DEF HandlesInv, PendingInv
<1>8. FedInv'
  BY DEF HandlesInv, FedInv, Stage
<1> QED
  BY <1>1, <1>2, <1>3, <1>4, <1>5, <1>6, <1>7, <1>8 DEF HandlesInv

\* A close request is counted down: the count that is met is never the last.
LEMMA CountDownStep ==
  ASSUME HandlesInv, NEW u \in Updaters, CountDown(u)
  PROVE  HandlesInv'
<1> USE DEF CountDown, handleVars, callVars, exitVars
<1>1. ConnectionTypes'
  BY DEF HandlesInv, ConnectionTypes, After
<1>2. LockInv'
  BY DEF HandlesInv, LockInv
<1>3. CallInv'
  BY DEF HandlesInv, CallInv
<1>4. HandleInv'
  <2>1. pending # CloseNow
    BY DEF HandlesInv, PendingInv, LockInv
  <2>2. pending' \in Nat /\ pending' > MaxHandles
    BY <2>1 DEF HandlesInv, ConnectionTypes
  <2>3. dataHandle \in Handles \union {None} /\ mine \in [Actors -> Handles \union {None}]
    BY DEF HandlesInv, ConnectionTypes
  <2> QED
    BY <2>2, <2>3 DEF HandlesInv, HandleInv
<1>5. ClosedOnce'
  BY DEF HandlesInv, ClosedOnce
<1>6. LostOnlyByOverwrite'
  BY DEF HandlesInv, ConnectionTypes, LostOnlyByOverwrite, NoHandleLost
<1>7. PendingInv'
  BY DEF HandlesInv, ConnectionTypes, LockInv, PendingInv
<1>8. FedInv'
  BY DEF HandlesInv, FedInv, Stage
<1> QED
  BY <1>1, <1>2, <1>3, <1>4, <1>5, <1>6, <1>7, <1>8 DEF HandlesInv

\* The connection is closed on request.
LEMMA CloseStoppedStep ==
  ASSUME HandlesInv, NEW u \in Updaters, CloseStopped(u)
  PROVE  HandlesInv'
<1> USE DEF CloseStopped, handleVars, callVars, exitVars, Closing
<1>1. ConnectionTypes'
  BY DEF HandlesInv, ConnectionTypes, After
<1>2. LockInv'
  BY DEF HandlesInv, LockInv
<1>3. CallInv'
  BY DEF HandlesInv, CallInv
<1>4. HandleInv'
  BY DEF HandlesInv, HandleInv
<1>5. ClosedOnce'
  BY DEF HandlesInv, HandleInv, ClosedOnce
<1>6. LostOnlyByOverwrite'
  BY DEF HandlesInv, ConnectionTypes, PendingInv, LostOnlyByOverwrite, NoHandleLost
<1>7. PendingInv'
  BY DEF HandlesInv, ConnectionTypes, LockInv, PendingInv
<1>8. FedInv'
  BY DEF HandlesInv, ConnectionTypes, FedInv
<1> QED
  BY <1>1, <1>2, <1>3, <1>4, <1>5, <1>6, <1>7, <1>8 DEF HandlesInv

\* A handle is rejected, which is not that of the connection.
LEMMA RejectStep ==
  ASSUME HandlesInv, NEW u \in Updaters, Reject(u)
  PROVE  HandlesInv'
<1> USE DEF Reject, handleVars, callVars, exitVars, Closing
<1>1. ConnectionTypes'
  BY DEF HandlesInv, ConnectionTypes, After
<1>2. LockInv'
  BY DEF HandlesInv, LockInv
<1>3. CallInv'
  BY DEF HandlesInv, CallInv
<1>4. HandleInv'
  BY DEF HandlesInv, HandleInv, LockInv
<1>5. ClosedOnce'
  BY DEF HandlesInv, HandleInv, ClosedOnce
<1>6. LostOnlyByOverwrite'
  BY DEF HandlesInv, ConnectionTypes, LostOnlyByOverwrite, NoHandleLost
<1>7. PendingInv'
  BY DEF HandlesInv, LockInv, PendingInv
<1>8. FedInv'
  BY DEF HandlesInv, HandleInv, FedInv, Stage
<1> QED
  BY <1>1, <1>2, <1>3, <1>4, <1>5, <1>6, <1>7, <1>8 DEF HandlesInv

\* The pending handle becomes the connection.
LEMMA ConnectStep ==
  ASSUME HandlesInv, NEW u \in Updaters, Connect(u)
  PROVE  HandlesInv'
<1> USE DEF Connect, handleVars, callVars, exitVars
<1>1. ConnectionTypes'
  BY DEF HandlesInv, ConnectionTypes
<1>2. LockInv'
  BY DEF HandlesInv, LockInv
<1>3. CallInv'
  BY DEF HandlesInv, CallInv
<1>4. HandleInv'
  BY DEF HandlesInv, ConnectionTypes, HandleInv
<1>5. ClosedOnce'
  BY DEF HandlesInv, ClosedOnce
<1>6. LostOnlyByOverwrite'
  BY DEF HandlesInv, LostOnlyByOverwrite, NoHandleLost
<1>7. PendingInv'
  BY DEF HandlesInv, PendingInv
<1>8. FedInv'
  BY DEF HandlesInv, ConnectionTypes, LockInv, HandleInv, FedInv, Stage
<1> QED
  BY <1>1, <1>2, <1>3, <1>4, <1>5, <1>6, <1>7, <1>8 DEF HandlesInv

\* The handle that is now the connection is not pending any more.
LEMMA ClearPendingStep ==
  ASSUME HandlesInv, NEW u \in Updaters, ClearPending(u)
  PROVE  HandlesInv'
<1> USE DEF ClearPending, handleVars, callVars, exitVars
<1>1. ConnectionTypes'
  BY DEF HandlesInv, ConnectionTypes, After
<1>2. LockInv'
  BY DEF HandlesInv, LockInv
<1>3. CallInv'
  BY DEF HandlesInv, CallInv
<1>4. HandleInv'
  BY DEF HandlesInv, HandleInv
<1>5. ClosedOnce'
  BY DEF HandlesInv, ClosedOnce
<1>6. LostOnlyByOverwrite'
  BY DEF HandlesInv, PendingInv, LostOnlyByOverwrite, NoHandleLost
<1>7. PendingInv'
  BY DEF HandlesInv, ConnectionTypes, LockInv, PendingInv
<1>8. FedInv'
  BY DEF HandlesInv, FedInv, Stage
<1> QED
  BY <1>1, <1>2, <1>3, <1>4, <1>5, <1>6, <1>7, <1>8 DEF HandlesInv

\* A section is sent, that follows the last one.
LEMMA SendStep ==
  ASSUME HandlesInv, NEW u \in Updaters, Send(u)
  PROVE  HandlesInv'
<1> USE DEF Send, AskSyncs, handleVars, callVars, exitVars
<1>1. ConnectionTypes'
  <2>1. After[upc[u]] \in DOMAIN After \union {"sync"}
    BY DEF After
  <2>2. Section[upc[u]] \in 1 .. 5
    BY DEF After, Section
  <2>3. FedWith(dataHandle, Section[upc[u]]) \in 0 .. Broken
    BY <2>2 DEF FedWith
  <2> QED
    BY <2>1, <2>3 DEF HandlesInv, ConnectionTypes
<1>2. LockInv'
  BY DEF HandlesInv, LockInv, After
<1>3. CallInv'
  BY DEF HandlesInv, CallInv
<1>4. HandleInv'
  BY DEF HandlesInv, HandleInv, After
<1>5. ClosedOnce'
  BY DEF HandlesInv, ClosedOnce
<1>6. LostOnlyByOverwrite'
  BY DEF HandlesInv, LostOnlyByOverwrite, NoHandleLost
<1>7. PendingInv'
  BY DEF HandlesInv, PendingInv, After
<1>8. FedInv'
  BY DEF HandlesInv, ConnectionTypes, LockInv, HandleInv, FedInv, Stage, After, FedWith, Section
<1> QED
  BY <1>1, <1>2, <1>3, <1>4, <1>5, <1>6, <1>7, <1>8 DEF HandlesInv

\* The connection is closed.
LEMMA SendFailsStep ==
  ASSUME HandlesInv, NEW u \in Updaters, SendFails(u)
  PROVE  HandlesInv'
<1> USE DEF SendFails, AskSyncs, handleVars, callVars, exitVars, Closing
<1>1. ConnectionTypes'
  BY DEF HandlesInv, ConnectionTypes, After
<1>2. LockInv'
  BY DEF HandlesInv, LockInv, After
<1>3. CallInv'
  BY DEF HandlesInv, CallInv
<1>4. HandleInv'
  BY DEF HandlesInv, HandleInv, LockInv, After
<1>5. ClosedOnce'
  BY DEF HandlesInv, HandleInv, ClosedOnce
<1>6. LostOnlyByOverwrite'
  BY DEF HandlesInv, ConnectionTypes, LostOnlyByOverwrite, NoHandleLost
<1>7. PendingInv'
  BY DEF HandlesInv, LockInv, PendingInv, After
<1>8. FedInv'
  BY DEF HandlesInv, ConnectionTypes, FedInv
<1> QED
  BY <1>1, <1>2, <1>3, <1>4, <1>5, <1>6, <1>7, <1>8 DEF HandlesInv

\* There is nothing to send.
LEMMA SendNothingStep ==
  ASSUME HandlesInv, NEW u \in Updaters, SendNothing(u)
  PROVE  HandlesInv'
<1> USE DEF SendNothing, AskSyncs, handleVars, callVars, exitVars
<1>1. ConnectionTypes'
  BY DEF HandlesInv, ConnectionTypes, After
<1>2. LockInv'
  BY DEF HandlesInv, LockInv, After
<1>3. CallInv'
  BY DEF HandlesInv, CallInv
<1>4. HandleInv'
  BY DEF HandlesInv, HandleInv
<1>5. ClosedOnce'
  BY DEF HandlesInv, ClosedOnce
<1>6. LostOnlyByOverwrite'
  BY DEF HandlesInv, LostOnlyByOverwrite, NoHandleLost
<1>7. PendingInv'
  BY DEF HandlesInv, PendingInv, After
<1>8. FedInv'
  BY DEF HandlesInv, FedInv, Stage, After
<1> QED
  BY <1>1, <1>2, <1>3, <1>4, <1>5, <1>6, <1>7, <1>8 DEF HandlesInv

\* The sync packets, which may close the connection or find that there is none.
LEMMA SendSyncStep ==
  ASSUME HandlesInv, NEW u \in Updaters, SendSync(u)
  PROVE  HandlesInv'
<1> USE DEF SendSync, handleVars, callVars, exitVars, Closing
<1>0. \/ dataHandle' = dataHandle /\ closed' = closed
      \/ /\ dataHandle \in Handles /\ dataHandle' = None
         /\ closed' = [closed EXCEPT ![dataHandle] = @ + 1]
  BY DEF HandlesInv, ConnectionTypes
<1>1. ConnectionTypes'
  <2>1. FedWith(dataHandle, 5) \in 0 .. Broken
    BY DEF FedWith
  <2>2. upc' \in [Updaters -> {"idle", "control", "connection", "close", "clear", "sync", "unlock"}
                              \union DOMAIN After]
    BY DEF HandlesInv, ConnectionTypes
  <2>3. syncs' \in 0 .. NumSyncPackets
    BY DEF HandlesInv, ConnectionTypes
  <2>4. dataHandle' \in Handles \union {None} /\ closed' \in [Handles -> Nat]
    BY DEF HandlesInv, ConnectionTypes
  <2>5. fed' \in [Handles -> 0 .. Broken]
    BY <2>1 DEF HandlesInv, ConnectionTypes
  <2> QED
    BY <2>2, <2>3, <2>4, <2>5 DEF HandlesInv, ConnectionTypes
<1>2. LockInv'
  BY DEF HandlesInv, LockInv
<1>3. CallInv'
  BY DEF HandlesInv, CallInv
<1>4. HandleInv'
  <2>1. UNCHANGED <<pending, opened, mine, opc>> /\ \A v \in Updaters : v # u => upc'[v] = upc[v]
    OBVIOUS
  <2>2. upc[u] = "sync" /\ upc'[u] = "unlock"
    BY DEF HandlesInv, ConnectionTypes
  <2>3. CASE dataHandle' = dataHandle /\ closed' = closed
    BY <2>1, <2>2, <2>3 DEF HandlesInv, HandleInv
  <2>4. CASE /\ dataHandle \in Handles /\ dataHandle' = None
             /\ closed' = [closed EXCEPT ![dataHandle] = @ + 1]
    <3>1. pending # dataHandle
      BY <2>2, <2>4 DEF HandlesInv, HandleInv, LockInv
    <3>2. \A h : h \in Handles /\ h # dataHandle => closed'[h] = closed[h]
      BY <2>4 DEF HandlesInv, ConnectionTypes
    <3>3. \A a \in Actors : mine[a] \in Handles \union {None}
      BY DEF HandlesInv, ConnectionTypes
    <3> QED
      BY <2>1, <2>4, <3>1, <3>2, <3>3 DEF HandlesInv, HandleInv
  <2> QED
    BY <1>0, <2>3, <2>4
<1>5. ClosedOnce'
  BY <1>0 DEF HandlesInv, ConnectionTypes, HandleInv, ClosedOnce
<1>6. LostOnlyByOverwrite'
  BY DEF HandlesInv, ConnectionTypes, LostOnlyByOverwrite, NoHandleLost
<1>7. PendingInv'
  BY DEF HandlesInv, LockInv, PendingInv
<1>8. FedInv'
  BY DEF HandlesInv, ConnectionTypes, LockInv, HandleInv, FedInv, Stage, FedWith
<1> QED
  BY <1>1, <1>2, <1>3, <1>4, <1>5, <1>6, <1>7, <1>8 DEF HandlesInv

\* An update ends.
LEMMA EndUpdateStep ==
  ASSUME HandlesInv, NEW u \in Updaters, EndUpdate(u)
  PROVE  HandlesInv'
<1> USE DEF EndUpdate, handleVars, callVars, exitVars
<1>1. ConnectionTypes'
  BY DEF HandlesInv, ConnectionTypes
<1>2. LockInv'
  BY DEF HandlesInv, ConnectionTypes, LockInv
<1>3. CallInv'
  BY DEF HandlesInv, CallInv
<1>4. HandleInv'
  BY DEF HandlesInv, HandleInv
<1>5. ClosedOnce'
  BY DEF HandlesInv, ClosedOnce
<1>6. LostOnlyByOverwrite'
  BY DEF HandlesInv, LostOnlyByOverwrite, NoHandleLost
<1>7. PendingInv'
  BY DEF HandlesInv, PendingInv
<1>8. FedInv'
  BY DEF HandlesInv, FedInv, Stage
<1> QED
  BY <1>1, <1>2, <1>3, <1>4, <1>5, <1>6, <1>7, <1>8 DEF HandlesInv

\* The end of the program touches no handle.
LEMMA ExitStep ==
  ASSUME HandlesInv, QuitWorker \/ JoinWorker \/ ClearWorker
  PROVE  HandlesInv'
<1>1. /\ UNCHANGED <<dataHandle, pending, handleVars, locked, syncs, upc, callVars>>
      /\ quit' \in BOOLEAN /\ xpc' \in {"running", "join", "update", "clear", "done"}
  BY DEF HandlesInv, ConnectionTypes, QuitWorker, JoinWorker, ClearWorker
<1> QED
  BY <1>1 DEF handleVars, callVars, HandlesInv, ConnectionTypes, LockInv, CallInv, HandleInv, ClosedOnce,
     LostOnlyByOverwrite, NoHandleLost, PendingInv, FedInv

\* The invariant is inductive.
LEMMA StepPreservesHandlesInv == HandlesInv /\ [ConnectionNext]_connectionVars => HandlesInv'
<1> SUFFICES ASSUME HandlesInv, [ConnectionNext]_connectionVars PROVE HandlesInv'
  OBVIOUS
<1>1. CASE UNCHANGED connectionVars
  BY <1>1 DEF connectionVars, handleVars, callVars, exitVars, HandlesInv, ConnectionTypes, LockInv, CallInv,
     HandleInv, ClosedOnce, LostOnlyByOverwrite, NoHandleLost, PendingInv, FedInv
<1>2. ASSUME NEW a \in Actors, NEW call \in {"WriteTo", "Stop"}, LoadPending(a, call) PROVE HandlesInv'
  BY <1>2, LoadPendingStep
<1>3. ASSUME NEW a \in Actors, InCall(a) PROVE HandlesInv'
  BY <1>3, LoadDataStep, OpenStep, StorePendingStep DEF InCall
<1>4. ASSUME NEW u \in Updaters, InUpdate(u) PROVE HandlesInv'
  BY <1>4, ControlStep, NoPendingStep, CountDownStep, CloseStoppedStep, RejectStep, ConnectStep,
     ClearPendingStep, SendStep, SendFailsStep, SendNothingStep, SendSyncStep,
     EndUpdateStep DEF InUpdate
<1> QED
  BY <1>1, <1>2, <1>3, <1>4, BeginUpdateStep, ExitStep DEF ConnectionNext

\* The inductive invariant holds of every reachable state.
THEOREM HandlesInvariant == ConnectionSpec => []HandlesInv
BY InitStep, StepPreservesHandlesInv, PTL DEF ConnectionSpec

\* However calls, commands and updates of several threads interleave, a handle is closed at
\* most once, and until then it is the connection, pending, or some call's own, unless a call
\* stored over another's.
THEOREM HandlesKept == ConnectionSpec => []ConnectionInv
<1>1. HandlesInv => ConnectionInv
  BY DEF HandlesInv, ConnectionInv
<1> QED
  BY <1>1, HandlesInvariant, PTL

\* A reader is sent the sections of a trace in order, and nothing after its handle was closed.
THEOREM SessionsInOrder == ConnectionSpec => []SessionInOrder
<1>1. HandlesInv => SessionInOrder
  BY DEF HandlesInv, FedInv, SessionInOrder
<1> QED
  BY <1>1, HandlesInvariant, PTL
=============================================================================
