------------------------------ MODULE MCUpdate ------------------------------
(***************************************************************************)
(* Model-checking instances of the two machines that an update of the      *)
(* worker drives: the buffers that it drains (TlsBuffer) and the           *)
(* connection that it makes and keeps (Connection).  Here they share no    *)
(* state, so each behaviour is about one of them, its subject, and the     *)
(* other rests.                                                            *)
(***************************************************************************)
EXTENDS MCTlsBuffer, Connection

CONSTANTS p1, p2

VARIABLE subject

allVars == <<subject, vars, connectionVars>>

UpdateInit == subject \in {"buffers", "connection"} /\ Init /\ ConnectionInit

OfBuffers(step) == subject = "buffers" /\ step /\ UNCHANGED <<subject, connectionVars>>
OfConnection(step) == subject = "connection" /\ step /\ UNCHANGED <<subject, vars>>

\* Next and ConnectionNext, disjunct by disjunct.
UpdateNext ==
  \/ \E t \in Threads, s \in EventSizes, aux \in BOOLEAN : OfBuffers(EnterPrelude(t, s, aux))
  \/ \E t \in Threads : OfBuffers(ClaimSpace(t))
  \/ \E t \in Threads, b \in Blocks, r \in Redirects : OfBuffers(NextBuffer(t, b, r))
  \/ \E t \in Threads : OfBuffers(PublishThread(t))
  \/ \E t \in Threads : OfBuffers(RetireCurrent(t))
  \/ \E t \in Threads, n \in AuxSizes : OfBuffers(BeginAux(t, n))
  \/ \E t \in Threads : OfBuffers(AuxSegment(t))
  \/ \E t \in Threads : OfBuffers(CommitPlain(t))
  \/ \E t \in Threads : OfBuffers(CommitLatest(t))
  \/ \E t \in Threads : OfBuffers(CommitScope(t))
  \/ \E t \in Threads : OfBuffers(EndThreadBuffer(t))
  \/ OfBuffers(DrainBuffers \/ DrainLocalBuffers)
  \/ \E t \in Threads : OfBuffers(PickThread(t))
  \/ OfBuffers(DrainCommitted)
  \/ OfBuffers(KeepBuffer)
  \/ OfBuffers(RetireBuffer)
  \/ OfBuffers(FreeRetired)
  \/ \E c \in Callers, call \in {"WriteTo", "Stop"} : OfConnection(LoadPending(c, call))
  \/ \E u \in Updaters, call \in Commands :
        OfConnection(upc[u] = "control" /\ LoadPending(u, call))
  \/ \E a \in Actors : OfConnection(LoadData(a))
  \/ \E a \in Actors : OfConnection(OpenHandle(a))
  \/ \E a \in Actors : OfConnection(StorePending(a))
  \/ \E u \in Updaters : OfConnection(BeginUpdate(u))
  \/ \E u \in Updaters : OfConnection(Control(u))
  \/ \E u \in Updaters : OfConnection(NoPending(u))
  \/ \E u \in Updaters : OfConnection(CountDown(u))
  \/ \E u \in Updaters : OfConnection(CloseStopped(u))
  \/ \E u \in Updaters : OfConnection(Reject(u))
  \/ \E u \in Updaters : OfConnection(Connect(u))
  \/ \E u \in Updaters : OfConnection(ClearPending(u))
  \/ \E u \in Updaters : OfConnection(Send(u))
  \/ \E u \in Updaters : OfConnection(SendFails(u))
  \/ \E u \in Updaters : OfConnection(SendNothing(u))
  \/ \E u \in Updaters : OfConnection(SendSync(u))
  \/ \E u \in Updaters : OfConnection(EndUpdate(u))
  \/ OfConnection(QuitWorker)
  \/ OfConnection(JoinWorker)
  \/ OfConnection(ClearWorker)

\* The fairness of Connection, where the behaviour is about it.
UpdateSpec ==
  /\ UpdateInit /\ [][UpdateNext]_allVars
  /\ \A a \in Actors : WF_allVars(OfConnection(InCall(a)))
  /\ WF_allVars(OfConnection(BeginUpdate(Worker)))
  /\ WF_allVars(OfConnection(InUpdate(Worker)))
  /\ SF_allVars(OfConnection(Control(Worker)))

\* Threads that pump the trace are alike: the second begins an update only while the
\* first is in one, which GUpdateInProgress is there to prevent.
PumpsInTurn == upc[p2] = "idle" /\ upc'[p2] # "idle" => upc[p1] # "idle"
=============================================================================
