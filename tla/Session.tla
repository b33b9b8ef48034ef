------------------------------ MODULE Session ------------------------------
(***************************************************************************)
(* A tracing session (FTraceAuxiliary in TraceAuxiliary.cpp) and the       *)
(* channels it switches on.  The main thread initializes the trace, which  *)
(* disables every channel it finds, starts the worker, and then starts and *)
(* stops sessions.  Starting one enables the requested channels that are   *)
(* found, and connects.  The worker carries out the commands of a client,  *)
(* opens and closes the connection, and announces channels while there is  *)
(* one.  Libraries are loaded, and set up their channels, at any time.     *)
(* (The worker acts from the first step on: once Writer_Initialize has let *)
(* updates through, a thread that allocates may run one.)                  *)
(*                                                                         *)
(* The steps by which the connection is made and closed, and the races on  *)
(* its two handles, are those of module Connection; here each is one step. *)
(***************************************************************************)
EXTENDS Channel

CONSTANTS
  Requests,     \* the sets of channels that a session may be asked for
  Types,        \* a subset of {"Network", "File", "None"}
  Commands,     \* a subset of {"ToggleChannels", "SendTo", "Stop"}
  MaxRequests   \* bound: sessions asked for and commands sent

ASSUME RequestAssumption == Requests \subseteq SUBSET Channels
ASSUME TypeAssumption    == Types \subseteq {"Network", "File", "None"}
ASSUME CommandAssumption == Commands \subseteq {"ToggleChannels", "SendTo", "Stop"}
ASSUME BoundAssumption   == MaxRequests \in Nat

VARIABLES
  mpc,       \* control state of the main thread
  walk,      \* ToggleAll: where it is, and the list that it has still to walk
  state,     \* FTraceAuxiliaryImpl::State
  entries,   \* [Channels -> "absent", "inactive" or "active"] CommandlineChannels
  chosen,    \* the entry that EnableCommandlineChannels is at, or Nil
  todo,      \* entries it has still to come to
  pending,   \* GPendingDataHandle: "none", "handle" or "close"
  data,      \* GDataHandle # 0
  requests,  \* sessions asked for and commands sent so far
  before,    \* history: channels that were set up when the last Start began, but for
             \* those that were in the worker's hands when they were looked up
  disturbed, \* history: channels that a command has toggled, or that were toggled while
             \* they were being set up
  slipped,   \* history: channels that were linked, or in the worker's hands, while
             \* ToggleAll walked the lists
  ended      \* history: the connection ended other than by FTraceAuxiliary::Stop,
             \* or the session was started while it was being closed, or there was
             \* never one, because it was to be a file

sessionVars == <<state, entries, chosen, todo>>
mainVars    == <<mpc, walk, sessionVars>>
connVars    == <<pending, data>>
historyVars == <<before, disturbed, slipped, ended>>
vars == <<channelVars, mainVars, connVars, requests, historyVars>>

Init ==
  /\ ChannelInit
  /\ mpc = "boot" /\ walk = [at |-> Nil, rest |-> Nil]
  /\ state = "Stopped" /\ entries = [c \in Channels |-> "absent"]
  /\ chosen = Nil /\ todo = {}
  /\ pending = "none" /\ data = FALSE
  /\ requests = 0
  /\ before = {} /\ disturbed = {} /\ slipped = {} /\ ended = FALSE

\* Writer_IsTracing
IsTracing == data \/ pending # "none"

\* FTraceAuxiliaryImpl::IsConnected
IsConnected == state = "Tracing"

\* The worker is not in the middle of an announcement or a command.
WorkerFree == iter.first = Nil /\ tpc["worker"] = "idle"

Disturb(c) == disturbed' = disturbed \union {c}

(***************************************************************************)
(* Slips: what a definition below would be with a likely mistake in the    *)
(* code.  Each breaks a property; the specification uses none of them.     *)
(***************************************************************************)
\* ToggleAll walks the list of new channels only.
LoadKnownListSlip ==
  /\ mpc = "load"
  /\ mpc' = "walk"
  /\ UNCHANGED <<channelVars, walk, sessionVars, connVars, requests, historyVars>>

\* Start believes in a connection that could not be made.
ConnectSlip(type) ==
  /\ mpc = "enable" /\ todo = {}
  /\ state' = "Tracing"
  /\ mpc' = "ready"
  /\ UNCHANGED <<channelVars, walk, entries, chosen, todo, connVars, requests,
                 historyVars>>

\* Announces only what was set up before the first announcement.
BeginAnnounceSlip ==
  /\ WorkerFree /\ data
  /\ knownHead = Nil
  /\ ReadNew
  /\ UNCHANGED <<mainVars, connVars, requests, historyVars>>

(***************************************************************************)
(* FChannel::Initialize: ToggleAll(false), then GChannelsInitialized       *)
(***************************************************************************)
LoadNewList ==
  /\ mpc = "boot"
  /\ walk' = [walk EXCEPT !.at = newHead]
  /\ mpc' = "load"
  /\ slipped' = Taken
  /\ UNCHANGED <<channelVars, sessionVars, connVars, requests, before, disturbed,
                 ended>>

LoadKnownList ==
  /\ mpc = "load"
  /\ walk' = [walk EXCEPT !.rest = knownHead]
  /\ mpc' = "walk"
  /\ UNCHANGED <<channelVars, sessionVars, connVars, requests, historyVars>>

ToggleWalked ==
  /\ mpc = "walk" /\ walk.at # Nil
  /\ Toggle("main", walk.at, FALSE)
  /\ mpc' = "toggled"
  /\ UNCHANGED <<listVars, initialized, setup, iterVars, said, silenced, walk, sessionVars,
                 connVars, requests, historyVars>>

NextWalked ==
  /\ \/ /\ mpc = "toggled" /\ tpc["main"] = "idle"
        /\ walk' = [walk EXCEPT !.at = next[@]]
     \/ /\ mpc = "walk" /\ walk.at = Nil /\ walk.rest # Nil
        /\ walk' = [at |-> walk.rest, rest |-> Nil]
  /\ mpc' = "walk"
  /\ UNCHANGED <<channelVars, sessionVars, connVars, requests, historyVars>>

SetInitialized ==
  /\ mpc = "walk" /\ walk.at = Nil /\ walk.rest = Nil
  /\ initialized' = TRUE
  /\ mpc' = "ready"
  /\ UNCHANGED <<listVars, enabled, setup, iterVars, toggleVars, said, silenced, walk,
                 sessionVars, connVars, requests, historyVars>>

(***************************************************************************)
(* FTraceAuxiliary::Start                                                  *)
(***************************************************************************)
\* "if (GTraceAuxiliary.IsConnected()) return false"
RefuseStart ==
  /\ mpc = "ready" /\ requests < MaxRequests
  /\ IsConnected
  /\ requests' = requests + 1
  /\ UNCHANGED <<channelVars, mpc, walk, state, entries, todo, chosen, connVars,
                 historyVars>>

\* ResetCommandlineChannels and AddCommandlineChannels: no session is started, so
\* that AddChannel enables nothing yet.
BeginStart(names) ==
  /\ mpc = "ready" /\ requests < MaxRequests
  /\ ~IsConnected
  /\ requests' = requests + 1
  /\ entries' = [c \in Channels |-> IF c \in names THEN "inactive" ELSE "absent"]
  /\ todo' = names
  /\ before' = {c \in Channels : setup[c] # "none"}
  /\ mpc' = "enable"
  /\ UNCHANGED <<channelVars, walk, state, chosen, connVars, disturbed, slipped, ended>>

\* EnableChannel: IsChannel is false, or ToggleChannel does not find the channel
\* that IsChannel had found.  Nobody tries again.
NotFound(c) ==
  /\ \/ mpc = "enable" /\ c \in todo
     \/ mpc = "found" /\ c = chosen
  /\ c \notin Listed
  /\ todo' = todo \ {c} /\ chosen' = Nil
  /\ before' = IF c \in Taken THEN before \ {c} ELSE before
  /\ mpc' = "enable"
  /\ UNCHANGED <<channelVars, walk, state, entries, connVars, requests, disturbed, slipped, ended>>

IsChannel(c) ==
  /\ mpc = "enable" /\ c \in todo
  /\ c \in Listed
  /\ chosen' = c
  /\ mpc' = "found"
  /\ UNCHANGED <<channelVars, walk, state, entries, todo, connVars,
                 requests, historyVars>>

EnableChosen ==
  /\ mpc = "found"
  /\ chosen \in Listed
  /\ Toggle("main", chosen, TRUE)
  /\ IF setup[chosen] = "done" THEN UNCHANGED disturbed ELSE Disturb(chosen)
  /\ mpc' = "enabling"
  /\ UNCHANGED <<listVars, initialized, setup, iterVars, said, silenced, walk, sessionVars,
                 connVars, requests, before, slipped, ended>>

\* "return IsEnabled()" of Toggle
NowActive(c) == IF IsEnabled(c) THEN "active" ELSE "inactive"

\* "bActive = EnableChannel(...)"
SetActive ==
  /\ mpc = "enabling" /\ tpc["main"] = "idle"
  /\ entries' = [entries EXCEPT ![chosen] = NowActive(chosen)]
  /\ todo' = todo \ {chosen} /\ chosen' = Nil
  /\ mpc' = "enable"
  /\ UNCHANGED <<channelVars, walk, state, connVars, requests,
                 historyVars>>

\* Connect: "but only if we're not already sending/writing".  Network: SendTo
\* opens a socket or fails.  File: the body of WriteToFile is compiled out and
\* it returns true.  None: Start returns false.
Connect(type) ==
  /\ mpc = "enable" /\ todo = {}
  /\ mpc' = "ready"
  /\ \/ /\ type # "None" /\ (IsTracing \/ type = "File")
        /\ state' = "Tracing"
        /\ ended' = (~IsTracing \/ pending = "close")
        /\ UNCHANGED pending
     \/ /\ type = "Network" /\ ~IsTracing
        /\ pending' = "handle"
        /\ state' = "Tracing" /\ ended' = FALSE
     \/ /\ type = "None" \/ (type = "Network" /\ ~IsTracing)
        /\ UNCHANGED <<pending, state, ended>>
  /\ UNCHANGED <<channelVars, walk, entries, chosen, todo, data, requests,
                 before, disturbed, slipped>>

(***************************************************************************)
(* FTraceAuxiliary::Stop, when Writer_Stop has found a connection          *)
(***************************************************************************)
Stop ==
  /\ mpc = "ready"
  /\ data /\ pending = "none"
  /\ pending' = "close"
  /\ state' = "Stopped"
  /\ UNCHANGED <<channelVars, mpc, walk, entries, chosen, todo, data,
                 requests, historyVars>>

(***************************************************************************)
(* The worker                                                              *)
(***************************************************************************)
\* Writer_UpdateConnection opens, closes or rejects what is pending ...
UpdateConnection ==
  /\ WorkerFree
  /\ pending # "none"
  /\ pending' = "none"
  /\ data' = (pending = "handle" \/ (data /\ pending # "close"))
  /\ UNCHANGED <<channelVars, mainVars, requests, historyVars>>

\* ... and a send that fails closes.
LoseConnection ==
  /\ WorkerFree /\ data
  /\ data' = FALSE
  /\ ended' = TRUE
  /\ UNCHANGED <<channelVars, mainVars, pending, requests, before, disturbed, slipped>>

\* The commands ToggleChannels, SendTo and Stop of a client.
CommandToggle(c, bState) ==
  /\ WorkerFree /\ "ToggleChannels" \in Commands /\ requests < MaxRequests
  /\ c \in Listed
  /\ Toggle("worker", c, bState)
  /\ requests' = requests + 1
  /\ Disturb(c)
  /\ UNCHANGED <<listVars, initialized, setup, iterVars, said, silenced, mainVars, connVars,
                 before, slipped, ended>>

CommandSendTo ==
  /\ WorkerFree /\ "SendTo" \in Commands /\ requests < MaxRequests
  /\ ~IsTracing
  /\ pending' = "handle"
  /\ requests' = requests + 1
  /\ UNCHANGED <<channelVars, mainVars, data, historyVars>>

CommandStop ==
  /\ WorkerFree /\ "Stop" \in Commands /\ requests < MaxRequests
  /\ data /\ pending = "none"
  /\ pending' = "close"
  /\ requests' = requests + 1
  /\ ended' = TRUE
  /\ UNCHANGED <<channelVars, mainVars, data, before, disturbed,
                 slipped>>

\* Writer_DescribeAnnounce asks for a connection before it takes the list.
BeginAnnounce ==
  /\ WorkerFree /\ data
  /\ ReadNew
  /\ UNCHANGED <<mainVars, connVars, requests, historyVars>>

Announce ==
  /\ EnterAnnounce \/ FillAnnounce \/ Splice
  /\ UNCHANGED <<mainVars, connVars, requests, historyVars>>

\* A library is loaded ...
SetUpStep(c) ==
  /\ \/ /\ Link(c)
        /\ slipped' = IF mpc \in {"load", "walk", "toggled"} THEN slipped \union {c} ELSE slipped
     \/ CheckInitialized(c) /\ UNCHANGED slipped
  /\ UNCHANGED <<mainVars, connVars, requests, before, disturbed, ended>>

\* ... and whoever is in Toggle goes on.
ToggleStep(t) ==
  /\ EnterToggle(t) \/ FillToggle(t)
  /\ UNCHANGED <<mainVars, connVars, requests, historyVars>>

---------------------------------------------------------------------------
Next ==
  \/ LoadNewList \/ LoadKnownList \/ ToggleWalked \/ NextWalked \/ SetInitialized
  \/ RefuseStart \/ \E names \in Requests : BeginStart(names)
  \/ \E c \in Channels : NotFound(c) \/ IsChannel(c)
  \/ EnableChosen \/ SetActive \/ Stop
  \/ \E type \in Types : Connect(type)
  \/ UpdateConnection \/ LoseConnection
  \/ \E c \in Channels : \E b \in BOOLEAN : CommandToggle(c, b)
  \/ CommandSendTo \/ CommandStop \/ BeginAnnounce \/ Announce
  \/ \E c \in Channels : SetUpStep(c)
  \/ \E t \in Togglers : ToggleStep(t)

Spec == Init /\ [][Next]_vars

\* The worker goes on updating, and so does whoever is in Toggle.  Clients, callers
\* and libraries need do nothing.
FairSpec ==
  /\ Spec
  /\ WF_vars(UpdateConnection) /\ WF_vars(BeginAnnounce) /\ WF_vars(Announce)
  /\ \A t \in Togglers : WF_vars(ToggleStep(t))

---------------------------------------------------------------------------
\* Every variable keeps its type.
TypeOK ==
  /\ {newHead, knownHead, chosen, walk.at, walk.rest, announcing} \subseteq Pointers
  /\ next \in [Channels -> Pointers] /\ enabled \in [Channels -> {-1, 0, 1}]
  /\ setup \in [Channels -> {"none", "linked", "done"}]
  /\ toggling \in [Togglers -> Pointers] /\ tpc \in [Togglers -> {"idle", "enter", "fill"}]
  /\ mpc \in {"boot", "load", "walk", "toggled", "ready", "enable", "found", "enabling"}
  /\ entries \in [Channels -> {"absent", "inactive", "active"}]
  /\ pending \in {"none", "handle", "close"} /\ data \in BOOLEAN

\* "we want to maintain bActive accurately": when a session has been asked for,
\* every channel that it requests and that was set up before is active, and is
\* enabled, but for one that was in the worker's hands when it was looked up, one
\* that a command has toggled, or one that was still in Setup when it was enabled.
RequestedIsEnabled ==
  mpc = "ready" =>
    \A c \in before \ disturbed :
      entries[c] # "absent" => entries[c] = "active" /\ IsEnabled(c)

\* A session that is started has a connection, unless that was lost, closed by a
\* command or already being closed, or never made because it was to be a file.
\* (Without one, no call can stop the session or start another.)
SessionHasConnection == IsConnected => IsTracing \/ ended

\* "All channels are initialized as enabled (zero), and act like so ... until this
\* method is called", and one that is set up later "needs to be disabled": after
\* Initialize no channel is as it was when the process started, but for those that
\* ToggleAll could miss.
OffAfterInitialize ==
  initialized => \A c \in Channels \ slipped : setup[c] = "done" => enabled[c] # 0

\* Together: which channels are on, after Initialize and after a session is asked for.
SessionInv == TypeOK /\ RequestedIsEnabled /\ OffAfterInitialize

\* "True when successfully starting the trace": a session that is started has a
\* connection, which nobody is closing.  (It need not: see the README.)
StartMakesConnection ==
  [][state = "Stopped" /\ state' = "Tracing" => pending' = "handle" \/ (data' /\ pending' # "close")]_vars

\* A channel that is set up while there is a connection is announced, unless the
\* connection goes first.
EventuallyAnnounced ==
  \A c \in Channels : (setup[c] # "none" /\ data) ~> (announced[c] = 1 \/ ~data)
=============================================================================
