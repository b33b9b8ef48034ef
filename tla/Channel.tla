------------------------------ MODULE Channel ------------------------------
(***************************************************************************)
(* Channels (Channel.cpp): a channel is set up when its library is loaded, *)
(* by pushing it on the list of new channels.  The worker takes that list, *)
(* announces each of its channels to the client, and splices what it took  *)
(* in front of the list of known channels.  Meanwhile threads look up      *)
(* channels in both lists and switch them on and off.                      *)
(*                                                                         *)
(* A channel that the worker has taken and not yet spliced is in neither   *)
(* list.  An announcement or a toggle is an important event: its place in  *)
(* what the client reads is claimed when the event is entered, and what it *)
(* says is read afterwards.                                                *)
(***************************************************************************)
EXTENDS Integers, Links

CONSTANTS
  Channels,  \* the channels of the program and of the libraries it loads
  Nil        \* the null pointer

ASSUME ChannelAssumption == Nil \notin Channels

Togglers == {"main", "worker"}
Nobody   == "nobody"

VARIABLES
  newHead,     \* GNewChannelList
  knownHead,   \* GHeadChannel
  next,        \* [Channels -> Channels \union {Nil}] FChannel::Next
  enabled,     \* [Channels -> {-1, 0, 1}] FChannel::Enabled
  initialized, \* GChannelsInitialized
  setup,       \* [Channels -> control state of Setup: "none", "linked" or "done"]
  iter,        \* FChannel::Iter of the worker: its Inner[0], Inner[1] and Inner[2]
  announcing,  \* the channel that the worker is announcing, or Nil
  announced,   \* [Channels -> Nat] times each was announced
  toggling,    \* [Togglers -> channel that a thread is in Toggle for, or Nil]
  tpc,         \* [Togglers -> control state of Toggle]
  said,        \* [Channels -> the last event about it that has a place in the trace]
  silenced     \* history: channels that Setup disabled after an event about them

listVars   == <<newHead, knownHead, next>>
iterVars   == <<iter, announcing, announced>>
toggleVars == <<toggling, tpc>>
channelVars == <<listVars, enabled, initialized, setup, iterVars, toggleVars, said, silenced>>

Pointers == Channels \union {Nil}
Unsaid   == [by |-> Nobody, on |-> FALSE, placed |-> FALSE]

ChannelInit ==
  /\ newHead = Nil /\ knownHead = Nil /\ next = [c \in Channels |-> Nil]
  /\ enabled = [c \in Channels |-> 0] /\ initialized = FALSE
  /\ setup = [c \in Channels |-> "none"]
  /\ iter = [at |-> Nil, first |-> Nil, last |-> Nil] /\ announcing = Nil
  /\ announced = [c \in Channels |-> 0]
  /\ toggling = [t \in Togglers |-> Nil] /\ tpc = [t \in Togglers |-> "idle"]
  /\ said = [c \in Channels |-> Unsaid] /\ silenced = {}

IsEnabled(c) == enabled[c] >= 0

\* The channels that a walk along the links from p meets.
Chain(p) == Reach(next, p)

\* An event about c takes its place, and t is to write what it says.
Place(t, c) == said' = [said EXCEPT ![c] = [by |-> t, on |-> FALSE, placed |-> TRUE]]

\* "IsEnabled(IsEnabled())": t writes what its event says, if no later event about
\* c has made that immaterial.
Fill(t, c) ==
  said' = IF said[c].by = t
          THEN [said EXCEPT ![c] = [by |-> Nobody, on |-> IsEnabled(c), placed |-> TRUE]]
          ELSE said

(***************************************************************************)
(* Slips: what a definition below would be with a likely mistake in the    *)
(* code.  Each breaks a property; the specification uses none of them.     *)
(***************************************************************************)
\* Announce takes a channel that is new to be disabled.
FillAnnounceSlip ==
  /\ announcing # Nil
  /\ said' = [said EXCEPT ![announcing] = [by |-> Nobody, on |-> FALSE, placed |-> TRUE]]
  /\ announcing' = Nil
  /\ UNCHANGED <<listVars, enabled, initialized, setup, iter, announced, toggleVars, silenced>>

\* ~Iter does not link the taken channels to the known ones.
SpliceSlip ==
  /\ iter.first # Nil /\ iter.at = Nil /\ announcing = Nil
  /\ knownHead' = iter.first
  /\ iter' = [at |-> Nil, first |-> Nil, last |-> Nil]
  /\ UNCHANGED <<newHead, next, enabled, initialized, setup, announcing, announced,
                 toggleVars, said, silenced>>

(***************************************************************************)
(* Setup                                                                   *)
(***************************************************************************)
\* "Append channel to the linked list of new channels."
Link(c) ==
  /\ setup[c] = "none"
  /\ setup' = [setup EXCEPT ![c] = "linked"]
  /\ next' = [next EXCEPT ![c] = newHead]
  /\ newHead' = c
  /\ UNCHANGED <<knownHead, enabled, initialized, iterVars, toggleVars, said, silenced>>

\* "if (GChannelsInitialized) Enabled = -1": no event tells of it.
CheckInitialized(c) ==
  /\ setup[c] = "linked"
  /\ setup' = [setup EXCEPT ![c] = "done"]
  /\ enabled' = [enabled EXCEPT ![c] = IF initialized THEN -1 ELSE @]
  /\ silenced' = IF initialized /\ said[c].placed THEN silenced \union {c} ELSE silenced
  /\ UNCHANGED <<listVars, initialized, iterVars, toggleVars, said>>

(***************************************************************************)
(* FindChannel and Toggle                                                  *)
(***************************************************************************)
\* What FindChannel, and the lists that ToggleAll loads, can reach.
Listed == Chain(newHead) \union Chain(knownHead)

\* AtomicStoreRelaxed(&Enabled, ...)
Toggle(t, c, bEnabled) ==
  /\ tpc[t] = "idle"
  /\ enabled' = [enabled EXCEPT ![c] = IF bEnabled THEN 1 ELSE -1]
  /\ toggling' = [toggling EXCEPT ![t] = c]
  /\ tpc' = [tpc EXCEPT ![t] = "enter"]

EnterToggle(t) ==
  /\ tpc[t] = "enter"
  /\ Place(t, toggling[t])
  /\ tpc' = [tpc EXCEPT ![t] = "fill"]
  /\ UNCHANGED <<listVars, enabled, initialized, setup, iterVars, toggling, silenced>>

FillToggle(t) ==
  /\ tpc[t] = "fill"
  /\ Fill(t, toggling[t])
  /\ toggling' = [toggling EXCEPT ![t] = Nil]
  /\ tpc' = [tpc EXCEPT ![t] = "idle"]
  /\ UNCHANGED <<listVars, enabled, initialized, setup, iterVars, silenced>>

(***************************************************************************)
(* ReadNew, Iter and Announce: Writer_AnnounceChannels                     *)
(***************************************************************************)
ReadNew ==
  /\ iter.first = Nil
  /\ newHead # Nil
  /\ newHead' = Nil
  /\ iter' = [at |-> newHead, first |-> newHead, last |-> newHead]
  /\ UNCHANGED <<knownHead, next, enabled, initialized, setup, announcing, announced,
                 toggleVars, said, silenced>>

\* GetNext, and Announce up to where its event has a place.
EnterAnnounce ==
  LET c == iter.at IN
  /\ c # Nil /\ announcing = Nil
  /\ iter' = [iter EXCEPT !.at = next[c], !.last = IF next[c] # Nil THEN next[c] ELSE @]
  /\ announcing' = c
  /\ announced' = [announced EXCEPT ![c] = @ + 1]
  /\ Place("worker", c)
  /\ UNCHANGED <<listVars, enabled, initialized, setup, toggleVars, silenced>>

FillAnnounce ==
  /\ announcing # Nil
  /\ Fill("worker", announcing)
  /\ announcing' = Nil
  /\ UNCHANGED <<listVars, enabled, initialized, setup, iter, announced, toggleVars, silenced>>

\* ~Iter: only the worker changes the list of known channels, so that its
\* compare-exchange succeeds at once.
Splice ==
  /\ iter.first # Nil /\ iter.at = Nil /\ announcing = Nil
  /\ next' = [next EXCEPT ![iter.last] = knownHead]
  /\ knownHead' = iter.first
  /\ iter' = [at |-> Nil, first |-> Nil, last |-> Nil]
  /\ UNCHANGED <<newHead, enabled, initialized, setup, announcing, announced, toggleVars,
                 said, silenced>>

---------------------------------------------------------------------------
\* What the worker has taken and not yet put back.
Taken == Chain(iter.first)

\* However set-ups, announcements and splices interleave, a channel that was set
\* up is in exactly one place: new, in the worker's hands, or known; and it is
\* announced once, in the worker's hands.
ChannelsKept ==
  /\ Chain(newHead) \union Chain(knownHead) \union Taken = {c \in Channels : setup[c] # "none"}
  /\ Chain(newHead) \intersect Chain(knownHead) = {}
  /\ Taken \intersect (Chain(newHead) \union Chain(knownHead)) = {}
  /\ \A c \in Channels :
       announced[c] = IF c \in Chain(knownHead) \union (Taken \ Chain(iter.at)) THEN 1 ELSE 0

\* The last that the client reads about a channel is what the channel is,
\* whoever toggled it while it was being announced; but for a channel that Setup
\* disables without an event.
ClientKnows ==
  \A c \in Channels :
    announced[c] = 1 /\ c \notin silenced /\ said[c].by = Nobody
    /\ (\A t \in Togglers : toggling[t] # c) /\ announcing # c
       => said[c].on = IsEnabled(c)
=============================================================================
