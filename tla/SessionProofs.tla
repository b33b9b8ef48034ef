---------------------------- MODULE SessionProofs ----------------------------
(* What Session promises for any number of channels: the lists of channels *)
(* that threads change without a lock, what the client is told, and which  *)
(* channels are on.                                                        *)
EXTENDS Session, LinkProofs, TLAPS

\* TypeOK for the other variables.
OtherTypes ==
  /\ iter \in [at : Pointers, first : Pointers, last : Pointers] /\ announced \in [Channels -> Nat]
  /\ said \in [Channels -> [by : Togglers \union {Nobody}, on : BOOLEAN, placed : BOOLEAN]]
  /\ walk \in [at : Pointers, rest : Pointers] /\ todo \subseteq Channels

\* The lists are lists: no channel comes after itself, and what the worker has taken ends
\* where Iter says it ends.
LinkInv ==
  /\ \A c \in Channels : c \notin Chain(next[c]) /\ (setup[c] = "none" => next[c] = Nil)
  /\ iter.first = Nil => iter.at = Nil
  /\ iter.first # Nil => /\ iter.last \in Taken
                         /\ IF iter.at = Nil THEN next[iter.last] = Nil ELSE iter.at = iter.last
  /\ Chain(iter.at) \subseteq Taken

\* What a thread is in the middle of.
ThreadInv ==
  /\ \A t \in Togglers : tpc[t] # "idle" => toggling[t] # Nil
  /\ announcing # Nil => announced[announcing] > 0
  /\ mpc \in {"found", "enabling"} => chosen # Nil
  /\ mpc = "toggled" => walk.at # Nil
  /\ mpc \notin {"enable", "found", "enabling"} => todo = {}
  /\ initialized <=> mpc \notin {"boot", "load", "walk", "toggled"}

\* An event about a channel whose place is the last says what the channel is, once it is
\* written, unless a toggle that has no place yet has changed that.
SaidInv ==
  \A c \in Channels :
    /\ announced[c] > 0 => said[c].placed
    /\ said[c].placed /\ said[c].by = Nobody /\ c \notin silenced
       /\ (\A t \in Togglers : tpc[t] = "enter" => toggling[t] # c)
       => said[c].on = IsEnabled(c)

\* A channel that ToggleAll has not switched off is still before it.
WalkInv ==
  /\ \A c \in Channels \ slipped : setup[c] # "none" =>
       /\ mpc = "load" => c \in Chain(walk.at) \union Chain(knownHead)
       /\ mpc \in {"walk", "toggled"} =>
            c \in Chain(walk.at) \union Chain(walk.rest) \/ enabled[c] # 0
  /\ mpc = "toggled" => enabled[walk.at] # 0

\* A channel that was requested is still to be enabled, or is enabled and stays so.
StartInv ==
  /\ before # {} => initialized
  /\ before \subseteq {c \in Channels : setup[c] # "none"}
  /\ \A c \in before \ disturbed : entries[c] # "absent" /\ c \notin todo =>
       entries[c] = "active" /\ setup[c] = "done" /\ IsEnabled(c)
  /\ mpc = "enabling" /\ chosen \notin disturbed => setup[chosen] = "done" /\ IsEnabled(chosen)

\* Whoever asks for the connection to be closed leaves no session behind.
ConnInv == SessionHasConnection /\ (pending = "close" => state = "Stopped" \/ ended)

ChannelInv == /\ TypeOK /\ OtherTypes /\ LinkInv /\ ChannelsKept /\ ThreadInv /\ SaidInv
              /\ OffAfterInitialize /\ WalkInv /\ StartInv /\ ConnInv

USE ChannelAssumption DEF Pointers

(***************************************************************************)
(* The lists of channels                                                   *)
(***************************************************************************)
ListInv == TypeOK /\ OtherTypes /\ LinkInv /\ ChannelsKept

\* What the lists hold are channels, and the links lead to channels.
LEMMA ListTypes ==
  ASSUME ListInv
  PROVE  /\ next \in [Channels -> Pointers] /\ {newHead, knownHead} \subseteq Pointers
         /\ {iter.first, iter.at, iter.last} \subseteq Pointers
         /\ setup \in [Channels -> {"none", "linked", "done"}] /\ announced \in [Channels -> Nat]
BY DEF ListInv, TypeOK, OtherTypes

\* What is linked behind a channel is in the place where that channel is.
LEMMA Behind ==
  ASSUME ListInv, NEW p \in Pointers, NEW d \in Chain(p)
  PROVE  d \in Channels /\ Chain(next[d]) \subseteq Chain(p) \ {d}
<1>1. d \in Channels /\ (next[d] = Nil \/ next[d] \in Chain(p))
  BY ListTypes, ReachFacts DEF Chain
<1>2. Chain(next[d]) \subseteq Chain(p)
  <2>1. CASE next[d] = Nil
    BY <2>1, ListTypes, ReachFacts DEF Chain
  <2>2. CASE next[d] \in Chain(p)
    BY <2>2, ListTypes, ReachInside DEF Chain
  <2> QED
    BY <1>1, <2>1, <2>2
<1> QED
  BY <1>1, <1>2 DEF ListInv, LinkInv

\* A channel that is not set up is behind no channel.
LEMMA NotLinked ==
  ASSUME ListInv, NEW c \in Channels, setup[c] = "none"
  PROVE  /\ c \notin Chain(newHead) \union Chain(knownHead) \union Taken \union Chain(iter.at)
         /\ \A d \in Channels : c \notin Chain(next[d])
<1>1. c \notin Chain(newHead) \union Chain(knownHead) \union Taken \union Chain(iter.at)
  BY DEF ListInv, ChannelsKept, LinkInv
<1>2. ASSUME NEW d \in Channels PROVE c \notin Chain(next[d])
  <2>1. CASE setup[d] = "none"
    BY <2>1, ListTypes, ReachFacts DEF ListInv, LinkInv, Chain
  <2>2. CASE setup[d] # "none"
    <3>1. d \in Chain(newHead) \/ d \in Chain(knownHead) \/ d \in Chain(iter.first)
      BY <2>2 DEF ListInv, ChannelsKept, Taken
    <3> QED
      BY <1>1, <3>1, Behind, ListTypes DEF Taken
  <2> QED
    BY <2>1, <2>2
<1> QED
  BY <1>1, <1>2

\* A new channel becomes the first of the new ones.
LEMMA LinkKeepsLists ==
  ASSUME ListInv, NEW c \in Channels, Link(c)
  PROVE  LinkInv' /\ ChannelsKept'
<1>1. /\ setup[c] = "none" /\ setup' = [setup EXCEPT ![c] = "linked"]
      /\ next' = [next EXCEPT ![c] = newHead] /\ newHead' = c
      /\ UNCHANGED <<knownHead, iter, announced>>
  BY DEF Link, iterVars
<1>2. /\ next' \in [Channels -> Pointers] /\ next'[c] = newHead
      /\ \A d \in Channels : d # c => next'[d] = next[d]
  BY <1>1, ListTypes
<1>3. ASSUME NEW p \in Pointers, c \notin Chain(p) PROVE Reach(next', p) = Chain(p)
  <2>1. \A d \in Reach(next, p) : next'[d] = next[d]
    BY <1>2, <1>3, ListTypes, ReachFacts DEF Chain
  <2> QED
    BY <1>2, <2>1, ListTypes, ReachAgree DEF Chain
<1>4. Chain(knownHead)' = Chain(knownHead) /\ Taken' = Taken /\ Chain(iter.at)' = Chain(iter.at)
  BY <1>1, <1>3, NotLinked, ListTypes DEF Chain, Taken
<1>5. Reach(next', newHead) = Chain(newHead)
  BY <1>1, <1>3, NotLinked, ListTypes
<1>6. Chain(newHead)' = {c} \union Chain(newHead)
  <2>1. Reach(next', c) = {c} \union Reach(next', next'[c])
    BY <1>2, ReachStep
  <2> QED
    BY <1>1, <1>2, <1>5, <2>1 DEF Chain
<1>7. LinkInv'
  <2>1. ASSUME NEW d \in Channels PROVE d \notin Chain(next[d])' /\ (setup'[d] = "none" => next'[d] = Nil)
    <3>1. CASE d = c
      BY <1>1, <1>2, <1>5, <3>1, NotLinked, ListTypes DEF Chain
    <3>2. CASE d # c
      BY <1>1, <1>2, <1>3, <3>2, NotLinked, ListTypes DEF Chain, ListInv, LinkInv
    <3> QED
      BY <3>1, <3>2
  <2>2. iter.first # Nil => iter.last \in Channels /\ iter.last # c
    BY <1>1, NotLinked, ListTypes, ReachFacts DEF ListInv, LinkInv, Taken, Chain
  <2> QED
    BY <1>1, <1>2, <1>4, <2>1, <2>2 DEF ListInv, LinkInv
<1>8. ChannelsKept'
  BY <1>1, <1>4, <1>6, NotLinked, ListTypes DEF ListInv, ChannelsKept
<1> QED
  BY <1>7, <1>8

\* The worker takes the new channels.
LEMMA ReadNewKeepsLists ==
  ASSUME ListInv, ReadNew
  PROVE  LinkInv' /\ ChannelsKept'
<1>1. /\ iter.first = Nil /\ newHead # Nil /\ newHead' = Nil
      /\ iter' = [at |-> newHead, first |-> newHead, last |-> newHead]
      /\ UNCHANGED <<knownHead, next, setup, announced>>
  BY DEF ReadNew
<1>2. /\ Chain(newHead)' = {} /\ Chain(knownHead)' = Chain(knownHead)
      /\ Taken' = Chain(newHead) /\ Chain(iter.at)' = Chain(newHead)
  BY <1>1, ListTypes, ReachFacts DEF Chain, Taken
<1>3. Taken = {} /\ newHead \in Chain(newHead)
  BY <1>1, ListTypes, ReachFacts DEF Chain, Taken
<1>4. \A d \in Channels : Chain(next[d])' = Chain(next[d])
  BY <1>1 DEF Chain
<1>5. LinkInv'
  BY <1>1, <1>2, <1>3, <1>4 DEF ListInv, LinkInv
<1>6. ChannelsKept'
  BY <1>1, <1>2, <1>3 DEF ListInv, ChannelsKept
<1> QED
  BY <1>5, <1>6

\* It announces the next of those it has taken.
LEMMA EnterAnnounceKeepsLists ==
  ASSUME ListInv, EnterAnnounce
  PROVE  LinkInv' /\ ChannelsKept'
<1> DEFINE c == iter.at
<1>1. /\ c # Nil /\ iter'.at = next[c] /\ iter'.first = iter.first
      /\ iter'.last = IF next[c] # Nil THEN next[c] ELSE iter.last
      /\ announced' = [announced EXCEPT ![c] = @ + 1]
      /\ UNCHANGED <<newHead, knownHead, next, setup>>
  BY DEF EnterAnnounce, listVars, ListInv, OtherTypes
<1>2. c \in Channels /\ next[c] \in Pointers /\ c \in Chain(c) /\ iter.first # Nil /\ iter.last = c
  BY <1>1, ListTypes, ReachFacts DEF ListInv, LinkInv, Chain
<1>3. Chain(c) = {c} \union Chain(next[c]) /\ c \notin Chain(next[c])
  BY <1>2, ListTypes, ReachStep DEF ListInv, LinkInv, Chain
<1>4. /\ Chain(newHead)' = Chain(newHead) /\ Chain(knownHead)' = Chain(knownHead)
      /\ Taken' = Taken /\ Chain(iter.at)' = Chain(next[c])
      /\ \A d \in Channels : Chain(next[d])' = Chain(next[d])
  BY <1>1 DEF Chain, Taken
<1>5. next[c] # Nil => next[c] \in Chain(next[c])
  BY <1>2, ListTypes, ReachFacts DEF Chain
<1>6. c \in Taken /\ Chain(next[c]) \subseteq Taken
  BY <1>2, <1>3 DEF ListInv, LinkInv
<1>7. LinkInv'
  BY <1>1, <1>2, <1>4, <1>5, <1>6 DEF ListInv, LinkInv
<1>8. ChannelsKept'
  <2>1. announced[c] = 0 /\ announced'[c] = 1 /\ \A d \in Channels : d # c => announced'[d] = announced[d]
    BY <1>1, <1>2, <1>6, ListTypes DEF ListInv, ChannelsKept
  <2> HIDE DEF c
  <2> QED
    BY <1>1, <1>3, <1>4, <1>6, <2>1 DEF ListInv, ChannelsKept, c
<1> QED
  BY <1>7, <1>8

\* It puts what it has taken in front of the channels that are known.
LEMMA SpliceKeepsLists ==
  ASSUME ListInv, Splice
  PROVE  LinkInv' /\ ChannelsKept' /\ Chain(knownHead) \subseteq Chain(knownHead)'
<1> DEFINE l == iter.last
<1>1. /\ iter.first # Nil /\ iter.at = Nil
      /\ next' = [next EXCEPT ![l] = knownHead] /\ knownHead' = iter.first
      /\ iter' = [at |-> Nil, first |-> Nil, last |-> Nil]
      /\ UNCHANGED <<newHead, setup, announced>>
  BY DEF Splice
<1>2. l \in Taken /\ l \in Channels /\ next[l] = Nil
  BY <1>1, ListTypes, ReachFacts DEF ListInv, LinkInv, Taken, Chain
<1> HIDE DEF l
<1>3. /\ next' \in [Channels -> Pointers] /\ next'[l] = knownHead
      /\ \A d \in Channels : d # l => next'[d] = next[d]
  BY <1>1, <1>2, ListTypes
<1>4. ASSUME NEW p \in Pointers, l \notin Chain(p) PROVE Reach(next', p) = Chain(p)
  <2>1. \A d \in Reach(next, p) : next'[d] = next[d]
    BY <1>3, <1>4, ListTypes, ReachFacts DEF Chain
  <2> QED
    BY <1>3, <2>1, ListTypes, ReachAgree DEF Chain
<1>5. Chain(newHead)' = Chain(newHead) /\ Reach(next', knownHead) = Chain(knownHead)
  BY <1>1, <1>2, <1>4, ListTypes DEF ListInv, ChannelsKept, Chain
<1>6. ASSUME NEW p \in Pointers PROVE Reach(next', p) \subseteq Chain(p) \union Chain(knownHead)
  <2> DEFINE S == Chain(p) \union Chain(knownHead)
  <2>1. /\ S \in SUBSET Channels /\ (p = Nil \/ p \in S)
        /\ \A d \in S : next'[d] = Nil \/ next'[d] \in S
    BY <1>3, ListTypes, ReachFacts DEF Chain
  <2> HIDE DEF S
  <2>2. Reach(next', p) \subseteq S
    BY <1>3, <2>1, ReachLeast
  <2> QED
    BY <2>2 DEF S
<1>7. Chain(knownHead)' = Taken \union Chain(knownHead)
  <2>1. Taken \subseteq Reach(next', iter.first)
    BY <1>2, <1>3, ListTypes, ReachGrows DEF Taken, Chain
  <2>2. knownHead = Nil \/ knownHead \in Reach(next', iter.first)
    BY <1>2, <1>3, <2>1, ListTypes, ReachFacts
  <2>3. Reach(next', knownHead) \subseteq Reach(next', iter.first)
    BY <1>3, <2>2, ListTypes, ReachFacts, ReachInside
  <2> QED
    BY <1>1, <1>5, <1>6, <2>1, <2>3, ListTypes DEF Taken, Chain
<1>8. Taken' = {} /\ Chain(iter.at)' = {}
  <2>1. Reach(next', Nil) = {}
    BY <1>3, ReachFacts
  <2> QED
    BY <1>1, <2>1 DEF Taken, Chain
<1>9. ASSUME NEW d \in Channels PROVE d \notin Chain(next[d])' /\ (setup'[d] = "none" => next'[d] = Nil)
  <2>1. CASE d = l
    BY <1>1, <1>2, <1>3, <1>5, <2>1 DEF ListInv, ChannelsKept, Chain
  <2>2. CASE d # l /\ d \in Taken
    BY <1>1, <1>3, <1>6, <2>2, ListTypes DEF ListInv, ChannelsKept, LinkInv, Chain
  <2>3. CASE d # l /\ d \notin Taken
    <3>1. l \notin Chain(next[d])
      <4>1. CASE setup[d] = "none"
        BY <4>1, ListTypes, ReachFacts DEF ListInv, LinkInv, Chain
      <4>2. CASE setup[d] # "none"
        <5>1. d \in Chain(newHead) \/ d \in Chain(knownHead)
          BY <2>3, <4>2 DEF ListInv, ChannelsKept
        <5> QED
          BY <1>2, <5>1, Behind, ListTypes DEF ListInv, ChannelsKept
      <4> QED
        BY <4>1, <4>2
    <3> QED
      BY <1>1, <1>3, <1>4, <2>3, <3>1, ListTypes DEF ListInv, LinkInv, Chain
  <2> QED
    BY <2>1, <2>2, <2>3
<1>10. LinkInv'
  BY <1>1, <1>8, <1>9 DEF LinkInv
<1>11. ChannelsKept'
  <2>1. Chain(iter.at) = {}
    BY <1>1, ListTypes, ReachFacts DEF Chain
  <2> QED
    BY <1>1, <1>5, <1>7, <1>8, <2>1 DEF ListInv, ChannelsKept
<1> QED
  BY <1>7, <1>10, <1>11

(***************************************************************************)
(* What each step leaves alone                                             *)
(***************************************************************************)
USE RequestAssumption
    DEF channelVars, listVars, iterVars, toggleVars, sessionVars, mainVars, connVars, historyVars

\* Only four steps change the lists.
LEMMA ListsKept ==
  ASSUME ListInv, [Next]_vars
  PROVE  LinkInv' /\ ChannelsKept'
<1>1. CASE /\ UNCHANGED <<newHead, knownHead, next, iter, announced>>
           /\ \A c \in Channels : setup'[c] = "none" <=> setup[c] = "none"
  BY <1>1 DEF ListInv, LinkInv, ChannelsKept, Chain, Taken
<1>2. CASE ReadNew \/ EnterAnnounce \/ Splice \/ \E c \in Channels : Link(c)
  BY <1>2, ReadNewKeepsLists, EnterAnnounceKeepsLists, SpliceKeepsLists, LinkKeepsLists
<1>3. CASE LoadNewList \/ LoadKnownList \/ ToggleWalked \/ NextWalked \/ SetInitialized
  BY <1>1, <1>3 DEF LoadNewList, LoadKnownList, ToggleWalked, NextWalked, SetInitialized, Toggle
<1>4. CASE RefuseStart \/ (\E names \in Requests : BeginStart(names)) \/ EnableChosen \/ SetActive
           \/ (\E c \in Channels : NotFound(c) \/ IsChannel(c)) \/ \E type \in Types : Connect(type)
  BY <1>1, <1>4 DEF RefuseStart, BeginStart, NotFound, IsChannel, EnableChosen, SetActive, Connect, Toggle
<1>5. CASE Stop \/ UpdateConnection \/ LoseConnection \/ CommandSendTo \/ CommandStop
           \/ \E c \in Channels : \E b \in BOOLEAN : CommandToggle(c, b)
  BY <1>1, <1>5 DEF Stop, UpdateConnection, LoseConnection, CommandToggle, CommandSendTo, CommandStop, Toggle
<1>6. ASSUME NEW c \in Channels, CheckInitialized(c)
      PROVE  /\ UNCHANGED <<newHead, knownHead, next, iter, announced>>
             /\ \A d \in Channels : setup'[d] = "none" <=> setup[d] = "none"
  BY <1>6, ListTypes DEF CheckInitialized
<1>7. CASE \E c \in Channels : SetUpStep(c)
  BY <1>1, <1>2, <1>6, <1>7 DEF SetUpStep
<1>8. CASE BeginAnnounce \/ Announce \/ \E t \in Togglers : ToggleStep(t)
  BY <1>1, <1>2, <1>8 DEF BeginAnnounce, Announce, FillAnnounce, ToggleStep, EnterToggle, FillToggle
<1>9. CASE UNCHANGED vars
  BY <1>1, <1>9 DEF vars
<1> QED
  BY <1>3, <1>4, <1>5, <1>7, <1>8, <1>9 DEF Next

\* The variables keep their types.
LEMMA TypesKept ==
  ASSUME TypeOK, OtherTypes, ThreadInv, [Next]_vars
  PROVE  TypeOK' /\ OtherTypes'
<1> USE DEF TypeOK, OtherTypes, Togglers
<1>1. CASE UNCHANGED vars
  BY <1>1 DEF vars
<1>2. CASE LoadNewList \/ LoadKnownList \/ NextWalked \/ SetInitialized
  <2>1. mpc = "toggled" => next[walk.at] \in Pointers
    BY DEF ThreadInv
  <2>2. walk' \in [at : Pointers, rest : Pointers]
    <3>1. CASE LoadNewList \/ LoadKnownList \/ SetInitialized
      BY <3>1 DEF LoadNewList, LoadKnownList, SetInitialized
    <3>2. CASE NextWalked
      <4>1. CASE mpc = "toggled" /\ walk' = [walk EXCEPT !.at = next[@]]
        BY <2>1, <4>1
      <4>2. CASE walk' = [at |-> walk.rest, rest |-> Nil]
        BY <4>2
      <4> QED
        BY <3>2, <4>1, <4>2 DEF NextWalked
    <3> QED
      BY <1>2, <3>1, <3>2
  <2>3. /\ mpc' \in {"load", "walk", "ready"}
        /\ UNCHANGED <<listVars, enabled, setup, iterVars, toggleVars, said, sessionVars, connVars>>
    BY <1>2 DEF LoadNewList, LoadKnownList, NextWalked, SetInitialized
  <2> QED
    BY <2>2, <2>3
<1>3. CASE RefuseStart \/ (\E names \in Requests : BeginStart(names)) \/ SetActive
  <2>1. CASE RefuseStart
    BY <2>1 DEF RefuseStart
  <2>2. CASE \E names \in Requests : BeginStart(names)
    <3>1. PICK names \in SUBSET Channels : BeginStart(names)
      BY <2>2
    <3> QED
      BY <3>1 DEF BeginStart
  <2>3. CASE SetActive
    <3>1. chosen \in Channels /\ NowActive(chosen) \in {"active", "inactive"}
      BY <2>3 DEF SetActive, ThreadInv, NowActive
    <3> QED
      BY <2>3, <3>1 DEF SetActive
  <2> QED
    BY <1>3, <2>1, <2>2, <2>3
<1>4. CASE (\E c \in Channels : NotFound(c) \/ IsChannel(c)) \/ \E type \in Types : Connect(type)
  BY <1>4 DEF NotFound, IsChannel, Connect
<1>5. CASE ToggleWalked \/ EnableChosen
  <2>1. PICK c \in Channels, b \in BOOLEAN : Toggle("main", c, b)
    BY <1>5 DEF ThreadInv, ToggleWalked, EnableChosen
  <2>2. enabled' \in [Channels -> {-1, 0, 1}] /\ toggling' \in [Togglers -> Channels \union {Nil}]
        /\ tpc' \in [Togglers -> {"idle", "enter", "fill"}]
    BY <2>1 DEF Toggle
  <2>3. /\ mpc' \in {"toggled", "enabling"}
        /\ UNCHANGED <<listVars, setup, iterVars, said, walk, sessionVars, connVars>>
    BY <1>5 DEF ToggleWalked, EnableChosen
  <2> QED
    BY <2>2, <2>3
<1>6. CASE \E c \in Channels : \E b \in BOOLEAN : CommandToggle(c, b)
  BY <1>6 DEF CommandToggle, Toggle
<1>7. CASE Stop \/ UpdateConnection \/ LoseConnection \/ CommandSendTo \/ CommandStop
  <2>1. /\ pending' \in {"none", "handle", "close"} /\ data' \in BOOLEAN
        /\ UNCHANGED <<channelVars, mpc, walk, entries, chosen, todo>>
    BY <1>7 DEF Stop, UpdateConnection, LoseConnection, CommandSendTo, CommandStop
  <2> QED
    BY <2>1
<1>8. CASE BeginAnnounce
  BY <1>8 DEF BeginAnnounce, ReadNew
<1>9. CASE Announce
  <2>1. CASE EnterAnnounce
    <3>1. iter.at \in Channels /\ next[iter.at] \in Pointers /\ iter.last \in Pointers
      BY <2>1 DEF EnterAnnounce
    <3>2. said' \in [Channels -> [by : Togglers \union {Nobody}, on : BOOLEAN, placed : BOOLEAN]]
      BY <2>1, <3>1 DEF EnterAnnounce, Place
    <3>3. iter' \in [at : Pointers, first : Pointers, last : Pointers]
      BY <2>1, <3>1 DEF EnterAnnounce
    <3>4. announced' \in [Channels -> Nat]
      BY <2>1, <3>1 DEF EnterAnnounce
    <3> QED
      BY <1>9, <2>1, <3>1, <3>2, <3>3, <3>4 DEF Announce, EnterAnnounce
  <2>2. CASE FillAnnounce
    <3>1. said' \in [Channels -> [by : Togglers \union {Nobody}, on : BOOLEAN, placed : BOOLEAN]]
      BY <2>2 DEF FillAnnounce, Fill, IsEnabled
    <3> QED
      BY <1>9, <2>2, <3>1 DEF Announce, FillAnnounce
  <2>3. CASE Splice
    <3>1. next' \in [Channels -> Pointers] /\ knownHead' \in Pointers
          /\ iter' \in [at : Pointers, first : Pointers, last : Pointers]
      BY <2>3 DEF Splice
    <3> QED
      BY <1>9, <2>3, <3>1 DEF Announce, Splice
  <2> QED
    BY <1>9, <2>1, <2>2, <2>3 DEF Announce
<1>10. CASE \E c \in Channels : SetUpStep(c)
  BY <1>10 DEF SetUpStep, Link, CheckInitialized
<1>11. CASE \E t \in Togglers : ToggleStep(t)
  <2>1. PICK t \in Togglers : ToggleStep(t)
    BY <1>11
  <2>2. toggling[t] \in Channels
    BY <2>1 DEF ToggleStep, EnterToggle, FillToggle, ThreadInv
  <2>3. said' \in [Channels -> [by : Togglers \union {Nobody}, on : BOOLEAN, placed : BOOLEAN]]
    <3>1. CASE EnterToggle(t)
      BY <2>2, <3>1 DEF EnterToggle, Place
    <3>2. CASE FillToggle(t)
      BY <2>2, <3>2 DEF FillToggle, Fill, IsEnabled
    <3> QED
      BY <2>1, <3>1, <3>2 DEF ToggleStep
  <2>4. toggling' \in [Togglers -> Pointers] /\ tpc' \in [Togglers -> {"idle", "enter", "fill"}]
    BY <2>1 DEF ToggleStep, EnterToggle, FillToggle
  <2> QED
    BY <2>1, <2>3, <2>4 DEF ToggleStep, EnterToggle, FillToggle
<1> QED
  BY <1>1, <1>2, <1>3, <1>4, <1>5, <1>6, <1>7, <1>8, <1>9, <1>10, <1>11 DEF Next

\* A step leaves the channels' names, toggles in progress and the main thread consistent.
LEMMA ThreadKept ==
  ASSUME TypeOK, OtherTypes, ThreadInv, [Next]_vars
  PROVE  ThreadInv'
<1> USE DEF TypeOK, OtherTypes, ThreadInv
<1>1. CASE UNCHANGED vars
  BY <1>1 DEF vars
<1>2. CASE LoadNewList \/ LoadKnownList \/ NextWalked \/ SetInitialized
  BY <1>2 DEF LoadNewList, LoadKnownList, NextWalked, SetInitialized
<1>3. CASE RefuseStart \/ (\E names \in Requests : BeginStart(names)) \/ SetActive
           \/ (\E c \in Channels : NotFound(c) \/ IsChannel(c)) \/ \E type \in Types : Connect(type)
  BY <1>3 DEF RefuseStart, BeginStart, SetActive, NotFound, IsChannel, Connect
<1>4. CASE ToggleWalked \/ EnableChosen \/ \E c \in Channels : \E b \in BOOLEAN : CommandToggle(c, b)
  <2>1. /\ \E t \in Togglers, c \in Channels :
             toggling' = [toggling EXCEPT ![t] = c] /\ tpc' = [tpc EXCEPT ![t] = "enter"]
        /\ UNCHANGED <<announcing, announced, chosen, walk, todo, initialized>>
    <3>1. CASE ToggleWalked
      <4>1. walk.at \in Channels
        BY <3>1 DEF ToggleWalked, Pointers
      <4>2. "main" \in Togglers
        BY DEF Togglers
      <4> QED
        BY <3>1, <4>1, <4>2 DEF ToggleWalked, Toggle, iterVars, sessionVars
    <3>2. CASE EnableChosen
      <4>1. chosen \in Channels
        BY <3>2 DEF EnableChosen, Pointers
      <4>2. "main" \in Togglers
        BY DEF Togglers
      <4> QED
        BY <3>2, <4>1, <4>2 DEF EnableChosen, Toggle, iterVars, sessionVars
    <3>3. CASE \E c \in Channels : \E b \in BOOLEAN : CommandToggle(c, b)
      <4>1. "worker" \in Togglers
        BY DEF Togglers
      <4> QED
        BY <3>3, <4>1 DEF CommandToggle, Toggle, iterVars, mainVars, sessionVars
    <3> QED
      BY <1>4, <3>1, <3>2, <3>3
  <2>2. mpc' = mpc \/ (mpc = "walk" /\ walk.at # Nil /\ mpc' = "toggled") \/ (mpc = "found" /\ mpc' = "enabling")
    BY <1>4 DEF ToggleWalked, EnableChosen, CommandToggle
  <2>3. \A t \in Togglers : tpc'[t] # "idle" => toggling'[t] # Nil
    BY <2>1, ChannelAssumption
  <2> QED
    BY <2>1, <2>2, <2>3
<1>5. CASE Stop \/ UpdateConnection \/ LoseConnection \/ CommandSendTo \/ CommandStop
  BY <1>5 DEF Stop, UpdateConnection, LoseConnection, CommandSendTo, CommandStop
<1>6. CASE BeginAnnounce \/ Announce
  BY <1>6 DEF BeginAnnounce, ReadNew, Announce, EnterAnnounce, FillAnnounce, Splice
<1>7. CASE \E c \in Channels : SetUpStep(c)
  BY <1>7 DEF SetUpStep, Link, CheckInitialized
<1>8. CASE \E t \in Togglers : ToggleStep(t)
  BY <1>8 DEF ToggleStep, EnterToggle, FillToggle
<1> QED
  BY <1>1, <1>2, <1>3, <1>4, <1>5, <1>6, <1>7, <1>8 DEF Next

\* Whoever toggles or announces a channel while others do, its last event tells the truth.
LEMMA SaidKept ==
  ASSUME TypeOK, OtherTypes, ThreadInv, SaidInv, [Next]_vars
  PROVE  SaidInv'
<1> USE DEF TypeOK, OtherTypes, SaidInv, IsEnabled
<1>1. CASE UNCHANGED <<enabled, announced, tpc, toggling, said, silenced>>
  BY <1>1
<1>2. CASE LoadNewList \/ LoadKnownList \/ NextWalked \/ SetInitialized
           \/ RefuseStart \/ (\E names \in Requests : BeginStart(names)) \/ SetActive
  BY <1>1, <1>2 DEF LoadNewList, LoadKnownList, NextWalked, SetInitialized, RefuseStart, BeginStart, SetActive
<1>3. CASE (\E c \in Channels : NotFound(c) \/ IsChannel(c)) \/ (\E type \in Types : Connect(type)) \/ Stop
           \/ UpdateConnection \/ LoseConnection \/ CommandSendTo \/ CommandStop \/ BeginAnnounce
  BY <1>1, <1>3 DEF NotFound, IsChannel, Connect, Stop, UpdateConnection, LoseConnection, CommandSendTo,
     CommandStop, BeginAnnounce, ReadNew
<1>4. ASSUME NEW t \in Togglers, NEW c \in Channels, NEW b \in BOOLEAN, Toggle(t, c, b),
             UNCHANGED <<announced, said, silenced>>
      PROVE  SaidInv'
  BY <1>4 DEF Toggle
<1>5. CASE ToggleWalked \/ EnableChosen \/ \E c \in Channels : \E b \in BOOLEAN : CommandToggle(c, b)
  <2>1. CASE ToggleWalked
    <3>1. walk.at \in Channels /\ Toggle("main", walk.at, FALSE) /\ UNCHANGED <<announced, said, silenced>>
      BY <2>1 DEF ToggleWalked
    <3> QED
      BY <1>4, <3>1 DEF Togglers
  <2>2. CASE EnableChosen
    <3>1. chosen \in Channels /\ Toggle("main", chosen, TRUE) /\ UNCHANGED <<announced, said, silenced>>
      BY <2>2 DEF EnableChosen, ThreadInv
    <3> QED
      BY <1>4, <3>1 DEF Togglers
  <2>3. ASSUME NEW c \in Channels, NEW b \in BOOLEAN, CommandToggle(c, b) PROVE SaidInv'
    <3>1. Toggle("worker", c, b) /\ UNCHANGED <<announced, said, silenced>>
      BY <2>3 DEF CommandToggle
    <3> QED
      BY <1>4, <3>1 DEF Togglers
  <2> QED
    BY <1>5, <2>1, <2>2, <2>3
<1>6. CASE Announce
  <2>1. CASE EnterAnnounce
    BY <2>1 DEF EnterAnnounce, Place, Nobody
  <2>2. CASE FillAnnounce
    BY <2>2 DEF FillAnnounce, Fill
  <2>3. CASE Splice
    BY <1>1, <2>3 DEF Splice
  <2> QED
    BY <1>6, <2>1, <2>2, <2>3 DEF Announce
<1>7. CASE \E c \in Channels : SetUpStep(c)
  <2>1. ASSUME NEW c \in Channels, Link(c) PROVE SaidInv'
    BY <1>1, <2>1 DEF Link
  <2>2. ASSUME NEW c \in Channels, CheckInitialized(c) PROVE SaidInv'
    <3>1. ASSUME NEW d \in Channels, d # c PROVE enabled'[d] = enabled[d] /\ (d \in silenced => d \in silenced')
      BY <2>2, <3>1 DEF CheckInitialized
    <3>2. c \in silenced' \/ enabled'[c] = enabled[c] \/ ~said[c].placed
      BY <2>2 DEF CheckInitialized
    <3>3. UNCHANGED <<announced, tpc, toggling, said>> /\ silenced \subseteq silenced'
      BY <2>2 DEF CheckInitialized
    <3> QED
      BY <3>1, <3>2, <3>3
  <2> QED
    BY <1>7, <2>1, <2>2 DEF SetUpStep
<1>8. CASE \E t \in Togglers : ToggleStep(t)
  <2>1. ASSUME NEW t \in Togglers, EnterToggle(t) PROVE SaidInv'
    BY <2>1 DEF EnterToggle, Place, Nobody, Togglers
  <2>2. ASSUME NEW t \in Togglers, FillToggle(t) PROVE SaidInv'
    BY <2>2 DEF FillToggle, Fill
  <2> QED
    BY <1>8, <2>1, <2>2 DEF ToggleStep
<1> QED
  BY <1>1, <1>2, <1>3, <1>5, <1>6, <1>7, <1>8 DEF Next, vars

\* A session does not outlive its connection unnoticed.
LEMMA ConnKept ==
  ASSUME ConnInv, pending \in {"none", "handle", "close"}, [Next]_vars
  PROVE  ConnInv'
<1> USE DEF ConnInv, SessionHasConnection, IsConnected, IsTracing
<1>1. CASE UNCHANGED <<state, pending, data, ended>>
  BY <1>1
<1>2. ASSUME NEW type \in Types, Connect(type) PROVE ConnInv'
  <2>1. CASE state' = "Tracing" /\ ended' = (~IsTracing \/ pending = "close") /\ pending' = pending
    BY <1>2, <2>1 DEF Connect
  <2>2. CASE pending' = "handle"
    BY <2>2
  <2>3. CASE UNCHANGED <<pending, state, ended>>
    BY <1>2, <2>3 DEF Connect
  <2> QED
    BY <1>2, <2>1, <2>2, <2>3 DEF Connect
<1>3. CASE Stop \/ UpdateConnection \/ LoseConnection \/ CommandSendTo \/ CommandStop
  BY <1>3 DEF Stop, UpdateConnection, LoseConnection, CommandSendTo, CommandStop
<1>4. CASE \/ LoadNewList \/ LoadKnownList \/ ToggleWalked \/ NextWalked \/ SetInitialized
           \/ RefuseStart \/ (\E names \in Requests : BeginStart(names))
           \/ (\E c \in Channels : NotFound(c) \/ IsChannel(c)) \/ EnableChosen \/ SetActive
  <2>1. UNCHANGED <<state, pending, data, ended>>
    BY <1>4 DEF LoadNewList, LoadKnownList, ToggleWalked, NextWalked, SetInitialized, RefuseStart,
       BeginStart, NotFound, IsChannel, EnableChosen, SetActive
  <2> QED
    BY <1>1, <2>1
<1>5. CASE \/ (\E c \in Channels : \E b \in BOOLEAN : CommandToggle(c, b)) \/ BeginAnnounce \/ Announce
           \/ (\E c \in Channels : SetUpStep(c)) \/ \E t \in Togglers : ToggleStep(t)
  BY <1>1, <1>5 DEF CommandToggle, BeginAnnounce, Announce, SetUpStep, ToggleStep
<1> QED
  BY <1>1, <1>2, <1>3, <1>4, <1>5 DEF Next, vars

\* Lists of channels only grow at their ends: what a walk had before it, it has still.
LEMMA WalksGo ==
  ASSUME ListInv, OtherTypes', TypeOK', [Next]_vars
  PROVE  /\ \A p \in Pointers : Chain(p) \subseteq Reach(next', p)
         /\ Chain(knownHead) \subseteq Chain(knownHead)'
<1>1. CASE UNCHANGED <<next, knownHead>>
  BY <1>1 DEF Chain
<1>2. ASSUME next' \in [Channels -> Pointers], \A d \in Channels : next[d] = Nil \/ next'[d] = next[d]
      PROVE  \A p \in Pointers : Chain(p) \subseteq Reach(next', p)
  BY <1>2, ListTypes, ReachGrows DEF Chain
<1>3. ASSUME NEW c \in Channels, Link(c)
      PROVE  next' \in [Channels -> Pointers] /\ knownHead' = knownHead
             /\ \A d \in Channels : next[d] = Nil \/ next'[d] = next[d]
  BY <1>3, ListTypes DEF Link, ListInv, LinkInv
<1>4. CASE \E c \in Channels : Link(c)
  BY <1>2, <1>3, <1>4, ListTypes DEF Chain
<1>5. CASE Splice
  <2>1. iter.last \in Channels => next[iter.last] = Nil
    BY <1>5, ListTypes DEF Splice, ListInv, LinkInv
  <2>2. \A d \in Channels : next[d] = Nil \/ next'[d] = next[d]
    BY <1>5, <2>1, ListTypes DEF Splice
  <2> QED
    BY <1>2, <1>5, <2>2, SpliceKeepsLists DEF TypeOK
<1>6. CASE LoadNewList \/ LoadKnownList \/ ToggleWalked \/ NextWalked \/ SetInitialized
           \/ RefuseStart \/ (\E names \in Requests : BeginStart(names)) \/ EnableChosen \/ SetActive
  BY <1>1, <1>6 DEF LoadNewList, LoadKnownList, ToggleWalked, NextWalked, SetInitialized, RefuseStart,
     BeginStart, EnableChosen, SetActive
<1>7. CASE (\E c \in Channels : NotFound(c) \/ IsChannel(c)) \/ (\E type \in Types : Connect(type)) \/ Stop
           \/ UpdateConnection \/ LoseConnection \/ CommandSendTo \/ CommandStop
           \/ \E c \in Channels : \E b \in BOOLEAN : CommandToggle(c, b)
  BY <1>1, <1>7 DEF NotFound, IsChannel, Connect, Stop, UpdateConnection, LoseConnection, CommandSendTo,
     CommandStop, CommandToggle
<1>8. CASE BeginAnnounce \/ Announce
  BY <1>1, <1>5, <1>8 DEF BeginAnnounce, ReadNew, Announce, EnterAnnounce, FillAnnounce
<1>9. CASE (\E c \in Channels : SetUpStep(c)) \/ \E t \in Togglers : ToggleStep(t)
  BY <1>1, <1>4, <1>9 DEF SetUpStep, CheckInitialized, ToggleStep, EnterToggle, FillToggle
<1> QED
  BY <1>1, <1>6, <1>7, <1>8, <1>9 DEF Next, vars

Walking == {"boot", "load", "walk", "toggled"}

\* ToggleAll comes past every channel that was there before it and that it could see.
LEMMA WalkKept ==
  ASSUME ListInv, ThreadInv, OffAfterInitialize, WalkInv, TypeOK', OtherTypes', [Next]_vars
  PROVE  OffAfterInitialize' /\ WalkInv'
<1> USE DEF Walking
<1>1. /\ enabled \in [Channels -> {-1, 0, 1}] /\ mpc \in Walking \union {"ready", "enable", "found", "enabling"}
      /\ walk \in [at : Pointers, rest : Pointers]
  BY DEF ListInv, TypeOK, OtherTypes
<1>2. ASSUME UNCHANGED <<walk, initialized>>, mpc' = mpc \/ (mpc' \notin Walking /\ mpc \notin Walking),
             slipped \subseteq slipped',
             \A c \in Channels : /\ enabled[c] # 0 => enabled'[c] # 0
                                 /\ setup[c] = "none" => setup'[c] = "none" \/ c \in slipped' \/ mpc = "boot"
                                                           \/ mpc \notin Walking
                                 /\ setup'[c] = "done" => setup[c] = "done" \/ ~initialized \/ enabled'[c] # 0
      PROVE  OffAfterInitialize' /\ WalkInv'
  <2>1. OffAfterInitialize'
    BY <1>2 DEF OffAfterInitialize
  <2>2. \A c \in Chain(walk.at) \union Chain(walk.rest) : c \in Chain(walk.at)' \union Chain(walk.rest)'
    BY <1>1, <1>2, WalksGo DEF Chain
  <2>3. \A c \in Chain(walk.at) \union Chain(knownHead) : c \in Chain(walk.at)' \union Chain(knownHead)'
    BY <1>1, <1>2, WalksGo DEF Chain
  <2>4. mpc' = "toggled" => enabled'[walk'.at] # 0
    BY <1>1, <1>2 DEF WalkInv, ThreadInv
  <2>5. ASSUME NEW c \in Channels \ slipped', setup'[c] # "none", mpc' \in {"load", "walk", "toggled"}
        PROVE  setup[c] # "none" /\ c \notin slipped
    BY <1>2, <2>5
  <2> QED
    BY <1>2, <2>1, <2>2, <2>3, <2>4, <2>5 DEF WalkInv
<1>3. CASE LoadNewList
  BY <1>3 DEF LoadNewList, ListInv, ChannelsKept, Chain, WalkInv, OffAfterInitialize, ThreadInv
<1>4. CASE LoadKnownList
  BY <1>1, <1>4 DEF LoadKnownList, Chain, WalkInv, OffAfterInitialize, ThreadInv
<1>5. CASE ToggleWalked
  BY <1>1, <1>5 DEF ToggleWalked, Toggle, Chain, WalkInv, OffAfterInitialize, ThreadInv
<1>6. CASE NextWalked
  <2>1. CASE mpc = "toggled" /\ walk' = [walk EXCEPT !.at = next[@]]
    <3>1. walk.at \in Channels /\ Chain(walk.at) = {walk.at} \union Chain(next[walk.at])
      BY <1>1, <2>1, ListTypes, ReachStep DEF Chain, ThreadInv
    <3>2. walk'.at = next[walk.at] /\ walk'.rest = walk.rest
      BY <1>1, <2>1
    <3> QED
      BY <1>6, <2>1, <3>1, <3>2 DEF NextWalked, Chain, WalkInv, OffAfterInitialize
  <2>2. CASE mpc = "walk" /\ walk.at = Nil /\ walk' = [at |-> walk.rest, rest |-> Nil]
    <3>1. Chain(walk.at) = {}
      BY <2>2, ListTypes, ReachFacts DEF Chain
    <3> QED
      BY <1>6, <2>2, <3>1 DEF NextWalked, Chain, WalkInv, OffAfterInitialize
  <2> QED
    BY <1>6, <2>1, <2>2 DEF NextWalked
<1>7. CASE SetInitialized
  <2>1. Chain(walk.at) = {} /\ Chain(walk.rest) = {}
    BY <1>7, ListTypes, ReachFacts DEF SetInitialized, Chain
  <2> QED
    BY <1>7, <2>1 DEF SetInitialized, WalkInv, OffAfterInitialize
<1>8. CASE RefuseStart \/ (\E names \in Requests : BeginStart(names)) \/ SetActive
           \/ (\E c \in Channels : NotFound(c) \/ IsChannel(c)) \/ \E type \in Types : Connect(type)
  BY <1>2, <1>8 DEF RefuseStart, BeginStart, SetActive, NotFound, IsChannel, Connect
<1>9. CASE EnableChosen \/ \E c \in Channels : \E b \in BOOLEAN : CommandToggle(c, b)
  BY <1>1, <1>2, <1>9 DEF EnableChosen, CommandToggle, Toggle
<1>10. CASE Stop \/ UpdateConnection \/ LoseConnection \/ CommandSendTo \/ CommandStop \/ BeginAnnounce \/ Announce
            \/ \E t \in Togglers : ToggleStep(t)
  BY <1>2, <1>10 DEF Stop, UpdateConnection, LoseConnection, CommandSendTo, CommandStop, BeginAnnounce, ReadNew,
     Announce, EnterAnnounce, FillAnnounce, Splice, ToggleStep, EnterToggle, FillToggle
<1>11. CASE \E c \in Channels : SetUpStep(c)
  <2>1. PICK c \in Channels : SetUpStep(c)
    BY <1>11
  <2>2. CASE Link(c)
    <3>1. slipped' = IF mpc \in {"load", "walk", "toggled"} THEN slipped \union {c} ELSE slipped
      BY <2>1, <2>2 DEF SetUpStep, CheckInitialized, Link
    <3>2. setup' = [setup EXCEPT ![c] = "linked"] /\ UNCHANGED <<walk, initialized, mpc, enabled>>
      BY <2>1, <2>2 DEF SetUpStep, Link
    <3> QED
      BY <1>2, <3>1, <3>2, ListTypes
  <2>3. CASE CheckInitialized(c)
    <3>1. \A d \in Channels : /\ enabled[d] # 0 => enabled'[d] # 0
                              /\ setup[d] = "none" => setup'[d] = "none"
                              /\ setup'[d] = "done" => setup[d] = "done" \/ ~initialized \/ enabled'[d] # 0
      BY <1>1, <2>3, ListTypes DEF CheckInitialized
    <3>2. UNCHANGED <<walk, initialized, mpc, slipped>>
      BY <2>1, <2>3 DEF SetUpStep, CheckInitialized, Link
    <3> QED
      BY <1>2, <3>1, <3>2
  <2> QED
    BY <2>1, <2>2, <2>3 DEF SetUpStep
<1>12. CASE UNCHANGED vars
  BY <1>2, <1>12 DEF vars
<1> QED
  BY <1>3, <1>4, <1>5, <1>6, <1>7, <1>8, <1>9, <1>10, <1>11, <1>12 DEF Next

\* A requested channel that is found is on, and whatever turns it off is known.
LEMMA StartKept ==
  ASSUME ListInv, ThreadInv, StartInv, [Next]_vars
  PROVE  StartInv'
<1>1. /\ enabled \in [Channels -> {-1, 0, 1}] /\ entries \in [Channels -> {"absent", "inactive", "active"}]
      /\ chosen \in Pointers /\ setup \in [Channels -> {"none", "linked", "done"}] /\ before \subseteq Channels
  BY ListTypes DEF ListInv, TypeOK, StartInv
<1>2. ASSUME before' \subseteq before, entries' = entries, todo \subseteq todo',
             (mpc' = mpc /\ chosen' = chosen) \/ mpc' # "enabling",
             initialized => initialized', disturbed \subseteq disturbed',
             \A c \in Channels : /\ setup[c] # "none" => setup'[c] # "none"
                                 /\ setup[c] = "done" => setup'[c] = "done"
                                 /\ setup[c] = "done" /\ c \notin disturbed' => enabled'[c] = enabled[c]
      PROVE  StartInv'
  <2>1. (before' # {} => initialized') /\ before' \subseteq {c \in Channels : setup'[c] # "none"}
    BY <1>1, <1>2 DEF StartInv
  <2>2. \A c \in before' \ disturbed' : entries'[c] # "absent" /\ c \notin todo' =>
          entries'[c] = "active" /\ setup'[c] = "done" /\ IsEnabled(c)'
    BY <1>1, <1>2 DEF StartInv, IsEnabled
  <2>3. mpc' = "enabling" /\ chosen' \notin disturbed' => setup'[chosen'] = "done" /\ IsEnabled(chosen)'
    <3>1. mpc' = "enabling" => chosen \in Channels
      BY <1>1, <1>2 DEF ThreadInv
    <3> QED
      BY <1>2, <3>1 DEF StartInv, IsEnabled
  <2> QED
    BY <2>1, <2>2, <2>3 DEF StartInv
<1>3. CASE \/ LoadNewList \/ LoadKnownList \/ NextWalked \/ SetInitialized \/ RefuseStart
           \/ (\E c \in Channels : IsChannel(c)) \/ \E type \in Types : Connect(type)
  <2>1. /\ UNCHANGED <<before, entries, todo, disturbed, setup, enabled>>
        /\ (mpc' = mpc /\ chosen' = chosen) \/ mpc' # "enabling"
        /\ initialized => initialized'
    BY <1>3 DEF LoadNewList, LoadKnownList, NextWalked, SetInitialized, RefuseStart, IsChannel, Connect
  <2> QED
    BY <1>2, <2>1
<1>4. CASE ToggleWalked
  <2>1. before = {} /\ before' = {} /\ mpc' = "toggled"
    BY <1>4 DEF ToggleWalked, ThreadInv, StartInv
  <2> QED
    BY <2>1 DEF StartInv
<1>5. ASSUME NEW names \in Requests, BeginStart(names) PROVE StartInv'
  <2>1. initialized' /\ todo' = names /\ before' = {c \in Channels : setup'[c] # "none"} /\ mpc' = "enable"
        /\ \A c \in Channels : entries'[c] # "absent" => c \in names
    BY <1>5 DEF BeginStart, ThreadInv
  <2> QED
    BY <2>1 DEF StartInv
<1>6. ASSUME NEW c \in Channels, NotFound(c) PROVE StartInv'
  <2>1. c \notin before'
    BY <1>6 DEF NotFound, ListInv, ChannelsKept, Listed, StartInv
  <2>2. /\ todo' = todo \ {c} /\ before' \subseteq before /\ mpc' = "enable"
        /\ UNCHANGED <<entries, setup, enabled, initialized, disturbed>>
    BY <1>6 DEF NotFound
  <2> QED
    BY <1>1, <2>1, <2>2 DEF StartInv, IsEnabled
<1>7. CASE EnableChosen
  <2>1. /\ chosen \in Channels /\ enabled' = [enabled EXCEPT ![chosen] = 1] /\ mpc' = "enabling"
        /\ disturbed' = IF setup[chosen] = "done" THEN disturbed ELSE disturbed \union {chosen}
        /\ UNCHANGED <<entries, setup, initialized, before, todo, chosen>>
    BY <1>1, <1>7 DEF EnableChosen, Toggle, Disturb, ThreadInv
  <2>2. disturbed \subseteq disturbed' /\ (chosen \notin disturbed' => setup[chosen] = "done") /\ enabled'[chosen] = 1
        /\ \A c \in Channels : enabled'[c] = enabled[c] \/ enabled'[c] = 1
    BY <1>1, <2>1
  <2> QED
    BY <1>1, <2>1, <2>2 DEF StartInv, IsEnabled
<1>8. CASE SetActive
  <2>1. /\ chosen \in Channels /\ entries' = [entries EXCEPT ![chosen] = NowActive(chosen)]
        /\ mpc = "enabling" /\ mpc' = "enable" /\ todo' = todo \ {chosen}
        /\ UNCHANGED <<enabled, setup, initialized, before, disturbed>>
    BY <1>1, <1>8 DEF SetActive, ThreadInv
  <2>2. chosen \notin disturbed => setup[chosen] = "done" /\ IsEnabled(chosen) /\ entries'[chosen] = "active"
    BY <1>1, <2>1 DEF StartInv, NowActive
  <2> QED
    BY <1>1, <2>1, <2>2 DEF StartInv, IsEnabled
<1>9. ASSUME NEW c \in Channels, NEW b \in BOOLEAN, CommandToggle(c, b) PROVE StartInv'
  <2>1. c \in disturbed' /\ disturbed \subseteq disturbed' /\ UNCHANGED <<mpc, entries, setup, initialized, before, todo, chosen>>
        /\ \A d \in Channels : d # c => enabled'[d] = enabled[d]
    BY <1>1, <1>9 DEF CommandToggle, Toggle, Disturb
  <2> QED
    BY <1>2, <2>1
<1>10. CASE Stop \/ UpdateConnection \/ LoseConnection \/ CommandSendTo \/ CommandStop \/ BeginAnnounce \/ Announce
            \/ \E t \in Togglers : ToggleStep(t)
  BY <1>2, <1>10 DEF Stop, UpdateConnection, LoseConnection, CommandSendTo, CommandStop, BeginAnnounce, ReadNew,
     Announce, EnterAnnounce, FillAnnounce, Splice, ToggleStep, EnterToggle, FillToggle
<1>11. CASE \E c \in Channels : SetUpStep(c)
  <2>1. PICK c \in Channels : SetUpStep(c)
    BY <1>11
  <2>2. \A d \in Channels : /\ setup[d] # "none" => setup'[d] # "none"
                            /\ setup[d] = "done" => setup'[d] = "done" /\ enabled'[d] = enabled[d]
    BY <1>1, <2>1 DEF SetUpStep, Link, CheckInitialized
  <2>3. UNCHANGED <<mpc, entries, initialized, before, disturbed, todo, chosen>>
    BY <2>1 DEF SetUpStep, Link, CheckInitialized
  <2> QED
    BY <1>2, <2>2, <2>3
<1>12. CASE UNCHANGED vars
  BY <1>2, <1>12 DEF vars
<1> QED
  BY <1>3, <1>4, <1>5, <1>6, <1>7, <1>8, <1>9, <1>10, <1>11, <1>12 DEF Next

(***************************************************************************)
(* The inductive invariant                                                 *)
(***************************************************************************)
\* When the process starts there is no channel and no session.
LEMMA InitStep == Init => ChannelInv
<1> SUFFICES ASSUME Init PROVE ChannelInv
  OBVIOUS
<1> USE DEF Init, ChannelInit
<1>1. TypeOK
  BY DEF TypeOK
<1>2. OtherTypes
  BY DEF OtherTypes, Unsaid
<1>3. \A p \in Pointers : p = Nil => Chain(p) = {}
  BY ReachFacts DEF Chain
<1>4. Chain(newHead) = {} /\ Chain(knownHead) = {} /\ Taken = {} /\ Chain(iter.at) = {}
      /\ \A c \in Channels : Chain(next[c]) = {}
  BY <1>3 DEF Taken
<1>5. LinkInv
  BY <1>4 DEF LinkInv
<1>6. ChannelsKept
  BY <1>4 DEF ChannelsKept
<1>7. ThreadInv /\ ConnInv
  BY DEF ThreadInv, ConnInv, SessionHasConnection, IsConnected, IsTracing
<1>8. SaidInv
  <2> SUFFICES ASSUME NEW c \in Channels PROVE ~(announced[c] > 0) /\ ~said[c].placed
    BY DEF SaidInv
  <2>1. announced[c] = 0
    OBVIOUS
  <2>2. said[c] = Unsaid /\ Unsaid.placed = FALSE
    BY DEF Unsaid
  <2> QED
    BY <2>1, <2>2
<1>9. OffAfterInitialize /\ WalkInv /\ StartInv
  BY DEF OffAfterInitialize, WalkInv, StartInv
<1> QED
  BY <1>1, <1>2, <1>5, <1>6, <1>7, <1>8, <1>9 DEF ChannelInv

\* The invariant is inductive.
LEMMA StepPreservesChannelInv == ChannelInv /\ [Next]_vars => ChannelInv'
<1> SUFFICES ASSUME ChannelInv, [Next]_vars PROVE ChannelInv'
  OBVIOUS
<1> USE DEF ChannelInv
<1>1. ListInv
  BY DEF ListInv
<1>2. TypeOK' /\ OtherTypes'
  BY TypesKept
<1>3. LinkInv' /\ ChannelsKept'
  BY <1>1, ListsKept
<1>4. ThreadInv' /\ SaidInv'
  BY ThreadKept, SaidKept
<1>5. OffAfterInitialize' /\ WalkInv'
  BY <1>1, <1>2, WalkKept
<1>6. StartInv'
  BY <1>1, StartKept
<1>7. ConnInv'
  BY ConnKept DEF TypeOK
<1> QED
  BY <1>2, <1>3, <1>4, <1>5, <1>6, <1>7

\* The inductive invariant holds of every reachable state.
THEOREM ChannelInvariant == Spec => []ChannelInv
BY InitStep, StepPreservesChannelInv, PTL DEF Spec

\* However many channels are set up while the worker takes, announces and splices them, each is
\* in one place and is announced once: no channel is lost between the two lists.
THEOREM ChannelsStayKept == Spec => []ChannelsKept
<1>1. ChannelInv => ChannelsKept
  BY DEF ChannelInv
<1> QED
  BY <1>1, ChannelInvariant, PTL

\* Whoever toggles a channel while it is announced, the client's last word on it is true.
THEOREM ClientIsTold == Spec => []ClientKnows
<1>1. ChannelInv => ClientKnows
  <2> SUFFICES ASSUME ChannelInv, NEW c \in Channels, announced[c] = 1, c \notin silenced,
                      said[c].by = Nobody, \A t \in Togglers : toggling[t] # c
               PROVE  said[c].on = IsEnabled(c)
    BY DEF ClientKnows
  <2> QED
    BY DEF ChannelInv, SaidInv
<1> QED
  BY <1>1, ChannelInvariant, PTL

\* After Initialize no channel is as it was when the process started, and when a session has
\* been asked for what it requests is on, but for the exceptions that the histories name.
THEOREM SessionsEnable == Spec => []SessionInv
<1>1. ChannelInv => SessionInv
  BY DEF ChannelInv, SessionInv, RequestedIsEnabled, StartInv, ThreadInv
<1> QED
  BY <1>1, ChannelInvariant, PTL

\* A session that is started has a connection, but for the exceptions that ended names.
THEOREM SessionsConnected == Spec => []SessionHasConnection
<1>1. ChannelInv => SessionHasConnection
  BY DEF ChannelInv, ConnInv
<1> QED
  BY <1>1, ChannelInvariant, PTL
=============================================================================
