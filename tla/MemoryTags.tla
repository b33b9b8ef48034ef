----------------------------- MODULE MemoryTags -----------------------------
(***************************************************************************)
(* Tags of traced memory (FTagTrace and FMemScope in TraceAuxiliary).  A   *)
(* thread opens scopes, one in another, and what it allocates belongs to   *)
(* the tag of the innermost one.  The thread that finds the name of a tag  *)
(* missing in AnnouncedNames adds it there, does the same for the name of  *)
(* its parent, and only then describes it; others that use the name in the *)
(* meantime do not wait for it.                                            *)
(*                                                                         *)
(* The tag trace is made by utrace_mem_init_tags, which the program calls  *)
(* once while its threads may already open scopes.                         *)
(*                                                                         *)
(* A name stands for its hash.  AnnouncedNames is a set here: FindOrAdd    *)
(* takes effect in one step, that of its Find if the name is there and     *)
(* that of its Emplace, under the lock, otherwise (LockFreeHash).          *)
(***************************************************************************)
EXTENDS Naturals, Sequences, SequencesExt

CONSTANTS
  TagThreads,      \* threads with scopes
  TagNames,        \* names of tags
  ParentName,      \* [TagNames -> the part from the first '/' on, or NoName]
  NoTag,           \* the tag 0
  NoName,          \* the tag -1: no parent, or no tag trace
  MaxScopes,       \* bound: scopes of a thread, one in another
  MaxTagSwitches   \* bound: switches of MemAllocChannel

\* A name that begins with '/' is its own parent.
ASSUME TagAssumption ==
  /\ NoTag \notin TagNames /\ NoName \notin TagNames
  /\ ParentName \in [TagNames -> TagNames \union {NoName}]
  /\ \A n \in TagNames : ParentName[n] # NoName => ParentName[ParentName[n]] = ParentName[n]
  /\ MaxScopes \in Nat /\ MaxTagSwitches \in Nat

VARIABLES
  memAlloc,     \* MemAllocChannel is enabled
  memSwitches,  \* times it was switched
  tagTrace,     \* GTagTrace: "none", "published" before its constructor has run, "built"
  announced,    \* AnnouncedNames
  tagPc,        \* [TagThreads -> control state]
  naming,       \* [TagThreads -> Seq] the names whose AnnounceFNameTag it is in
  opening,      \* [TagThreads -> the name of the scope that it opens]
  memScopes,    \* [TagThreads -> Seq] open scopes: bActive, tag and PrevTag
  activeTag,    \* [TagThreads -> tag] GActiveTag
  tagSpecs,     \* [TagNames -> Nat] TagSpec events logged
  unheard,      \* history: names whose TagSpec met a disabled channel
  tagged        \* history: tags of the MemoryScope events logged

announceVars == <<announced, tagSpecs, unheard>>
scopeVars    == <<memScopes, activeTag, tagged>>
tagVars == <<memAlloc, memSwitches, tagTrace, announceVars, tagPc, naming, opening, scopeVars>>

TagInit ==
  /\ memAlloc \in BOOLEAN /\ memSwitches = 0
  /\ tagTrace = "none"
  /\ announced = {} /\ tagSpecs = [n \in TagNames |-> 0] /\ unheard = {}
  /\ tagPc = [t \in TagThreads |-> "idle"]
  /\ naming = [t \in TagThreads |-> <<>>] /\ opening = [t \in TagThreads |-> NoTag]
  /\ memScopes = [t \in TagThreads |-> <<>>]
  /\ activeTag = [t \in TagThreads |-> NoTag] /\ tagged = {}

Move(t, step) == tagPc' = [tagPc EXCEPT ![t] = step]

(***************************************************************************)
(* Slips.                                                                  *)
(***************************************************************************)
\* A parent that is known ends the announcement of the name as well.
ReturnTagSlip(t) ==
  /\ naming' = [naming EXCEPT ![t] = <<>>]
  /\ Move(t, "activate")

\* Does not look at bActive.
CloseMemScopeSlip(t) ==
  /\ tagPc[t] = "idle" /\ memScopes[t] # <<>>
  /\ activeTag' = [activeTag EXCEPT ![t] = Last(memScopes[t]).prev]
  /\ memScopes' = [memScopes EXCEPT ![t] = Front(@)]
  /\ UNCHANGED <<memAlloc, memSwitches, tagTrace, announceVars, tagPc, naming, opening, tagged>>

(***************************************************************************)
(* Actions.                                                                *)
(***************************************************************************)
\* AnnounceFNameTag returns: to that of the name whose parent this was, if there is one.
ReturnTag(t) ==
  /\ naming' = [naming EXCEPT ![t] = Front(@)]
  /\ Move(t, IF Len(naming[t]) = 1 THEN "activate" ELSE "announce")

\* FMemScope's constructor.  should is bShouldActivate: FDefaultMemScope asks for
\* a thread without a tag, utrace_mem_scope_ctor leaves it to its caller.
OpenMemScope(t, n, should) ==
  /\ tagPc[t] = "idle" /\ Len(memScopes[t]) < MaxScopes
  /\ IF memAlloc /\ should
     THEN /\ opening' = [opening EXCEPT ![t] = n]
          /\ Move(t, "name") /\ UNCHANGED memScopes
     ELSE /\ memScopes' = [memScopes EXCEPT ![t] =
                             Append(@, [active |-> FALSE, tag |-> n, prev |-> NoTag])]
          /\ UNCHANGED <<opening, tagPc>>
  /\ UNCHANGED <<memAlloc, memSwitches, tagTrace, announceVars, naming, activeTag, tagged>>

\* utrace_mem_name_tag.  Without a tag trace the scope gets the tag -1; what a thread does
\* with one that is not constructed yet is undefined, and it takes no further step here.
NameTag(t) ==
  /\ tagPc[t] = "name"
  /\ \/ /\ tagTrace = "none"
        /\ opening' = [opening EXCEPT ![t] = NoName]
        /\ Move(t, "activate") /\ UNCHANGED naming
     \/ /\ tagTrace = "published"
        /\ Move(t, "undefined") /\ UNCHANGED <<naming, opening>>
     \/ /\ tagTrace = "built"
        /\ naming' = [naming EXCEPT ![t] = <<opening[t]>>]
        /\ Move(t, "find") /\ UNCHANGED opening
  /\ UNCHANGED <<memAlloc, memSwitches, tagTrace, announceVars, scopeVars>>

\* AnnounceFNameTag: FindOrAdd, and the call for the parent of a name that is new.
FindOrAddTag(t) ==
  LET n == Last(naming[t]) IN
  /\ tagPc[t] = "find"
  /\ announced' = announced \union {n}
  /\ \/ n \in announced /\ ReturnTag(t)
     \/ /\ n \notin announced /\ ParentName[n] # NoName
        /\ naming' = [naming EXCEPT ![t] = Append(@, ParentName[n])] /\ UNCHANGED tagPc
     \/ /\ n \notin announced /\ ParentName[n] = NoName
        /\ Move(t, "announce") /\ UNCHANGED naming
  /\ UNCHANGED <<memAlloc, memSwitches, tagTrace, tagSpecs, unheard, opening, scopeVars>>

\* AnnounceCustomTag, and the return.
AnnounceTag(t) ==
  LET n == Last(naming[t]) IN
  /\ tagPc[t] = "announce"
  /\ IF memAlloc THEN tagSpecs' = [tagSpecs EXCEPT ![n] = @ + 1] /\ UNCHANGED unheard
                 ELSE unheard' = unheard \union {n} /\ UNCHANGED tagSpecs
  /\ ReturnTag(t)
  /\ UNCHANGED <<memAlloc, memSwitches, tagTrace, announced, opening, scopeVars>>

\* ActivateScope, which does not look at the channel again.
ActivateScope(t) ==
  /\ tagPc[t] = "activate"
  /\ tagged' = tagged \union {opening[t]}
  /\ memScopes' = [memScopes EXCEPT ![t] =
                     Append(@, [active |-> TRUE, tag |-> opening[t], prev |-> activeTag[t]])]
  /\ activeTag' = [activeTag EXCEPT ![t] = opening[t]]
  /\ opening' = [opening EXCEPT ![t] = NoTag]
  /\ Move(t, "idle")
  /\ UNCHANGED <<memAlloc, memSwitches, tagTrace, announceVars, naming>>

\* FMemScope's destructor.
CloseMemScope(t) ==
  /\ tagPc[t] = "idle" /\ memScopes[t] # <<>>
  /\ activeTag' = IF Last(memScopes[t]).active
                  THEN [activeTag EXCEPT ![t] = Last(memScopes[t]).prev] ELSE activeTag
  /\ memScopes' = [memScopes EXCEPT ![t] = Front(@)]
  /\ UNCHANGED <<memAlloc, memSwitches, tagTrace, announceVars, tagPc, naming, opening, tagged>>

\* utrace_mem_init_tags: GTagTrace is assigned, and then the constructor runs.
PublishTagTrace ==
  /\ tagTrace = "none"
  /\ tagTrace' = "published"
  /\ UNCHANGED <<memAlloc, memSwitches, announceVars, tagPc, naming, opening, scopeVars>>

BuildTagTrace ==
  /\ tagTrace = "published"
  /\ tagTrace' = "built"
  /\ UNCHANGED <<memAlloc, memSwitches, announceVars, tagPc, naming, opening, scopeVars>>

\* FChannel::Toggle.
SwitchMemAlloc ==
  /\ memSwitches < MaxTagSwitches
  /\ memSwitches' = memSwitches + 1
  /\ memAlloc' = ~memAlloc
  /\ UNCHANGED <<tagTrace, announceVars, tagPc, naming, opening, scopeVars>>

TagNext ==
  \/ \E t \in TagThreads :
       \/ \E n \in TagNames, should \in BOOLEAN : OpenMemScope(t, n, should)
       \/ NameTag(t) \/ FindOrAddTag(t) \/ AnnounceTag(t) \/ ActivateScope(t) \/ CloseMemScope(t)
  \/ PublishTagTrace \/ BuildTagTrace
  \/ SwitchMemAlloc

TagSpec == TagInit /\ [][TagNext]_tagVars

---------------------------------------------------------------------------
\* Some thread has found that nobody knows the name, and is to describe it.
ToBeDescribed(n) ==
  \E t \in TagThreads : \E i \in DOMAIN naming[t] :
    naming[t][i] = n /\ (i < Len(naming[t]) \/ tagPc[t] = "announce")

\* The tag of a scope, and the parent that the description of a tag names, is described
\* or about to be, by whichever thread came first, unless its description met a disabled
\* channel; no tag is described twice.  The tag -1 that a scope has without a tag trace is no
\* name's.
TagsDescribed ==
  /\ \A n \in TagNames : tagSpecs[n] <= 1
  /\ \A n \in tagged \union {ParentName[m] : m \in {o \in TagNames : tagSpecs[o] > 0}} :
       n # NoName => tagSpecs[n] = 1 \/ n \in unheard \/ ToBeDescribed(n)

\* Of the first k scopes, the innermost that was traced has the tag, or there is none.
Innermost(scopes, k, tag) ==
  \/ tag = NoTag /\ \A i \in 1 .. k : ~scopes[i].active
  \/ \E i \in 1 .. k : /\ scopes[i].active /\ scopes[i].tag = tag
                       /\ \A j \in i + 1 .. k : ~scopes[j].active

\* However scopes are opened while the channel is switched, the active tag of a thread
\* is that of its innermost scope among those that were traced.
ActiveTagIsInnermost ==
  \A t \in TagThreads : Innermost(memScopes[t], Len(memScopes[t]), activeTag[t])
=============================================================================
