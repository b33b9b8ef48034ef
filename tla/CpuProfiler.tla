---------------------------- MODULE CpuProfiler ----------------------------
(***************************************************************************)
(* The CPU profiler (FCpuProfilerTrace in TraceAuxiliary).  A thread       *)
(* encodes the begin and the end of its scopes into a small buffer of its  *)
(* own, each cycle as the distance to the one before, and logs the buffer  *)
(* as a batch when it may not hold another event, or when no scope is open *)
(* any more.  A scope is known by the id of its spec, which is logged when *)
(* the id is taken: a static scope keeps its id for the program, a dynamic *)
(* one looks its name up in a map that lives as long as the buffer.        *)
(*                                                                         *)
(* An encoded event is its distance, its kind and its id here; of the      *)
(* encoding only the length matters, in digits of Digit values.            *)
(***************************************************************************)
EXTENDS Integers, Sequences, SequencesExt

CONSTANTS
  CpuThreads,   \* threads with scopes
  Scopes,       \* static scopes of the program
  Names,        \* names of dynamic scopes
  Digit,        \* the values that Encode7bit can put in a byte
  MaxBufferSize, MaxEncodedEventSize,
  Steps,        \* cycles from one timestamp to the next
  MaxCycle,     \* bound: the last timestamp
  MaxSpecId,    \* bound: ids taken
  MaxSwitches   \* bound: switches of CpuChannel

\* The bytes that Encode7bit writes for a value, one in each turn of its loop.
EncodedLength(value) ==
  LET length[v \in 0 .. value] == IF v < Digit THEN 1 ELSE length[v \div Digit] + 1
  IN length[value]

ASSUME CpuAssumption ==
  /\ Digit \in Nat \ {0, 1} /\ Steps \subseteq Nat \ {0}
  /\ MaxCycle \in Nat /\ MaxSpecId \in Nat /\ MaxSwitches \in Nat
  /\ Scopes \intersect Names = {}
  /\ MaxBufferSize \in Nat /\ MaxEncodedEventSize \in Nat
  /\ MaxEncodedEventSize <= MaxBufferSize
  /\ EncodedLength(2 * MaxCycle + 1) + EncodedLength(MaxSpecId) <= MaxEncodedEventSize

FullBufferThreshold == MaxBufferSize - MaxEncodedEventSize

VARIABLES
  cpuChannel,  \* CpuChannel is enabled
  switches,    \* times it was switched
  clock,       \* the last timestamp
  specId,      \* NextSpecId
  declared,    \* [Scopes -> Nat] the id of a static scope, 0 for none
  nameIds,     \* [CpuThreads -> [Names -> Nat]] DynamicAnsiScopeNamesMap, 0 for none
  eventSpecs,       \* EventSpecs logged: id and name
  unlogged,    \* history: the ids whose EventSpec met a disabled channel
  hasBuffer,   \* [CpuThreads -> BOOLEAN] ThreadBuffer is not null
  exited,      \* [CpuThreads -> BOOLEAN] its destructor has run
  lastCycle,   \* [CpuThreads -> Nat] LastCycle
  encoded,     \* [CpuThreads -> Seq] the events in Buffer
  size,        \* [CpuThreads -> Nat] BufferSize
  depth,       \* [CpuThreads -> Nat] ThreadDepth
  at,          \* [CpuThreads -> control state of the begin of a scope]
  scope,       \* [CpuThreads -> that scope, or the name of a dynamic one]
  scopeId,     \* [CpuThreads -> Nat] SpecId
  happened,    \* [CpuThreads -> Seq] history: begins and ends since the last EventBatch
  misled,      \* history: an EventBatch told of other begins and ends than happened
  begun        \* history: ids and scopes of all begins

specVars   == <<specId, declared, nameIds, eventSpecs, unlogged>>
bufferVars == <<hasBuffer, lastCycle, encoded, size>>
beginVars  == <<at, scope, scopeId>>
cpuOutputVars == <<clock, happened, misled, begun>>
cpuVars == <<cpuChannel, switches, specVars, bufferVars, exited, depth, beginVars, cpuOutputVars>>

OfEach(value) == [t \in CpuThreads |-> value]
NoIds   == [n \in Names |-> 0]
NoScope == "none"

CpuInit ==
  /\ cpuChannel \in BOOLEAN /\ switches = 0 /\ clock = 0
  /\ specId = 0 /\ declared = [s \in Scopes |-> 0] /\ nameIds = OfEach(NoIds)
  /\ eventSpecs = {} /\ unlogged = {}
  /\ hasBuffer = OfEach(FALSE) /\ exited = OfEach(FALSE)
  /\ lastCycle = OfEach(0) /\ encoded = OfEach(<<>>) /\ size = OfEach(0)
  /\ depth = OfEach(0) /\ at = OfEach("idle") /\ scope = OfEach(NoScope)
  /\ scopeId = OfEach(0)
  /\ happened = OfEach(<<>>) /\ misled = FALSE /\ begun = {}

(***************************************************************************)
(* Slips: what a definition below would be with a likely mistake in the    *)
(* code.  Each breaks a property; the specification uses none of them.     *)
(***************************************************************************)
\* The distances of a batch go on from the one before.
FlushedSlip(t) == /\ size' = [size EXCEPT ![t] = 0]
                  /\ encoded' = [encoded EXCEPT ![t] = <<>>]
                  /\ UNCHANGED lastCycle

\* Keeps the id before its spec is logged.
TakeSpecIdSlip(t, s) ==
  /\ specId < MaxSpecId
  /\ specId' = specId + 1
  /\ declared' = IF s \in Scopes THEN [declared EXCEPT ![s] = specId + 1] ELSE declared
  /\ scopeId' = [scopeId EXCEPT ![t] = specId + 1]
  /\ at' = [at EXCEPT ![t] = "spec"]
  /\ UNCHANGED <<nameIds, eventSpecs, unlogged>>

(***************************************************************************)
(* Ids.                                                                    *)
(***************************************************************************)
Leave(t, step) == at' = [at EXCEPT ![t] = step]

\* OutputEventType up to GetNextSpecId.
TakeSpecId(t, s) ==
  /\ specId < MaxSpecId
  /\ specId' = specId + 1
  /\ scopeId' = [scopeId EXCEPT ![t] = specId + 1]
  /\ Leave(t, "spec")
  /\ UNCHANGED <<declared, nameIds, eventSpecs, unlogged>>

\* The rest of it, and the store of the id that it returns.
LogEventSpec(t) ==
  LET s == scope[t] id == scopeId[t] IN
  /\ at[t] = "spec"
  /\ eventSpecs' = IF cpuChannel THEN eventSpecs \union {<<id, s>>} ELSE eventSpecs
  /\ unlogged' = IF cpuChannel THEN unlogged ELSE unlogged \union {id}
  /\ \/ /\ s \in Scopes
        /\ declared' = [declared EXCEPT ![s] = id]
        /\ Leave(t, "enter") /\ UNCHANGED nameIds
     \/ /\ s \in Names
        /\ nameIds' = [nameIds EXCEPT ![t][s] = id]
        /\ Leave(t, "write") /\ UNCHANGED declared
  /\ UNCHANGED <<cpuChannel, switches, specId, bufferVars, exited, depth, scope, scopeId,
                 cpuOutputVars>>

(***************************************************************************)
(* The begin of a scope.                                                   *)
(***************************************************************************)
\* TRACE_CPUPROFILER_EVENT_DECLARE.
DeclareScope(t, s) ==
  /\ at[t] = "idle"
  /\ scope' = [scope EXCEPT ![t] = s]
  /\ IF cpuChannel /\ declared[s] = 0
     THEN TakeSpecId(t, s)
     ELSE Leave(t, "enter") /\ UNCHANGED <<specVars, scopeId>>
  /\ UNCHANGED <<cpuChannel, switches, bufferVars, exited, depth, cpuOutputVars>>

\* CPUPROFILERTRACE_OUTPUTBEGINEVENT_PROLOGUE.
Prologue(t) ==
  /\ depth' = [depth EXCEPT ![t] = @ + 1]
  /\ hasBuffer' = [hasBuffer EXCEPT ![t] = TRUE]

\* FEventScope, which looks at the channel once more, and OutputBeginEvent.
EnterScope(t) ==
  /\ at[t] = "enter"
  /\ IF cpuChannel
     THEN /\ scopeId' = [scopeId EXCEPT ![t] = declared[scope[t]]]
          /\ Prologue(t) /\ Leave(t, "write")
     ELSE /\ Leave(t, "idle") /\ UNCHANGED <<scopeId, depth, hasBuffer>>
  /\ UNCHANGED <<cpuChannel, switches, specVars, lastCycle, encoded, size, exited, scope,
                 cpuOutputVars>>

\* OutputBeginDynamicEvent.  utrace_cpu_begin_name does not look at the channel.
BeginDynamic(t, n) ==
  /\ at[t] = "idle"
  /\ Prologue(t)
  /\ scope' = [scope EXCEPT ![t] = n]
  /\ IF nameIds[t][n] = 0
     THEN TakeSpecId(t, n)
     ELSE scopeId' = [scopeId EXCEPT ![t] = nameIds[t][n]] /\ Leave(t, "write") /\ UNCHANGED specVars
  /\ UNCHANGED <<cpuChannel, switches, lastCycle, encoded, size, exited, cpuOutputVars>>

(***************************************************************************)
(* Events.                                                                 *)
(***************************************************************************)
\* FlushThreadBuffer, apart from the batch.
Flushed(t) == /\ size' = [size EXCEPT ![t] = 0]
              /\ encoded' = [encoded EXCEPT ![t] = <<>>]
              /\ lastCycle' = [lastCycle EXCEPT ![t] = 0]

\* What a reader makes of encoded events: each distance is added to the cycle before,
\* and the first one of a batch is the cycle itself.
Decoded(events) ==
  LET cycle[i \in 0 .. Len(events)] == IF i = 0 THEN 0 ELSE cycle[i - 1] + events[i].n
  IN [i \in DOMAIN events |-> [events[i] EXCEPT !.n = cycle[i]]]

\* CPUPROFILERTRACE_OUTPUTBEGINEVENT_EPILOGUE, and the same of an end, whose id is 0 here.
AddEvent(t, begin, flush) ==
  \E step \in Steps :
    LET cycle  == clock + step
        id     == IF begin THEN scopeId[t] ELSE 0
        diff   == cycle - lastCycle[t]
        length == IF begin THEN EncodedLength(2 * diff + 1) + EncodedLength(id)
                  ELSE EncodedLength(2 * diff)
        events == Append(encoded[t], [n |-> diff, begin |-> begin, id |-> id])
        since  == Append(happened[t], [n |-> cycle, begin |-> begin, id |-> id])
    IN
    /\ cycle <= MaxCycle
    /\ clock' = cycle
    /\ begun' = IF begin THEN begun \union {<<id, scope[t]>>} ELSE begun
    /\ IF flush \/ size[t] + length >= FullBufferThreshold
       THEN /\ misled' = (misled \/ Decoded(events) # since)
            /\ happened' = [happened EXCEPT ![t] = <<>>]
            /\ Flushed(t)
       ELSE /\ size' = [size EXCEPT ![t] = @ + length]
            /\ encoded' = [encoded EXCEPT ![t] = events]
            /\ lastCycle' = [lastCycle EXCEPT ![t] = cycle]
            /\ happened' = [happened EXCEPT ![t] = since]
            /\ UNCHANGED misled

WriteBegin(t) ==
  /\ at[t] = "write"
  /\ AddEvent(t, TRUE, FALSE)
  /\ Leave(t, "idle")
  /\ scope' = [scope EXCEPT ![t] = NoScope] /\ scopeId' = [scopeId EXCEPT ![t] = 0]
  /\ UNCHANGED <<cpuChannel, switches, specVars, hasBuffer, exited, depth>>

\* OutputEndEvent, by ~FEventScope, ~FDynamicEventScope or utrace_cpu_end: of a scope
\* that is open, whatever the channel is by now.
EndScope(t) ==
  /\ at[t] = "idle" /\ depth[t] > 0
  /\ depth' = [depth EXCEPT ![t] = @ - 1]
  /\ hasBuffer' = [hasBuffer EXCEPT ![t] = TRUE]
  /\ AddEvent(t, FALSE, depth[t] = 1)
  /\ UNCHANGED <<cpuChannel, switches, specVars, exited, beginVars>>

\* ~FThreadBuffer: the names and the events that are still in the buffer are gone.
\* Destructors that run later may open scopes, in a new buffer.
ExitThread(t) ==
  /\ at[t] = "idle" /\ hasBuffer[t] /\ ~exited[t]
  /\ exited' = [exited EXCEPT ![t] = TRUE]
  /\ hasBuffer' = [hasBuffer EXCEPT ![t] = FALSE]
  /\ Flushed(t)
  /\ nameIds' = [nameIds EXCEPT ![t] = NoIds]
  /\ happened' = [happened EXCEPT ![t] = <<>>]
  /\ UNCHANGED <<cpuChannel, switches, clock, misled, begun, specId, declared, eventSpecs,
                 unlogged, depth, beginVars>>

\* FChannel::Toggle, by the program or by a client.
SwitchCpuChannel ==
  /\ switches < MaxSwitches
  /\ switches' = switches + 1
  /\ cpuChannel' = ~cpuChannel
  /\ UNCHANGED <<specVars, bufferVars, exited, depth, beginVars, cpuOutputVars>>

CpuNext ==
  \/ \E t \in CpuThreads :
       \/ \E s \in Scopes : DeclareScope(t, s)
       \/ \E n \in Names : BeginDynamic(t, n)
       \/ EnterScope(t) \/ LogEventSpec(t) \/ WriteBegin(t) \/ EndScope(t) \/ ExitThread(t)
  \/ SwitchCpuChannel

CpuSpec == CpuInit /\ [][CpuNext]_cpuVars

---------------------------------------------------------------------------
\* The batches of a thread and its buffer tell of every begin and end, in order and at
\* the cycle it happened, however they are cut into batches; nothing is held back when
\* no scope is open, and the largest event fits in what is left of the buffer.
BatchesTell ==
  /\ ~misled
  /\ \A t \in CpuThreads :
    /\ Decoded(encoded[t]) = happened[t]
    /\ depth[t] = 0 => encoded[t] = <<>>
    /\ size[t] + MaxEncodedEventSize <= MaxBufferSize

\* A begin refers to a spec that was logged for its scope and for no other, unless the
\* spec met a disabled channel, or the channel was enabled between the declaration of a
\* static scope and its begin, which then has no id.
BeginsDescribed ==
  /\ \A p, q \in eventSpecs : p[1] = q[1] => p = q
  /\ \A b \in begun : \/ b \in eventSpecs
                      \/ b[1] \in unlogged
                      \/ b[1] = 0 /\ b[2] \in Scopes /\ switches > 0
=============================================================================
