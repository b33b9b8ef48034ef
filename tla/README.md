# std_utrace in TLA+

std_utrace records trace events ("utrace") of a running program and streams them
to a file or to a client over TCP.  Its core, `src/src/Runtime/TraceLog`, is
lock-free: any thread may log at any time, into memory that one worker reads
without stopping it.  This directory models that core, checks it with TLC and
proves the central facts about it with TLAPS.

Paths below are relative to `src/src/Runtime/`; *Private* stands for
`TraceLog/Private/Trace` and *Detail* for `TraceLog/Public/Trace/Detail`.

## 1. The system

```
 traced threads                                 one worker (Writer_WorkerThread)
 --------------                                 --------------------------------
 TRACE_LOG -> FLogScope --> chain of blocks --> Writer_DrainBuffers --> Writer_TailAppend --+
                 |             ^      ^              |                   (packet ring)      |
                 +-- next -----+      |              | retired blocks                       v
                     block       block pool <--------+                       Writer_SendDataRaw -> file/socket
 important  -> FImportantLogScope --> shared buffer --> Writer_UpdateSharedBuffers --> cache --^
```

| Component | State | Operations | Used by / uses |
|---|---|---|---|
| Thread-local write buffers (*Private*/TlsBuffer.cpp, Field.cpp; *Detail*/LogScope.inl) | per block: Cursor, Committed, Reaped, EtxOffset, NextBuffer, ThreadId; per thread: GTlsWriteBuffer; lists GNewThreadList, GActiveThreadList | enter an event, write array fields, commit, move to the next block, end the thread; drain all, drain the worker's own | pool below, tail above; shares Committed, EtxOffset and NextBuffer with the worker |
| Block pool (*Private*/BlockPool.cpp) | GPoolFreeList, GPoolFutex, GPoolPageList | allocate a block, map a page, give back a list | write buffers |
| Tail (*Private*/Tail.cpp) | FPacketRing: Cursor, Left, Right, Data | append, back up, reset, send to a new client | called by the drain, uses the connection |
| Shared buffer of important events (*Private*/Important/SharedBuffer.cpp; *Detail*/Important/ImportantLogScope.inl) | per buffer: Cursor (free bytes and references), Size, Final, Next; GSharedBuffer, GTailBuffer, GTailPreSent | claim, overflow to a new buffer, commit; send, release | feeds the cache |
| Cache of important events (*Private*/Important/Cache.cpp) | cache blocks, GCacheActiveBuffer | cache and send, send all to a new client | shared buffer, connection |
| Connection and worker (*Private*/Writer.cpp) | GDataHandle, GPendingDataHandle, GUpdateInProgress, encode state | update, send, connect, snapshot, stop, shutdown | everything |
| Event descriptions (*Private*/EventNode.cpp) | GNewEventList, GEventListHead/Tail | register, describe new events, describe all again on a connection | worker |
| Channels (*Private*/Channel.cpp) | GNewChannelList, GHeadChannel, Enabled of each channel, GChannelsInitialized | set up, initialize (disable all), find, toggle, announce | session, control, worker; its events are important events |
| Session (Profiler/TraceAuxiliary.cpp, FTraceAuxiliary) | State, CommandlineChannels, TraceDest | start (enable channels, connect), stop | channels, connection |
| Control server (*Private*/Control.cpp) | GControlState, the sockets, the receive buffer of one call | listen, accept, receive and parse, dispatch | worker thread; commands act on connection and channels |
| Call-stack tracer (Profiler/Backtracer.cpp, GrowOnlyLockFreeHash.h) | lock-free set of known stacks | find, insert, grow | memory profiler |
| CPU profiler (Profiler/TraceAuxiliary.cpp and .h) | per thread: ThreadDepth, a buffer of encoded scopes, LastCycle, known dynamic names; NextSpecId; the id of each static scope | declare, begin, end, flush a batch, thread exit | write buffers |
| Memory tags (Profiler/TraceAuxiliary.cpp, UTrace/MemoryTrace.h) | AnnouncedNames; per thread GActiveTag and the open scopes | name a tag, open and close a scope | the hash set, write buffers |
| Other profilers (Profiler/*), allocation hooks | a count of open files, ids of counters | encode one event per call | TraceLog |
| Codec, platform, mimalloc, LZ4, xhook | - | pure functions, OS calls, third-party code | |

What is hard about it:

* **Interleaving.** Producer and worker share a block without a lock.  The order of
  three stores (data, Committed, EtxOffset) and three loads is all that keeps bytes
  from being lost, sent twice or read half-written.
* **Events that span blocks.** An event with array fields may fill several blocks.  The
  later ones are committed before the first, and the decision which block to commit
  when is inferred from `Cursor == Committed` (Field.cpp:35).
* **Recycling.** Blocks come back from the worker to any thread: stale fields, ABA in
  the pool's stack, references to shared buffers that are about to be freed.
* **Boundaries.** The overflow bytes at the end of a block, the packet that ends exactly
  at the end of the ring, the event that is larger than a shared buffer.
* **Connections that come and go.** A client is given cached and recent data and then
  live data: no gap, no repetition, and nothing before it has been described.  A send
  fails in the middle, two calls connect at once, updates come from three sides.

* **A set that grows under its readers.**  Call stacks are looked up without a lock while others
  insert, grow and reserve the table; ids and descriptions must still agree.
* **Ids before descriptions.**  Scopes of the CPU profiler and tags of memory are known by ids.
  Whoever takes an id describes it afterwards, others use it meanwhile, and a channel may be
  switched in between.
* **Channels in nobody's list.**  The worker takes the new channels off their list, announces them
  and only then puts them on the other; meanwhile sessions start and clients toggle.

`PROJECT.json` lists each of these as a hazard at its line, with the properties that
cover it, or the reason why none does yet.

## 2. Modules

| Module | What it is |
|---|---|
| `TlsBuffer` | thread-local buffers: producers and drain, one step for each store or load of a shared word |
| `TraceStream` | what the trace promises a thread that logs, in four actions |
| `TlsBufferProofs` | the inductive invariant of `TlsBuffer`, and that it implements `TraceStream` |
| `Links`, `LinkProofs` | what a walk along the links of a list meets, and lemmas about it; the least element of a set of numbers |
| `BlockPool` | the lock-free free list, page mapping under the futex, giving lists back |
| `Pool` | what the block pool promises: a set of free blocks, and seven ways in which blocks move |
| `BlockPoolProofs` | up to the first stale pop no block is lost, none is in two places, and `BlockPool` implements `Pool` |
| `PacketRing` | the tail, and a client that is sent the tail and then live packets |
| `SharedBuffer` | important events: claims on the shared buffer, the worker that sends and frees |
| `ImportantStream` | what the trace promises of important events, in three actions |
| `ImportantCache` | the cache that keeps it, shown to implement `ImportantStream` |
| `ClientProofs` | proofs about `PacketRing` and `ImportantCache`: what a client is sent that connects late; and about `Control`: what becomes of its commands |
| `EventNode` | registration and description of events around connections |
| `WorkerProofs` | proofs about `SharedBuffer` and `EventNode` |
| `LockFreeHash` | the grow-only hash set, as operators on a table |
| `CallstackTracer` | threads that look up, add, describe and use call stacks |
| `Connection` | data and pending handle, the steps of an update, who runs updates |
| `ConnectionProofs` | what becomes of handles, and the order of what a connection is sent |
| `Channel` | the lists of channels, set-up, toggles and announcements |
| `Session` | the main thread that initializes the trace and starts and stops sessions, on top of `Channel` |
| `SessionProofs` | proofs about `Channel` and `Session` |
| `Control` | the control server and its parser |
| `CpuProfiler` | thread buffers, batches and spec ids of the CPU profiler |
| `MemoryTags` | tags of traced memory and the scopes that use them |
| `ProducerProofs` | proofs about `CpuProfiler`, `MemoryTags`, `LockFreeHash` and `CallstackTracer` |
| `MCTlsBuffer`, `MCBlockPool`, `MCConnection`, `MCSession`, `MCSharedBuffer` | instances of one module for TLC |
| `MCClients` | `PacketRing`, `ImportantCache` and `Control` in one run |
| `MCWorker` | `SharedBuffer` and `EventNode` in one run, with the fairness of the worker |
| `MCUpdate` | `TlsBuffer` and `Connection` in one run, with the fairness of the connection |
| `MCProducers` | `EventNode`, `CallstackTracer`, `CpuProfiler` and `MemoryTags` in one run |

The last four join modules that share no state: a variable `subject` says which of them the
behaviour is about, and the others rest in their initial state.  A run of such a module therefore
checks each machine on its own, as if it had a run to itself.  (`EventNode` is in two of them: with
three events but without fairness among the producers, with two events, three connections and
fairness with the worker.)

Every module that models code, but for `Links`, has *Slips*: variants of its actions with one plausible mistake
in the code (a test one byte late, a missing reset, a store in the wrong order).  The
specifications do not use them.  Each is paired in `PROJECT.json` with a property that
TLC refutes once the slip takes the place of the action it imitates, so that no property
holds for lack of a case that would break it.

### TlsBuffer

A block's `Cursor`, `Committed`, `Reaped` and `EtxOffset` are positions counted from the
first data byte; the data itself is abstracted to *which byte of which thread's stream*
it is: byte `p` of block `b` is byte `base[b] + p` of the stream of `owner[b]`.  `sent[t]`
is the position after the last byte that went to `Writer_TailAppend` under the id of `t`.
The pool is a set of blocks.

| Action | Code |
|---|---|
| `EnterPrelude`, `ClaimSpace` | `FLogScope::EnterPrelude`: does the event fit; advance Cursor |
| `NextBuffer` | `Writer_NextBufferInternal` up to linking the new block (TlsBuffer.cpp 54-98, 110-114); its parameter `r` is what the redirect buffer caught, events logged by the allocation itself |
| `PublishThread`, `RetireCurrent` | its two ends: push on GNewThreadList, or the release store of EtxOffset |
| `BeginAux`, `AuxSegment` | `Field_WriteAuxData`, its NextBuffer lambda and the choice of `bCommit` |
| `CommitPlain`, `CommitLatest`, `CommitScope` | the three forms of `operator +=` |
| `EndThreadBuffer` | `Writer_EndThreadBuffer`, when the thread's context is destroyed; the thread keeps its pointer and may log more |
| `DrainBuffers`, `DrainLocalBuffers` | start of `Writer_DrainBuffers` / `Writer_DrainLocalBuffers` |
| `PickThread`, `DrainCommitted`, `KeepBuffer`, `RetireBuffer`, `FreeRetired` | the drain's loops: load Committed and send, load EtxOffset, keep or retire, free the list |

**After the end.**  `~FWriteTlsContext` gives up the thread's last block, but `GTlsWriteBuffer` goes on
pointing at it, and destructors that run later may log: `~FThreadBuffer` of the CPU profiler does, and scopes in
the destructors of other thread-locals.  `life[t]` is `"live"`, then `"ended"`; an ended thread takes the
same steps as before, in events of its own, until its events are used up.  While the worker has not
dropped the thread the event still counts: the drain sends up to Committed, which may by then be beyond
the EtxOffset that was stored.  Once the worker has dropped it (`Forgotten`), the block is the worker's, the
pool's or another thread's.  The
history variable `strayed` is set when a forgotten thread begins an event, and when the worker drops the
last block of an ended thread that is in an event, has committed one since the worker looked, or is
about to retire that block.  From then on the model
promises nothing.  An ended thread that runs off the end of its block takes a new one (`"revived"`) which
nobody gives up again: its chain stays on the worker's list.  So does that of a thread that logs
for the first time after its end.

Producers are atomic between two accesses that the worker can see.  The worker's own
thread logs events too, between two drains but never inside one (`Running`).

Simplifications: the first block of a page is a little shorter than the others in the
code (it carries the page's own header), here all have one size; the redirect buffer is
the number of bytes it ends up holding, and fits in the new block (SizeAssumption);
scope stamps and sync numbers are part of an event's size.  `Overflow` is 8 in the code;
the assumption asks only for what `Field_WriteAuxData` asserts.

`TraceStream` is the promise: each thread has a stream, `Log` appends whole events to it, `Send` sends
what is whole, `End` ends it, though events may follow, and `Forget` drops the thread once all is sent.  The refinement
(`Trace == INSTANCE TraceStream WITH ...`) takes for `whole` the position up to which the thread has no
open event (`Whole`: where the open event began, or everything written), for `sent` what the worker has
sent, for `life` whether the thread lives, has ended, or is `Forgotten`, and `strayed` for `broken`, the end of the
promise.  Half an event
sent, a byte dropped with its block and a thread forgotten too early are no behaviours of it.

### BlockPool

A stack linked through `NextBuffer`, the same word that links the chain of a thread when
the block is in use; a load, the compare-exchange that relies on it, and the reads in
between are separate steps.  `Allocate`, `LoadHead`, `ReadNext`, `Pop` take a block;
`AcquireFutex`, `AddPageToPool`, `LinkPage`, `PushPage`, `ReleaseFutex` map a page and keep its
first block; `UseBlock` and `RetireBlock` are what write buffer and drain do to the links;
`LinkRetired`, `PushRetired` are `Writer_FreeBlockListToPool`.  `FreeBlocks` is what a walk from the head
meets.  Walks along links, here, over the channels, the events and the buffers of the cache, are sets
of nodes (`Reach` in `Links`: the least set that holds the first node and that no link leaves), which
says the same as the loop that follows the links and can be reasoned about without a recursion.

`Pool` is the promise, without links, heads and compare-exchanges: a thread that asks (`Ask`) takes one free
block (`Take`), or adds new ones (`Add`), keeps one of them and makes the rest free (`Share`); it appends
the one block it has in hand to its chain (`Use`); the oldest block of a chain is retired (`Retire`) and what
was retired becomes free at once (`GiveBack`).  The refinement (`AsPool`) takes the set of blocks that a walk
from the head meets for `free`, `InFlight` for `hand` and the worker's list for `given`; a stale pop is the
end of the promise (`broken`).  A pop takes effect at its compare-exchange, which is what makes the loads
before it harmless; a block handed to two threads, one lost by a race of a pop with a push, one taken out
of the middle of a chain, or a list that is given back in part are no behaviours of it.

### PacketRing

`BeginAppend`, `DiscardPacket`, `PlacePacket` are `AppendImpl`, cut at its loop, with the
encoding, `BackUp` and the send that follow in `Writer_TailAppend`; `AppendTooBig` is the
reset for a packet that the ring cannot hold, which is there in the code although no packet of this
program is that big (a block is less than 4 KiB, the ring at least 128 KiB); `Connect` is
`Writer_TailOnConnect`.  Each ring
byte remembers its place in everything sent, so "no gap" is arithmetic.

### SharedBuffer

`FSharedBuffer::Cursor` packs two numbers and every atomic operation on it is one step on
the variables `free` and `refs`.  `Enter` is the load of `GSharedBuffer`, `ClaimSpace` the atomic
add that follows it (in `EnterImpl` and again in `Writer_NextSharedBuffer`), `CreateNext`,
`WaitForNext`, `ReleaseFull` the loop of `Writer_NextSharedBuffer`, `Commit` the release of the
reference.  The worker's `StartUpdate`, `BeginRetire`, `RetireSharedBuffer`, `SendHead` are
`Writer_UpdateSharedBuffers`.  Freed memory is not handed out again; a thread that adds to
the Cursor of a freed buffer is `"undefined"` from there on (`TouchFreed`).

### ImportantCache and ImportantStream

The stream of important events is a number of bytes, and a cache buffer a range of it.
`CacheData`, `Collect` and `CacheCommit` are `Writer_CacheData` cut at its loop; encoding is any
size up to `EncodeMaxSize`.  `tailNext` is the word that `Next` shares with `TailNext` (a union in
the code), so the list is built by the same pointer writes.  `Connect` walks that list as
`Writer_CacheOnConnect` does and compares what it sends with the stream.  `ImportantStream` says
only: the stream grows, and whoever is connected has all of it.  The refinement maps
`traced`, `cacheClient` and `cacheGot` to its variables, so a client that was sent anything else
(`"broken"`) is no behaviour of it.

### EventNode

`LoadNewList` and `Publish` are the two halves of the push in `FEventNode::Initialize`, `OnConnect`
and `ReadNew` the list operations of the worker, `DescribeNext` one turn of
`Writer_DescribeEvents` with `GetNext`, which finds the end of the list as it goes.  Thread buffers
are a set of traced events, of which `DrainBuffers` may take any part: `TlsBuffer` says in what
order, here only the order against descriptions matters.  A connection may be lost at
any step (`LoseClient`).

### Connection

A call of `WriteTo`, `SendTo` or `Stop` is a load of the pending handle, a load of the data handle,
`Open`, and a store; an update is a step for each of its sections.  What a handle is sent is
the number of the last section: 1 handshake, 2 descriptions, 3 important events, 4 tail,
5 what is new.  `Updaters` are the worker, the thread that ends the program
(`Writer_WorkerJoin`) and the threads that run `Trace::Update` from then on - in this program
every thread that allocates memory (TraceAuxiliary.cpp:1378).  Commands of clients run inside an
update.  A close request counts down from `~0`; the model counts from `CloseRequest`, which
like `~0` lies above every handle.  `SendSync` is the one section that does not ask whether there is a
connection: after one was lost in the same update it writes to handle 0 and closes it, to no effect, and
uses up one of the three sync packets (`syncs`) that a connection asks for.

### LockFreeHash and CallstackTracer

`LockFreeHash` takes a table for a value: `Holds` and `ValueOf` are what `Find` answers of it,
`HashInsert`, `MustGrow` and `Grown` what `Emplace` does to it.  `CallstackTracer` says who sees which
table when.  Replaced tables are kept in the code and in `tables`, so that a slow reader goes on
with an old one.  `BeginAlloc` is `utrace_mem_alloc`; `GetInstance`, `PublishInstance` and
`BuildTracer` are `FBacktracer::Get` and the constructor it runs; `LoadTable`, `ProbeTable`, `TakeId`,
`Reserve`, `Emplace`, `StoreFirst`, `StoreSecond` and `LogSpec` are `AddCallstack`; `LogAlloc` logs the
allocation.  A stack is its hash.  The two stores of `SetKeyValue` may become visible in either
order, because the second is relaxed.  A thread that is given an instance whose constructor has
not finished is `"undefined"` from there on.

`MemoryTags` uses the same hash by its other entry, `FindOrAdd`; there it is one step.

### Channel and Session

`Link` and `CheckInitialized` are the halves of `Setup`; `Toggle`, `EnterToggle` and `FillToggle` the store, the
place of the event in the trace and the second read of `Enabled` that goes into it; `ReadNew`,
`EnterAnnounce`, `FillAnnounce` and `Splice` the worker's walk over the channels it has taken.  `said[c]` is the
last event about `c` that has a place in the trace: an important event has its place from the
moment its space is claimed (`SharedBuffer`), so that is where the order is decided.

`Session` extends `Channel` by the main thread: `LoadNewList` to `SetInitialized` are `FChannel::Initialize`;
`RefuseStart`, `BeginStart`, `IsChannel`, `NotFound`, `EnableChosen`, `SetActive` and `Connect` are
`FTraceAuxiliary::Start`, where `IsChannel` and the toggle each look the channel up again; `Stop` is
`FTraceAuxiliary::Stop`.  The worker connects, closes, loses connections, carries out commands
(`CommandToggle`, `CommandSendTo`, `CommandStop`) and announces; connecting and closing are one step each
here, `Connection` has the others.  Presets are expanded and names are matched outside the model: a
request is a set of channels.

Four history variables say what the properties cannot promise: `before` loses a channel that was in
the worker's hands when it was looked up, `disturbed` has those that a command toggled or that were
still in `Setup`, `slipped` those that `ToggleAll` can miss, and `ended` says that the connection went
other than by `Stop`.

### Control

A client sends characters and hangs up; the worker listens, accepts and receives.  `Receive` is one
read and one pass of the parser (`Parse`) over all that is in the buffer, `Unspent` what stays there for the
next read.  As in the code a pass starts anew, over text in which the spaces of unfinished lines
already are `'\0'`.  `'\r'` is not modelled: it is treated as `'\n'` is.  `torn` records that a call has
returned with part of a line, which is lost: the code says it assumes that commands arrive whole.
`dispatched` is a sequence of commands, each the sequence of its words; `CommandsOf` is what a reader of
the protocol would make of the same text: a command for each `'\n'` that ends a line which is not empty
(`Ends`), and a word for each place of that line where one starts (`Starts`), nothing of it by passes or states.

### CpuProfiler

`DeclareScope` and `EnterScope` are the two macros of a static scope, `BeginDynamic` a named one; `TakeSpecId`
and `LogEventSpec` are the halves of `OutputEventType`, between which others run; `WriteBegin` and `EndScope`
encode an event (`AddEvent`) and flush if the buffer may not hold another; `ExitThread` is the destructor
of the thread's buffer, after which scopes in other destructors open a new one.  A cycle is a number
and its encoding is its length, one byte for each turn of the loop of `Encode7bit`, which divides by `Digit`
(128 in the code).

### MemoryTags

`OpenMemScope`, `NameTag`, `FindOrAddTag`, `AnnounceTag`, `ActivateScope` follow a scope from its constructor through
`AnnounceFNameTag` - which calls itself for the parent, hence the sequence `naming` - to the event;
`CloseMemScope` is the destructor.  The parent of a name is what follows its first slash *with that
slash*, as in the code: a name that begins with one is its own parent.
`PublishTagTrace` and `BuildTagTrace` are the two halves of `utrace_mem_init_tags`, which stores `GTagTrace` before
the constructor runs.  A scope that is opened before has the tag -1 (`NoName`), which it activates and nobody
describes; a thread that comes in between works on an object that is not constructed, and is
`"undefined"` from there on.  The tags that the constructor itself announces are left out.
`utrace_mem_init_tags` is called once, as this repository does (TraceAuxiliary.cpp:3102): two calls at once, which
the public header does not forbid, could make two tag traces and are not modelled.

## 3. Runs

| Run | Instance | Shows |
|---|---|---|
| `update` | one logging thread, 2 events with up to 2 array fields, before or after its end, 4 blocks of 5 bytes; 1 caller, commands WriteTo and Stop, the end of the program, 2 pumps, 2 handles, fair worker | `ChainInvUnlessStrayed` (the inductive invariant, for the proof), `NoOverrun`, `ImplementsTrace`; `ConnectionInv` (types, closed once, lost only by an overwrite), `SessionInOrder`, `StopCloses`, `OpenedIsServed` |
| `tls_threads` | that thread and the worker's own, 2 events and 1, with one field, one pool of 6 blocks and both drains, fair worker | `SoleUseUnlessStrayed`, `StreamInOrder`, `EventuallySent`, `EventuallyReclaimed` |
| `tls_late` | one thread, 2 events, 3 blocks | `SoleUse` is **violated**, see 5 |
| `pool` | 2 threads with 3 allocations each, pages of 2 blocks, 2 lists given back, up to the first stale pop | `PoolInv` (types, one mapper, no block lost, none in two places), `ImplementsPool`, `AllocationReturns` |
| `pool_aba` | 2 threads and recycling | `Exclusive` is **violated**, see 5 |
| `clients` | a ring of 11 bytes with packets of 1, 2 (of 3 reserved) and 12 bytes, 24 bytes in all; a collector of 3 bytes with buffers of 8, 18 bytes in all; a control buffer of 4 characters, commands of 2 words, 6 characters, 2 clients | `RingInv`, `TailIsSuffix`, `ClientSeesNoGap`, `TailIsLong`; `CacheKeepsAll`, `ImplementsStream`; `EveryCommandOnce`, `NextClientServed` |
| `worker` | 3 threads with an important event each, of 1 or 4 bytes, buffers of 3; 2 events, 3 connections; fair worker | `SentInv` (in order and whole), `ClaimInv` (claims apart, a reference keeps its buffer), `EventuallySent`, `EventuallyDescribed` |
| `shared_buffer_freed` | 2 threads | `NoUseAfterFree` is **violated**, see 5 |
| `connection_lost` | 1 caller and the WriteTo command | `NoHandleLost` is **violated**, see 5 |
| `session` | 2 channels, 2 sessions or commands, sessions to a host or a file, fair worker | `ChannelsKept`, `ClientKnows`, `SessionInv` (types, requested channels are on, others off after Initialize), `SessionHasConnection`, `EventuallyAnnounced` |
| `session_restart` | 1 channel, 2 sessions | `StartMakesConnection` is **violated**, see 5 |
| `producers` | 3 events, 2 connections; 2 threads, 2 allocations each, 3 stacks, a set that starts with 2 entries or reserves 4; 2 threads with a static and a dynamic scope, a buffer of 7 bytes, 5 cycles, 2 ids; 2 threads, 3 tags, 2 scopes deep, a tag trace that is made meanwhile; one switch of each channel | `ListInv` (every event listed once and described once), `DescriptionInv` (described before the tail, or still to be); `TableInv` (ids keep stacks, known is found), `FindEnds`, `EveryIdDescribed`; `BatchesTell`, `BeginsDescribed`; `TagsDescribed`, `ActiveTagIsInnermost` |

Why the bounds are enough:

* *Sizes* are scaled so that every boundary is met: an event that fills a block to the
  byte, an array field that needs three segments, a header and a terminal byte that both
  fall into the overflow bytes.  `Overflow = 3` is the least that the assertion in
  `Field_WriteAuxData` allows with a header of one byte, so nothing hides in slack.
* *Four blocks* let one event span a chain of four, and let a block be recycled while the
  chain it came from is still open.  When the pool is empty in the model a thread waits
  in `NextBuffer`, where the code would map more; a drain always frees it, which is why
  deadlock is checked in these runs.
  With two logging threads there are six, because a thread that takes a block after its end never gives
  it up.  In `update` and `tls_threads` the pool hands out the least free block (`LeastBlock`), instead of a
  symmetry, which liveness rules out: a fresh block is reset in all that is read of it, so which one it
  is does not matter.
* *Up to the first stray.*  `update` and `tls_threads` look no further than the first use of a block that its
  thread had lost (`NotStrayed`): what they check promises nothing after it.
* *24 bytes* take a ring of 11 around more than twice, with a client joining anywhere.
* *Two pumps* are there for `GUpdateInProgress`: the worker, the thread that ends the program and
  a pump are kept apart by their times of life, two pumps only by the lock.  They are alike, so the second
  begins an update only while the first is in one (`PumpsInTurn`, an action constraint).
* *Three connections* (run `worker`) let one find known events, new events and both at once; *two
  handles* let one be connected or pending while the other is in a caller's hands, which
  is what the tests of `WriteTo` and `Stop` are about.
* *Shared-buffer events* of 1 and 4 bytes against a buffer of 3: one that fits, one that
  is cut by the end of the buffer and needs the larger next one.  `MaxBuffers` is never
  reached: a thread that could not create a buffer would be a deadlock, and deadlock is
  checked.
* *The pool* with a stale pop is broken (5), so `pool` carries a history variable `stale`, set by
  a pop whose successor is no longer the block's, and looks no further than the first
  one: what it shows is that nothing *else* breaks the pool.  Its runs end when all
  allocations are made, hence `CHECK_DEADLOCK FALSE` there and, for the same reason, in
  `producers`, `session` and `clients`, where all that was bounded has been done.
* *Call stacks* hash to 0, 3 and 7: the first is stored as 1, the others collide in a table of 4
  and the second of them wraps around, and in a table of 8 they are apart.  A set of 2 entries grows
  to 4, one that reserved 4 to 8, and the fourth id is beyond `ReserveCount`.
* *Two files lost to each other* (5) end a session early, so `Connection` carries a history variable
  `overwritten`; `LostOnlyByOverwrite` says no handle is lost in any other way, and `StopCloses` and
  `OpenedIsServed` promise nothing after one.  Nor do they once the worker has quit.
* *Tables replaced too late* (5) are marked by a history variable `late` of `CallstackTracer`, after
  which `KnownIsFound` promises nothing; the others hold all the same.  `skipped` records the ids whose
  description met a disabled channel: turning the channel on later does not bring it back.

* *Two channels* let one be set up, found or toggled while the other is in the worker's hands, and let a
  list have an end and a middle; a request for both is the only one, as a request for one of them is a
  request for both with the other absent.  *Two sessions or commands* let a command fall into a session
  and a session follow another.
* *Control*: 4 characters hold a command of two words and its end, or three letters and no end;
  6 characters make a line too long for the buffer, a line in several reads, and two lines in one read
  with a rest.
* *The CPU buffer* of 7 bytes has its threshold at 4, so that one to three events fit before it
  is flushed; distances of more than one digit occur; 2 ids let two threads take one each for the
  same static scope.
* *Tags*: `a/b` has the parent `/b`, which is its own, and `a` has none; two threads meet at each name.

**Fairness.** The worker thread loops until shutdown (`Writer_WorkerThread`), so its steps are
weakly fair; the start of a full drain is strongly fair in `TlsBuffer` because the worker's own
events and local drains disable it again and again without ending the loop.  A thread
that has entered an event, or an allocation, has nothing to wait for but what is modelled
and runs on.  In `Connection` a call of the program returns, and so does an update; an update
does not take commands for ever, which is the strong fairness of its action `Control`.  In `Session` the
worker goes on connecting and announcing, and whoever is in `Toggle` finishes; in the module `Control`
the worker goes on serving.  `MCWorker`, `MCClients` and `MCUpdate` take over the fairness of the machines they join.  Nothing forces
a thread to log, to connect or to end.

## 4. Proofs

Every invariant that a run checks is also a theorem, for any number of threads, blocks,
buffers, channels, events, handles, scopes, names and stacks and any sizes that the assumptions allow;
so are the three refinements.  The theorems that state what a reader wants are listed in `PROJECT.json`.
Each rests on an inductive invariant, because none of the properties is inductive by itself, and each
proof has one lemma or step per action and under it one step per conjunct that the action can disturb.

**TlsBuffer** (`TlsBufferProofs`).  `ChainInvariant` is
`Spec => []ChainInvUnlessStrayed`: until a thread has strayed, `ChainInv` holds, which is the conjunction of

* `TypeOK` and `BlockInv`: Reaped <= Committed <= Cursor <= Size + Overflow, and EtxOffset is
  either beyond any Cursor, or exactly Cursor, or where it was when its thread ended, if the thread has
  logged since (`GivenUp`);
* `RoomInv`: what a thread has tested about its block before it writes;
* `CurInv`, `PrevInv`, `ScopeInv`: the block a thread writes to, the one it has left but not
  retired, the one its open event starts in.  They are held, owned and not yet
  retired, and the last still has uncommitted bytes.  This is the heart of the
  argument: a block can be recycled only when Committed has caught up with EtxOffset = Cursor,
  and `ScopeInv` says it has not while an event that starts in the block is open;
* `LinkInv`: chains are lists, a successor continues its predecessor's stream;
* `HeadInv`, `WorkerInv`: what the worker knows of a thread, and that it stands where it
  last sent.

The invariant is needed because none of the theorems is inductive: that a block is not
recycled depends on what is committed in it, which depends on `bCommit`, which depends on
where the event began.  From it follow `TypeCorrect`, `WritesStayInBlock` (`NoOverrun`), `BlocksSoleUse`
(`SoleUseUnlessStrayed`) and `StreamsInOrder` (`StreamInOrder`).  A thread that has ended is in the invariant like the
others, but for one case: its last block has EtxOffset at or below Committed although it points at it, so that
the worker may take it at any time.  `SoleUse` counts it whenever it is logging; the theorem says that
only a strayed thread breaks it, and the run `tls_late` that it does break.  That `strayed` once set stays set is `StrayedStays`.

`BuffersImplementTrace` is `Spec => ImplementsTrace`: the buffers and the drain implement `TraceStream`.  The step
simulation needs `OrderInv` beside `ChainInv`: the blocks that a thread holds are disjoint ranges of its
stream (`ApartInv`), the one it writes to is the last of them and the others are not empty
(`LastInv`), the one the worker stands at is the first (`FirstInv`), and nothing of an open event is
committed in the block it starts in (`EventInv`).  From these the worker never sends beyond `Whole`,
which is what `Send` asks, and forgets a thread only when all of it is sent, which is what `Forget` asks.

**BlockPool** (`BlockPoolProofs`).  `EachBlockInOnePlace` states `PoolInv`.
Up to the first stale pop the invariant says (`FreeInv`) that there is a sequence of blocks that *is* the
free list: linked from `freeList` to the end, without repetition, and disjoint from what threads have in
hand, from the page that is being added, from the chains in use and from the list the worker gives
back, while all of these together are the mapped blocks (`Placed`).  A list that is about to be pushed
is linked inside, and to the head that its compare-exchange expects; a pop that succeeds with the right
successor takes the head of the sequence.  A stale pop is the one step without such a sequence after it.
That the set which a walk meets and this sequence are the same is a lemma on `Reach`.

`PoolImplementsSet` is `Spec => ImplementsPool`.  From the invariant, each mapped block is in one place and the
free blocks are those in no other (`OnePlace`), before a step and after it.  So what a step does to
the free set follows from what it does to the pages, the chains, the hands and the retired blocks, and
the links need not be looked at again: one lemma per step says which action of `Pool` it is, or that it
moves nothing (`NoBlockMoves`).

**PacketRing** (`ClientProofs`).  `RingInvariant` is `Spec => []RingInv`: the two ranges are apart, each is filled
with packets end to end (`Packed`, which makes the stride of the discard loop land on packet
starts) and holds consecutive bytes (`Suffix`), and a client that has been given
anything has been given everything up to now.  `RingRangesApart`, `RingHoldsSuffix` and
`ClientUnbroken` follow.  `RingKeepsMost` (`TailIsLong`) adds `LongInv`: with any bound on the size of a
request, either nothing was overwritten since the last reset, or the older range reaches to within one
request of the end of the ring and begins within two of the newer.

**ImportantCache** (`ClientProofs`).  `CacheInv`: what is traced is in the buffers, in the collector or still to
be taken (`WorkInv`), the list holds the retired buffers in the order they were made although `Next` and
`TailNext` are one word (`ChainInv`), and each buffer goes on where the one before it ends (`RangeInv`).
`CacheIsComplete` states `CacheKeepsAll`; `CacheImplementsStream` is the refinement of `ImportantStream`, step by
step, from `FedInv`.

**Control** (`ClientProofs`).  `CommandsOnce` states `EveryCommandOnce`, for any letters, any sizes of Buffer and ArgV,
any cutting of the text into reads, and any number of clients.  The argument has three parts.
* The reference.  `CommandsConcat`: the commands of whole lines (`Whole`) followed by any text are those
  of the lines and then those of the text; `WordsNext`: what one more character does to the words of a line.
  `SimilarCommands`: spaces may be blanked without a difference.
* The parser.  `Parsed` holds after each turn (`TurnStep`): what it has dispatched are the commands of the
  characters it has read, and also of those it has spent; its words are as many as fit of those of the line
  it is in (`InLine`); and what it has not spent is as it was, but for blanked spaces.
* The reads.  `ControlInv`: what was read of a client is whole lines, which are dispatched, and then what
  the buffer holds, blanked (`InStep`).  `EveryCommandOnce` alone is not inductive: it says nothing of what is
  in the buffer, which the next read parses once more.

Induction over the text is induction over a set of numbers (`AllNaturals`), from its least number that is
not in the set.

**SharedBuffer** (`WorkerProofs`).  `BufferInv`: references count the holders (`RefsInv`, by cardinality of a
finite set, as the number of threads is not bounded), claims are apart and none is behind what was
declared unused (`ThreadInv`, `ApartInv`), one thread at a time creates the next buffer (`FullInv`), and the
worker has sent nothing that is claimed (`WorkerInv`).  `ClaimsAreOwn` states `ClaimInv`, `EventsSentWhole` states
`SentInv`.

**EventNode** (`WorkerProofs`).  `NodeInv`: every registered event is on a list or in the hands of the thread
that pushes it, the client has been told of what the worker knows and is done with, once, and of
nothing else (`ToldInv`), and what is in the tail is known to the worker (`HeldInv`).  `EventsListed` and
`EventsDescribed` state `ListInv` and `DescriptionInv`.

**Connection** (`ConnectionProofs`).  `HandlesInv`: one update at a time, a handle is in one use at a time except
while an update takes the pending one for the connection, what an update found pending is there when it
clears it or was overwritten, and a connection has been sent the sections before the one it is at
(`FedInv`).  `HandlesKept` states `ConnectionInv` and `SessionsInOrder` states `SessionInOrder`, for any callers, pumps
and commands.

**Channel and Session** (`SessionProofs`).  `ChannelInv`: the lists are lists (`LinkInv`), the last event about a
channel says what the channel is unless a toggle is on its way (`SaidInv`), a channel that `ToggleAll` has
not switched off is before it (`WalkInv`), one that was requested is still to be enabled or stays so
(`StartInv`), and whoever asks for the connection to be closed leaves no session (`ConnInv`).
`ChannelsStayKept`, `ClientIsTold`, `SessionsEnable` and `SessionsConnected` follow.

**CpuProfiler** (`ProducerProofs`).  `CpuInv`: an id is taken once, by the thread that is to log its spec, and an
id that is kept is described; `ScopesDescribed` states `BeginsDescribed`.  `BatchInv`: the distances in a buffer,
each added to the cycle before, are the cycles of what happened (`Tells`), and `LastCycle` is the last of
them; `BatchesInOrder` states `BatchesTell`.  `Decoded` and `EncodedLength` are recursive functions: that the
first has the value that `Tells` describes, and that the second is defined, is shown from the least argument
for which it would not be.  `EventsFit` adds that no event is longer than `MaxEncodedEventSize`, from
the assumption about the largest one, because a larger value is not shorter.

**MemoryTags** (`ProducerProofs`).  `TagInv`: a name that is announced is described, being described by one
thread, or was not heard, and a traced scope keeps the tag that was active before it.  `TagsAreDescribed`
and `TagsNest` state `TagsDescribed` and `ActiveTagIsInnermost`.

**Call stacks** (`ProducerProofs`).  `TracerInv` is about all tables at once, since a reader may hold any of them.
`Sound` says that a key is in one entry only and that a search for it comes to that entry: all entries
it meets before are in use (`Met`).  Entries never become empty again, which is why `Met` survives what
others insert.  `TablesInv`: all tables are sound, have an empty entry, and hold no ids but those taken for
that stack and settled.  `CurrentInv`: in the current table key and value come together, but for the entry
that the thread with the lock is writing (`Writer`, one case for each order in which its two stores become
visible).  `ThreadInv`, `LogsInv` and `KnownInv` say what threads, the trace and the set know.  `Grown` copies
entry by entry: its recursive function is shown to exist, and to hold after each turn the entries
copied so far (`CopyOf`).  `IdsStandForStacks`, `SearchesEnd` and `IdsAreDescribed` state `TableInv`, `FindEnds` and
`EveryIdDescribed`.

**Walks** (`LinkProofs`).  A walk is the least set closed under the links, so what it meets is proved without
induction: it stays in any closed set, splits at its first node, does not notice changes elsewhere, and
joins what is linked to its end.  `Smallest`, from the well-foundedness of the natural numbers, is the one
form of induction used: the recursions above are taken up at the least argument that would fail.

**Assumptions.**  Only the named ones on constants, which every run evaluates.  In `TlsBuffer` that `NoBlock` is
no block, that a fresh block holds the redirected bytes, the timing event and one event, and the
overflow bytes a header and a terminal; in `PacketRing` that a request fits in the ring; in `ImportantCache` that
a cache buffer holds an encoded collector with its header; in `SharedBuffer` that sizes and bounds are numbers;
in `Control` that Buffer and ArgV have room for something and that a letter is neither a space nor an end;
in `CallstackTracer` that the sizes of tables are powers of two above 1, and that no thread is `NoThread`; in
`CpuProfiler` that static and dynamic scopes are told apart, and that the largest event fits in what a
buffer keeps free; in `MemoryTags` that the parent of a parent is itself; elsewhere that a null pointer is
none of the nodes.  Bounds (`Max...`) are natural numbers, of any size.

**Model-checked only.**  Liveness (`EventuallySent`, `EventuallyReclaimed`, `AllocationReturns`, `EventuallyDescribed`,
`EventuallyAnnounced`, `NextClientServed`, `StopCloses`, `OpenedIsServed`) is out of TLAPS's reach here, as is
`ENABLED`.  These are checked on the instances above, and are all that is only checked.

## 5. What the runs found

* **Write buffer, used after the end** (`tls_late`).  `Writer_EndThreadBuffer` stores EtxOffset and leaves
  `GTlsWriteBuffer` at the block (TlsBuffer.cpp:297-307).  It runs in `~FWriteTlsContext`; the context is
  constructed when the thread takes its first block (TlsBuffer.cpp:94), so if `TlsInstances`
  (TraceAuxiliary.cpp:2466) was there before, `~FThreadBuffer` runs later and logs `EndThread` (line 621)
  - when the worker may have drained the block, dropped the thread and put the block back, for another thread
  to write to.  Scopes in other destructors, which the comment there expects, do the same.
  `SoleUseUnlessStrayed` (run `tls_threads`, theorem `BlocksSoleUse`) shows that a block has one user otherwise.
* **Block pool, ABA** (`pool_aba`).  `Writer_AllocateBlockFromPool` reads `Owned->NextBuffer` and then
  compare-exchanges the list head from `Owned` to it (BlockPool.cpp:97).  When the same block comes
  back to the head in between, the exchange succeeds with a stale successor, and a block
  that another thread is writing to is handed out again.  `ExclusiveUnlessStale`, a part of `PoolInv` (run `pool`), shows
  that a stale pop is the only way this happens.
* **Shared buffer, use after free** (`shared_buffer_freed`).  A thread loads `GSharedBuffer` and only
  then adds its reference (ImportantLogScope.inl:58-65, and again SharedBuffer.cpp:74-87).  In
  between the buffer can be filled, released and freed.  `ClaimInv` shows the other
  half: once a reference is held, the buffer stays.
* **Connection, lost handle** (`connection_lost`).  `WriteTo` and `SendTo` test that the trace is idle,
  open, and then store the pending handle.  A thread of the program and a command of a
  client can both pass the test; the second store overwrites the first handle, and that
  file is never written to nor closed.  A `Stop` command that falls into an open call has the
  same effect: the call's store overwrites its close request, or the close overwrites the
  call's handle.  `LostOnlyByOverwrite`, part of `ConnectionInv` (run `update`), shows that this is the only way to lose one.

* **Session, restart** (`session_restart`).  `Stop` leaves a close request for the worker and marks the session
  as stopped at once.  A `Start` before the worker has closed finds the old connection, takes it for its
  own (TraceAuxiliary.cpp:1993) and returns true; then the worker closes it.  The session has no
  connection, cannot be stopped, as there is nothing to close, and cannot be replaced, as it is
  "tracing".  TraceAuxiliary.h:315 promises true only when the connection was made.
  `SessionHasConnection` (run `session`) shows that sessions keep their connection otherwise.

More defects are modelled, without a run of their own:

* **Session to a file.**  The body of `WriteToFile` is compiled out (TraceAuxiliary.cpp:2178) and it returns
  true: the session is "tracing" with no connection.
* **Channels missed.**  A channel that is in the worker's hands is not found by name, and not enabled,
  and nobody tries again (`before` in `Session`).  One that is linked while `ToggleAll` walks, before
  `GChannelsInitialized` is set, stays enabled (`slipped`).  One that is disabled in `Setup` after it was
  announced is disabled without an event (`silenced`).
* **Static scopes without an id.**  If the channel is enabled between the declaration of a static scope
  and its use, the begin has id 0 (`BeginsDescribed`).
* **Lines cut by the end of an update.**  What `Writer_ControlRecv` has not parsed when the socket runs
  dry is lost with the call (`torn`).

* **Call stacks, late Reserve.**  The thread that takes id 1 reserves the table, but a thread with
  id 2 may insert before it does.  That breaks "only before any items have been added" of the header
  (GrowOnlyLockFreeHash.h:78): the assertion of line 83 fails, and where it is compiled out the
  first entries are lost; their stacks are described once more, under new ids.
* **Call stacks, early instance.**  `FBacktracer()` sets `Instance` before `CallstackTracer`
  (Backtracer.cpp:126), so that a thread whose first test in `Get` falls in between goes on with a
  pointer that was never set.

* **Tag trace, early pointer.**  `GTagTrace` is stored before its constructor has run
  (TraceAuxiliary.cpp:1615-1616); a scope opened in between uses sets and a lock that do not exist yet.
  One opened earlier is traced with the tag -1.

The remaining properties hold.

## 6. Not modelled

* `Writer_InternalShutdown`, with `Writer_ShutdownPool`, `Writer_ShutdownSharedBuffers`, `Writer_ShutdownCache`
  and `Writer_ShutdownControl`, and the snapshots (`Writer_WriteSnapshotTo`, `Writer_SendSnapshotTo`, with
  `WorkerUpdateLock` and its timeout) are reached from no code of this repository.  The callback on
  connection is never set, `EndCapture` has no caller, and `FTraceAuxiliary::Start` is called only from the
  command line.  (Read, not modelled: `Writer_ShutdownPool` unmaps its last page with the size of a block.)
* Allocation hooks (libc and loader, Android only).  Two things read there and not modelled: `free_hook` logs
  a free after the memory is released, so that another thread may log the same address first; and the
  flag that hides the allocations of `malloc` itself is a boolean, so that a nested hook turns it back on.
* Files, counters, log, screenshots, modules and frames: one event per call.  The count of open files and
  the 16-bit counter ids are left out.
* Channel presets, the command line (Prefix.cpp), the GPU trace of Android: outside the session's logic.
  `PauseChannels`, `ResumeChannels` and `DisableChannel` are compiled out.
* Thread ids: 16 bits, 14 on the wire, from an unbounded counter.  Reuse needs 2^14 threads.
* mimalloc, LZ4, xhook: third-party.  Platform layer: operating-system calls.  Codec: a pure
  function.  Public API and field macros: templates without state.

About two thirds of the lines under `src/` are vendored, and much of the rest is declarations,
platform code and encodings; the modules cover the parts that keep state which interacts.

## 7. Plan

1. `TlsBuffer`, and `TraceStream` which it implements - modelled, checked and proved.
2. `BlockPool`, and `Pool` which it implements - modelled, checked and proved up to the first stale pop, but for
   liveness.
3. `PacketRing` - modelled, checked and proved.
4. `SharedBuffer` - modelled, checked and proved; the use after free (5) stays outside of the theorems.
5. `ImportantCache`, and `ImportantStream` which it implements - modelled, checked and proved.
6. `Connection` - modelled, checked and proved, but for liveness.
7. `EventNode`, `Channel`, `Session` - modelled, checked and proved, but for liveness.
8. `LockFreeHash` and `CallstackTracer` - modelled, checked and proved.
9. `CpuProfiler` and `MemoryTags` - modelled, checked and proved.
10. `Control` - modelled, checked and proved, but for liveness.

What is left is to compose `TlsBuffer` with `Pool`, whose `free` is the variable `pool` that `TlsBuffer` takes
its blocks from (today the two are joined only by reading), and the parts listed as not modelled.
