---------------------------- MODULE SharedBuffer ----------------------------
(***************************************************************************)
(* Important events (SharedBuffer.cpp, ImportantLogScope.inl): all threads *)
(* claim space in one shared buffer with an atomic add, and move together  *)
(* to a new buffer when it is full; the worker sends what is complete and  *)
(* frees the buffers left behind.                                          *)
(*                                                                         *)
(* FSharedBuffer::Cursor packs the bytes not yet claimed, which an         *)
(* overflowing claim makes negative, and a count of the claims that are    *)
(* open; they are the two variables free and refs here, and every atomic   *)
(* operation on Cursor is one step on both.  Memory is not reused: a freed *)
(* buffer stays freed.                                                     *)
(***************************************************************************)
EXTENDS Integers

CONSTANTS
  Threads,     \* threads that trace important events
  Capacity,    \* data bytes of a block of GBlockSize bytes
  Growth,      \* GBlockSize, by which a longer block grows
  EventSizes,  \* AllocSize values of EnterImpl
  MaxEvents,   \* bound: events a thread traces
  MaxBuffers   \* bound: buffers created

ASSUME BufferAssumption ==
  /\ Capacity \in Nat /\ Growth \in Nat \ {0}
  /\ EventSizes \subseteq Nat \ {0}
  /\ MaxEvents \in Nat /\ MaxBuffers \in Nat \ {0}

Buffers  == 1 .. MaxBuffers
NoBuffer == 0

VARIABLES
  created,   \* buffers created so far: 1 .. created
  freed,     \* the ones given back to the system
  free,      \* [Buffers -> Int] Cursor >> CursorShift
  refs,      \* [Buffers -> Nat] RefInit - (Cursor & RefInit)
  size,      \* [Buffers -> Nat] Size
  final,     \* [Buffers -> Nat] Final, bytes at the end that nobody claimed
  next,      \* [Buffers -> buffer] Next
  base,      \* [Buffers -> Nat] place in the stream of the buffer's first byte
  shared,    \* GSharedBuffer
  tail,      \* GTailBuffer
  preSent,   \* GTailPreSent
  pc,        \* [Threads -> control state]
  need,      \* [Threads -> Nat] AllocSize
  buffer,    \* [Threads -> buffer] Buffer
  newer,     \* [Threads -> buffer] NextBuffer of Writer_NextSharedBuffer
  region,    \* [Threads -> Int] RegionStart >> CursorShift
  events,    \* [Threads -> Nat] events traced
  wpc,       \* control state of the worker
  headSeen,  \* HeadBuffer of Writer_UpdateSharedBuffers
  sent       \* bytes of the stream given to Writer_CacheData

bufferVars == <<created, freed, free, refs, size, final, next, base, shared>>
threadVars == <<pc, need, buffer, newer, region, events>>
workerVars == <<tail, preSent, wpc, headSeen, sent>>
vars == <<bufferVars, threadVars, workerVars>>

\* Writer_InitializeSharedBuffers has run: an event's registration runs it.
Init ==
  /\ created = 1 /\ freed = {}
  /\ free = [b \in Buffers |-> IF b = 1 THEN Capacity ELSE 0]
  /\ refs = [b \in Buffers |-> 0]
  /\ size = [b \in Buffers |-> IF b = 1 THEN Capacity ELSE 0]
  /\ final = [b \in Buffers |-> 0] /\ next = [b \in Buffers |-> NoBuffer]
  /\ base = [b \in Buffers |-> 0]
  /\ shared = 1 /\ tail = 1 /\ preSent = 0
  /\ pc = [t \in Threads |-> "idle"] /\ need = [t \in Threads |-> 0]
  /\ buffer = [t \in Threads |-> NoBuffer] /\ newer = [t \in Threads |-> NoBuffer]
  /\ region = [t \in Threads |-> 0] /\ events = [t \in Threads |-> 0]
  /\ wpc = "idle" /\ headSeen = 1 /\ sent = 0

(***************************************************************************)
(* Slips: what a definition below would be with a likely mistake in the    *)
(* code.  Each breaks a property; the specification uses none of them.     *)
(***************************************************************************)
ClaimAs(t, fits, creates) ==
  LET b == buffer[t] IN
  /\ pc[t] = "claim"
  /\ b \notin freed
  /\ region' = [region EXCEPT ![t] = free[b]]
  /\ free' = [free EXCEPT ![b] = @ - need[t]]
  /\ refs' = [refs EXCEPT ![b] = @ + 1]
  /\ pc' = [pc EXCEPT ![t] = IF fits THEN "write" ELSE IF creates THEN "create" ELSE "wait"]
  /\ UNCHANGED <<created, freed, size, final, next, base, shared, need, buffer,
                 newer, events, workerVars>>

\* Tests what was free before the claim, not after it.
ClaimSpaceUntested(t) == ClaimAs(t, free[buffer[t]] >= 0, TRUE)

\* Carries GTailPreSent over to the next buffer.
RetireSharedBufferSlip ==
  /\ wpc = "retire"
  /\ sent' = sent + (size[tail] - preSent - final[tail])
  /\ freed' = freed \union {tail}
  /\ tail' = next[tail]
  /\ wpc' = IF tail = headSeen THEN "idle" ELSE "update"
  /\ UNCHANGED <<created, free, refs, size, final, next, base, shared, threadVars,
                 headSeen, preSent>>

\* Leaves the newest buffer until it is full.
SendHeadLater ==
  /\ wpc = "update"
  /\ tail = headSeen
  /\ refs[tail] = 0
  /\ free[tail] >= 0
  /\ wpc' = "idle"
  /\ UNCHANGED <<bufferVars, threadVars, tail, preSent, headSeen, sent>>

(***************************************************************************)
(* Threads                                                                 *)
(***************************************************************************)
\* EnterImpl up to its load of GSharedBuffer.
Enter(t, n) ==
  /\ pc[t] = "idle"
  /\ events[t] < MaxEvents
  /\ events' = [events EXCEPT ![t] = @ + 1]
  /\ need' = [need EXCEPT ![t] = n]
  /\ buffer' = [buffer EXCEPT ![t] = shared]
  /\ pc' = [pc EXCEPT ![t] = "claim"]
  /\ UNCHANGED <<bufferVars, newer, region, workerVars>>

\* "Claim some space in the buffer", and whether it fits: if not, the first
\* thread to run off the end creates the next buffer and the others wait.
ClaimSpace(t) ==
  LET b == buffer[t] left == free[b] - need[t] IN
  /\ pc[t] = "claim"
  /\ b \notin freed
  /\ region' = [region EXCEPT ![t] = free[b]]
  /\ free' = [free EXCEPT ![b] = left]
  /\ refs' = [refs EXCEPT ![b] = @ + 1]
  /\ pc' = [pc EXCEPT ![t] = IF left >= 0 THEN "write"
                             ELSE IF free[b] >= 0 THEN "create" ELSE "wait"]
  /\ UNCHANGED <<created, freed, size, final, next, base, shared, need, buffer,
                 newer, events, workerVars>>

\* An atomic add on a buffer that the worker has freed meanwhile.  Its outcome is
\* undefined: nothing is said of the thread after it.
TouchFreed(t) ==
  /\ pc[t] \in {"claim", "release"}
  /\ buffer[t] \in freed
  /\ pc' = [pc EXCEPT ![t] = "undefined"]
  /\ UNCHANGED <<bufferVars, need, buffer, newer, region, events, workerVars>>

\* Writer_CreateSharedBuffer(n): whole blocks, at least n bytes.
SizeFor(n) == IF n <= Capacity THEN Capacity
              ELSE Capacity + Growth * ((n - Capacity + Growth - 1) \div Growth)

CreateNext(t) ==
  LET b == buffer[t] new == created + 1 n == SizeFor(need[t]) IN
  /\ pc[t] = "create"
  /\ created < MaxBuffers
  /\ created' = new
  /\ free' = [free EXCEPT ![new] = n]
  /\ size' = [size EXCEPT ![new] = n]
  /\ next' = [next EXCEPT ![b] = new]
  /\ final' = [final EXCEPT ![b] = region[t]]
  /\ base' = [base EXCEPT ![new] = base[b] + size[b] - region[t]]
  /\ shared' = new
  /\ newer' = [newer EXCEPT ![t] = new]
  /\ pc' = [pc EXCEPT ![t] = "release"]
  /\ UNCHANGED <<freed, refs, need, buffer, region, events, workerVars>>

\* "Another thread is already allocating the next buffer"
WaitForNext(t) ==
  /\ pc[t] = "wait"
  /\ shared # buffer[t]
  /\ newer' = [newer EXCEPT ![t] = shared]
  /\ pc' = [pc EXCEPT ![t] = "release"]
  /\ UNCHANGED <<bufferVars, need, buffer, region, events, workerVars>>

ReleaseFull(t) ==
  /\ pc[t] = "release"
  /\ buffer[t] \notin freed
  /\ refs' = [refs EXCEPT ![buffer[t]] = @ - 1]
  /\ buffer' = [buffer EXCEPT ![t] = newer[t]]
  /\ pc' = [pc EXCEPT ![t] = "claim"]
  /\ UNCHANGED <<created, freed, free, size, final, next, base, shared, need,
                 newer, region, events, workerVars>>

\* operator +=
Commit(t) ==
  /\ pc[t] = "write"
  /\ refs' = [refs EXCEPT ![buffer[t]] = @ - 1]
  /\ pc' = [pc EXCEPT ![t] = "idle"]
  /\ UNCHANGED <<created, freed, free, size, final, next, base, shared, need,
                 buffer, newer, region, events, workerVars>>

(***************************************************************************)
(* The worker: Writer_UpdateSharedBuffers                                  *)
(***************************************************************************)
StartUpdate ==
  /\ wpc = "idle"
  /\ headSeen' = shared
  /\ wpc' = "update"
  /\ UNCHANGED <<bufferVars, threadVars, tail, preSent, sent>>

\* "Spin until the buffer's no longer being used": a buffer left behind for a
\* newer one, or the newest if a claim has overflowed it, which then has a
\* successor by now.
BeginRetire ==
  /\ wpc = "update"
  /\ refs[tail] = 0
  /\ tail # headSeen \/ free[tail] < 0
  /\ wpc' = "retire"
  /\ UNCHANGED <<bufferVars, threadVars, tail, preSent, headSeen, sent>>

\* Writer_RetireSharedBufferImpl
RetireSharedBuffer ==
  /\ wpc = "retire"
  /\ sent' = sent + (size[tail] - preSent - final[tail])
  /\ freed' = freed \union {tail}
  /\ tail' = next[tail]
  /\ preSent' = 0
  /\ wpc' = IF tail = headSeen THEN "idle" ELSE "update"
  /\ UNCHANGED <<created, free, refs, size, final, next, base, shared, threadVars,
                 headSeen>>

\* The newest buffer has room left: send what was claimed of it.
SendHead ==
  LET sendable == size[tail] - preSent - free[tail] IN
  /\ wpc = "update"
  /\ tail = headSeen
  /\ refs[tail] = 0
  /\ free[tail] >= 0
  /\ sent' = sent + sendable
  /\ preSent' = preSent + sendable
  /\ wpc' = "idle"
  /\ UNCHANGED <<bufferVars, threadVars, tail, headSeen>>

---------------------------------------------------------------------------
InEvent(t) ==
  \/ ClaimSpace(t) \/ TouchFreed(t) \/ CreateNext(t) \/ WaitForNext(t)
  \/ ReleaseFull(t) \/ Commit(t)

Update == StartUpdate \/ BeginRetire \/ RetireSharedBuffer \/ SendHead

Next ==
  \/ \E t \in Threads : (\E n \in EventSizes : Enter(t, n)) \/ InEvent(t)
  \/ Update

Spec == Init /\ [][Next]_vars

\* A thread inside an event runs on to its commit, and the worker loops for ever.
FairSpec == Spec /\ (\A t \in Threads : WF_vars(InEvent(t))) /\ WF_vars(Update)

---------------------------------------------------------------------------
\* Where in the stream the event that t writes starts, and ends.
EventStart(t) == base[buffer[t]] + size[buffer[t]] - region[t]
EventEnd(t)   == EventStart(t) + need[t]
IsSent(t)     == buffer[t] # NoBuffer /\ sent >= EventEnd(t)

\* The worker sends the stream in order and once: what is next in its oldest
\* buffer follows the last byte sent.
SentInOrder == sent = base[tail] + preSent

\* No event is sent before it is complete, whichever thread claimed space first.
SentWhole == \A t \in Threads : pc[t] = "write" => sent <= EventStart(t)

\* Together: the worker sends every event once, in order, and none too early.
SentInv == SentInOrder /\ SentWhole

\* The space of an open event is its own: inside the buffer, apart from every
\* other open event, and never among the bytes declared unused when the buffer
\* filled up.
ClaimsApart ==
  \A t \in Threads : pc[t] = "write" =>
    /\ need[t] <= region[t] /\ region[t] <= size[buffer[t]]
    /\ final[buffer[t]] <= region[t] - need[t]
    /\ \A u \in Threads \ {t} : pc[u] = "write" =>
         EventEnd(t) <= EventStart(u) \/ EventEnd(u) <= EventStart(t)

\* A buffer that an event is written to, or that a thread creates the successor
\* of, is not freed.
ReferenceKeeps == \A t \in Threads : pc[t] \in {"write", "create"} => buffer[t] \notin freed

\* Together: what a thread has claimed is its own until it lets go.
ClaimInv == ClaimsApart /\ ReferenceKeeps

\* "Spin until the buffer's no longer being used": no thread goes on to use a
\* buffer after it was freed.
NoUseAfterFree == \A t \in Threads : pc[t] # "undefined"

\* An event, once it has space, is sent.
EventuallySent ==
  \A t \in Threads : \A k \in 1 .. MaxEvents :
    (pc[t] = "write" /\ events[t] = k) ~> (events[t] > k \/ IsSent(t))
=============================================================================
