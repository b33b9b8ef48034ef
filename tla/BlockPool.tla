----------------------------- MODULE BlockPool ------------------------------
(***************************************************************************)
(* The block pool (BlockPool.cpp): a lock-free stack of free blocks that   *)
(* every traced thread pops from and the worker pushes retired blocks to.  *)
(* A thread that finds the stack empty maps a page of new blocks; the      *)
(* futex lets one thread at a time do so.  Loads and compare-exchanges of  *)
(* shared words are separate steps.                                        *)
(*                                                                         *)
(* A block's NextBuffer is the stack's link, and while the block is in use *)
(* the link of its thread's chain (Writer_NextBufferInternal, Insert of    *)
(* FRetireList).                                                           *)
(***************************************************************************)
EXTENDS Integers, Sequences, SequencesExt, Links

CONSTANTS
  Threads,     \* threads that allocate blocks
  PageBlocks,  \* blocks in a page: GPoolPageSize / GPoolBlockSize
  MaxPages,    \* bound: pages mapped
  MaxAllocs,   \* bound: blocks a thread asks for
  MaxFrees     \* bound: lists of blocks the worker gives back

ASSUME PoolAssumption ==
  /\ PageBlocks \in Nat \ {0} /\ MaxPages \in Nat
  /\ MaxAllocs \in Nat /\ MaxFrees \in Nat

Blocks  == 1 .. MaxPages * PageBlocks
NoBlock == 0

VARIABLES
  freeList,  \* GPoolFreeList
  next,      \* [Blocks -> block or NoBlock] NextBuffer
  futex,     \* GPoolFutex
  pages,     \* pages mapped so far (GPoolPageList)
  pc,        \* [Threads -> control state of Writer_AllocateBlockFromPool]
  owned,     \* [Threads -> block] Owned, or Ret of the page being added
  seen,      \* [Threads -> block] Owned->NextBuffer, or the list head expected
  chain,     \* [Threads -> sequence of blocks the thread has, oldest first]
  allocs,    \* [Threads -> Nat] blocks asked for
  wpc,       \* control state of the worker
  retired,   \* the worker's FRetireList, head first
  wseen,     \* the list head Writer_FreeBlockListToPool expects
  frees,     \* lists given back
  stale      \* history: a pop took a block whose NextBuffer had changed since
             \* it was read

threadVars == <<pc, owned, seen, chain, allocs>>
workerVars == <<wpc, retired, wseen, frees>>
vars == <<freeList, next, futex, pages, threadVars, workerVars, stale>>

Init ==
  /\ freeList = NoBlock /\ futex = 0 /\ pages = 0
  /\ next = [b \in Blocks |-> NoBlock]
  /\ pc = [t \in Threads |-> "idle"]
  /\ owned = [t \in Threads |-> NoBlock] /\ seen = [t \in Threads |-> NoBlock]
  /\ chain = [t \in Threads |-> <<>>] /\ allocs = [t \in Threads |-> 0]
  /\ wpc = "idle" /\ retired = <<>> /\ wseen = NoBlock /\ frees = 0
  /\ stale = FALSE

(***************************************************************************)
(* Slips: what a definition below would be with a likely mistake in the    *)
(* code.  Each breaks a property; the specification uses none of them.     *)
(***************************************************************************)
\* Takes the block without comparing.
PopSlip(t) ==
  /\ pc[t] = "pop"
  /\ freeList' = seen[t]
  /\ pc' = [pc EXCEPT ![t] = "use"]
  /\ UNCHANGED <<next, futex, pages, owned, seen, chain, allocs, workerVars, stale>>

PageHead(n) == (n - 1) * PageBlocks + 1
PageTail(n) == n * PageBlocks
PageOf(b)   == (b - 1) \div PageBlocks + 1

\* Keeps the futex.
ReleaseFutexSlip(t) ==
  /\ pc[t] = "unlock"
  /\ pc' = [pc EXCEPT ![t] = "use"]
  /\ UNCHANGED <<freeList, next, futex, pages, owned, seen, chain, allocs, workerVars, stale>>

\* Retires the newest block of a chain, which its thread still writes to.
RetireNewest(t) ==
  /\ wpc = "idle"
  /\ frees < MaxFrees
  /\ Len(chain[t]) > 1
  /\ next' = [next EXCEPT ![Last(chain[t])] = IF retired = <<>> THEN NoBlock
                                              ELSE Head(retired)]
  /\ retired' = <<Last(chain[t])>> \o retired
  /\ chain' = [chain EXCEPT ![t] = Front(@)]
  /\ UNCHANGED <<freeList, futex, pages, pc, owned, seen, allocs, wpc, wseen, frees, stale>>

(***************************************************************************)
(* Writer_AllocateBlockFromPool                                            *)
(***************************************************************************)
Allocate(t) ==
  /\ pc[t] = "idle"
  /\ allocs[t] < MaxAllocs
  /\ allocs' = [allocs EXCEPT ![t] = @ + 1]
  /\ pc' = [pc EXCEPT ![t] = "load"]
  /\ UNCHANGED <<freeList, next, futex, pages, owned, seen, chain, workerVars, stale>>

LoadHead(t) ==
  /\ pc[t] = "load"
  /\ owned' = [owned EXCEPT ![t] = freeList]
  /\ pc' = [pc EXCEPT ![t] = IF freeList = NoBlock THEN "futex" ELSE "next"]
  /\ UNCHANGED <<freeList, next, futex, pages, seen, chain, allocs, workerVars, stale>>

\* The compare-exchange's new value is read before it, from a block that may no
\* longer be on the list.
ReadNext(t) ==
  /\ pc[t] = "next"
  /\ seen' = [seen EXCEPT ![t] = next[owned[t]]]
  /\ pc' = [pc EXCEPT ![t] = "pop"]
  /\ UNCHANGED <<freeList, next, futex, pages, owned, chain, allocs, workerVars, stale>>

Pop(t) ==
  /\ pc[t] = "pop"
  /\ \/ /\ freeList = owned[t]
        /\ freeList' = seen[t]
        /\ pc' = [pc EXCEPT ![t] = "use"]
        /\ stale' = (stale \/ seen[t] # next[owned[t]])
     \/ /\ freeList # owned[t]
        /\ pc' = [pc EXCEPT ![t] = "load"]
        /\ UNCHANGED <<freeList, stale>>
  /\ UNCHANGED <<next, futex, pages, owned, seen, chain, allocs, workerVars>>

\* "Someone else is mapping memory so we'll briefly yield": retry from the load.
AcquireFutex(t) ==
  /\ pc[t] = "futex"
  /\ \/ futex = 0 /\ futex' = 1 /\ pc' = [pc EXCEPT ![t] = "map"]
     \/ futex # 0 /\ UNCHANGED futex /\ pc' = [pc EXCEPT ![t] = "load"]
  /\ UNCHANGED <<freeList, next, pages, owned, seen, chain, allocs, workerVars, stale>>

\* Writer_AddPageToPool: the new blocks linked in order of address.
AddPageToPool(t) ==
  /\ pc[t] = "map"
  /\ pages < MaxPages
  /\ pages' = pages + 1
  /\ owned' = [owned EXCEPT ![t] = PageHead(pages + 1)]
  /\ next' = [b \in Blocks |-> IF b \in PageHead(pages + 1) .. PageTail(pages + 1) - 1
                               THEN b + 1 ELSE next[b]]
  /\ pc' = [pc EXCEPT ![t] = "link"]
  /\ UNCHANGED <<freeList, futex, seen, chain, allocs, workerVars, stale>>

\* Insert all blocks of the page but its first, Ret, into the free list.
LinkPage(t) ==
  /\ pc[t] = "link"
  /\ next' = [next EXCEPT ![PageTail(PageOf(owned[t]))] = freeList]
  /\ seen' = [seen EXCEPT ![t] = freeList]
  /\ pc' = [pc EXCEPT ![t] = "push"]
  /\ UNCHANGED <<freeList, futex, pages, owned, chain, allocs, workerVars, stale>>

PushPage(t) ==
  /\ pc[t] = "push"
  /\ \/ /\ freeList = seen[t]
        /\ freeList' = next[owned[t]]
        /\ pc' = [pc EXCEPT ![t] = "unlock"]
     \/ /\ freeList # seen[t]
        /\ pc' = [pc EXCEPT ![t] = "link"]
        /\ UNCHANGED freeList
  /\ UNCHANGED <<next, futex, pages, owned, seen, chain, allocs, workerVars, stale>>

ReleaseFutex(t) ==
  /\ pc[t] = "unlock"
  /\ futex' = 0
  /\ pc' = [pc EXCEPT ![t] = "use"]
  /\ UNCHANGED <<freeList, next, pages, owned, seen, chain, allocs, workerVars, stale>>

\* Writer_NextBufferInternal: reset the block's link and append it to the chain.
UseBlock(t) ==
  /\ pc[t] = "use"
  /\ next' = [b \in Blocks |->
                IF b = owned[t] THEN NoBlock
                ELSE IF chain[t] # <<>> /\ b = Last(chain[t]) THEN owned[t]
                ELSE next[b]]
  /\ chain' = [chain EXCEPT ![t] = Append(@, owned[t])]
  /\ owned' = [owned EXCEPT ![t] = NoBlock]
  /\ seen' = [seen EXCEPT ![t] = NoBlock]
  /\ pc' = [pc EXCEPT ![t] = "idle"]
  /\ UNCHANGED <<freeList, futex, pages, allocs, workerVars, stale>>

(***************************************************************************)
(* The worker: blocks whose successor is in use are drained, collected and *)
(* given back (Writer_FreeBlockListToPool).                                *)
(***************************************************************************)
RetireBlock(t) ==
  /\ wpc = "idle"
  /\ frees < MaxFrees
  /\ Len(chain[t]) > 1
  /\ next' = [next EXCEPT ![Head(chain[t])] = IF retired = <<>> THEN NoBlock
                                              ELSE Head(retired)]
  /\ retired' = <<Head(chain[t])>> \o retired
  /\ chain' = [chain EXCEPT ![t] = Tail(@)]
  /\ UNCHANGED <<freeList, futex, pages, pc, owned, seen, allocs, wpc, wseen, frees, stale>>

LinkRetired ==
  /\ \/ wpc = "idle" /\ retired # <<>> /\ frees' = frees + 1
     \/ wpc = "link" /\ UNCHANGED frees
  /\ next' = [next EXCEPT ![Last(retired)] = freeList]
  /\ wseen' = freeList
  /\ wpc' = "push"
  /\ UNCHANGED <<freeList, futex, pages, threadVars, retired, stale>>

PushRetired ==
  /\ wpc = "push"
  /\ \/ /\ freeList = wseen
        /\ freeList' = Head(retired)
        /\ retired' = <<>>
        /\ wseen' = NoBlock
        /\ wpc' = "idle"
     \/ /\ freeList # wseen
        /\ wpc' = "link"
        /\ UNCHANGED <<freeList, retired, wseen>>
  /\ UNCHANGED <<next, futex, pages, threadVars, frees, stale>>

---------------------------------------------------------------------------
Allocating(t) ==
  \/ LoadHead(t) \/ ReadNext(t) \/ Pop(t) \/ AcquireFutex(t) \/ AddPageToPool(t)
  \/ LinkPage(t) \/ PushPage(t) \/ ReleaseFutex(t) \/ UseBlock(t)

Next ==
  \/ \E t \in Threads : Allocate(t) \/ Allocating(t) \/ RetireBlock(t)
  \/ LinkRetired
  \/ PushRetired

Spec == Init /\ [][Next]_vars

\* A thread that has asked for a block goes on asking; the worker finishes what
\* it gives back.
FairSpec == /\ Spec
            /\ \A t \in Threads : WF_vars(Allocating(t))
            /\ WF_vars(PushRetired \/ (wpc = "link" /\ LinkRetired))

---------------------------------------------------------------------------
\* Every variable keeps its type.
TypeOK ==
  /\ freeList \in Blocks \union {NoBlock} /\ futex \in {0, 1} /\ pages \in 0 .. MaxPages
  /\ next \in [Blocks -> Blocks \union {NoBlock}]
  /\ pc \in [Threads -> {"idle", "load", "next", "pop", "futex", "map", "link", "push",
                         "unlock", "use"}]
  /\ owned \in [Threads -> Blocks \union {NoBlock}]
  /\ seen \in [Threads -> Blocks \union {NoBlock}]
  /\ chain \in [Threads -> Seq(Blocks)]
  /\ allocs \in [Threads -> 0 .. MaxAllocs]
  /\ wpc \in {"idle", "link", "push"} /\ retired \in Seq(Blocks)
  /\ wseen \in Blocks \union {NoBlock} /\ frees \in 0 .. MaxFrees /\ stale \in BOOLEAN

\* The blocks on the pool's list.
FreeBlocks == Reach(next, freeList)

\* Blocks a thread has taken and not yet used, or mapped and not yet pushed.
InFlight(t) ==
  CASE pc[t] \in {"unlock", "use"} -> {owned[t]}
    [] pc[t] \in {"link", "push"}  -> owned[t] .. PageTail(PageOf(owned[t]))
    [] OTHER -> {}

\* "then we've taken a block we can use": a block that a thread has taken is in
\* no other thread's chain, on no list the worker gives back, and not free.
Exclusive ==
  LET free == FreeBlocks IN
  /\ \A t \in Threads :
       LET mine == ToSet(chain[t]) \union InFlight(t) IN
       /\ IsInjective(chain[t])
       /\ ToSet(chain[t]) \intersect InFlight(t) = {}
       /\ mine \intersect free = {}
       /\ mine \intersect ToSet(retired) = {}
       /\ \A u \in Threads \ {t} :
            mine \intersect (ToSet(chain[u]) \union InFlight(u)) = {}
  /\ ToSet(retired) \intersect free = {}

\* And the only way to that is a pop that takes a block with a stale successor.
ExclusiveUnlessStale == stale \/ Exclusive

\* Without such a pop the free list ends and no mapped block is lost, whatever
\* pushes and pops race.
NoneLost == stale \/
  LET free == FreeBlocks IN
  /\ free = {} \/ \E b \in free : next[b] = NoBlock
  /\ 1 .. pages * PageBlocks =
       free \union ToSet(retired) \union UNION {ToSet(chain[t]) \union InFlight(t) : t \in Threads}

\* One thread at a time maps memory, and only it can release the futex.
OneMapper ==
  \A t, u \in Threads :
    pc[t] \in {"map", "link", "push", "unlock"} /\ pc[u] \in {"map", "link", "push", "unlock"}
      => t = u /\ futex = 1

\* Together: the pool keeps every block it has mapped, in just one place each, until a pop
\* takes a block with a stale successor.
PoolInv == TypeOK /\ OneMapper /\ NoneLost /\ ExclusiveUnlessStale

\* Until then the list is what Pool describes, a set of free blocks: however pops and pushes
\* interleave, each takes effect at once, at its compare-exchange; a thread that asks is
\* given one block, which was free or is new; and a chain gives up its oldest block only.
Asking == {t \in Threads : pc[t] # "idle"}
Hands  == [t \in Threads |-> InFlight(t)]
Given  == ToSet(retired)

AsPool == INSTANCE Pool WITH Threads <- Threads, chain <- chain, free <- FreeBlocks,
            asking <- Asking, hand <- Hands, given <- Given, broken <- stale

ImplementsPool == AsPool!Spec

\* Every request for a block is answered, whoever is mapping memory or popping.
AllocationReturns == \A t \in Threads : pc[t] = "load" ~> pc[t] = "idle"
=============================================================================
