-------------------------- MODULE TlsBufferProofs --------------------------
(* What TlsBuffer promises for every number of threads, blocks and bytes.  *)
EXTENDS TlsBuffer, TLAPS

\* In some thread's chain, or about to be.
Held(b) == b \notin pool /\ b \notin retired

\* t is on its way to claim space for an event in the block it now has.
Entering(t) == \/ pc[t] = "claim"
               \/ pc[t] \in {"publish", "retire"} /\ resume[t] = "claim"

\* t is on its way to write a segment in the block it now has.
Extending(t) == \/ pc[t] = "segment"
                \/ pc[t] = "retire" /\ resume[t] = "segment"

\* t has ended and EtxOffset of b dates from then: later events may be in b.
GivenUp(t, b) ==
  life[t] # "live" /\ (b = cur[t] \/ (b = prev[t] /\ pc[t] = "retire"))

\* t has nothing uncommitted in the block it now has.
Settled(t) == \/ pc[t] \in {"idle", "claim", "publish", "commit"}
              \/ pc[t] \in {"next", "retire"} /\ resume[t] = "claim"

\* The four positions of a block, in use or stale.
BlockInv ==
  \A b \in Blocks :
    /\ reaped[b] <= committed[b]
    /\ committed[b] <= cursor[b]
    /\ cursor[b] <= Size + Overflow
    /\ Held(b) => etx[b] = InUse \/ etx[b] = cursor[b] \/ GivenUp(owner[b], b)

\* The room a thread has found before it writes.
RoomInv ==
  \A t \in Threads :
    /\ pc[t] \in {"claim", "publish", "retire", "scope", "segment", "commit"} => cur[t] \in Blocks
    /\ pc[t] = "next" /\ resume[t] = "claim" => need[t] \in EventSizes
    /\ pc[t] = "next" /\ resume[t] = "segment" => cur[t] \in Blocks
    /\ Entering(t) => need[t] > 0 /\ cursor[cur[t]] + need[t] <= Size
    /\ Extending(t) => cursor[cur[t]] < Size
    /\ Extending(t) \/ (pc[t] = "next" /\ resume[t] = "segment") => auxLeft[t] > 0
    /\ pc[t] = "segment" => resume[t] = "segment"
    /\ pc[t] = "scope" => cursor[cur[t]] < Size + Overflow

\* A thread's write buffer is its own and last in its chain, and not retired unless
\* the thread has ended.
CurInv ==
  \A t \in Threads :
    cur[t] # NoBlock /\ ~Forgotten(t) =>
      /\ Held(cur[t]) /\ owner[cur[t]] = t /\ next[cur[t]] = NoBlock
      /\ IF life[t] = "ended" THEN etx[cur[t]] <= committed[cur[t]] ELSE etx[cur[t]] = InUse
      /\ Settled(t) => committed[cur[t]] = cursor[cur[t]]

\* The block a thread has left but not yet retired.
PrevInv ==
  \A t \in Threads :
    pc[t] = "retire" =>
      /\ prev[t] \in Blocks /\ prev[t] # cur[t]
      /\ Held(prev[t]) /\ owner[prev[t]] = t
      /\ etx[prev[t]] = InUse \/ life[t] = "revived"

\* The block an open event starts in holds bytes that are not committed.
ScopeInv ==
  \A t \in Threads :
    /\ Open(t) => /\ scope[t] \in Blocks /\ Held(scope[t]) /\ owner[scope[t]] = t
                  /\ committed[scope[t]] < cursor[scope[t]]
    /\ Extending(t) /\ bCommit[t] => cur[t] # scope[t]
    /\ Open(t) /\ ~mayHaveAux[t] => pc[t] = "scope" /\ cur[t] = scope[t]

\* Chains: a block's successor continues its owner's stream and is unread.
LinkInv ==
  /\ \A b \in Blocks : Held(b) /\ next[b] # NoBlock =>
       /\ next[b] # b /\ Held(next[b]) /\ owner[next[b]] = owner[b]
       /\ base[next[b]] = base[b] + cursor[b]
       /\ reaped[next[b]] = 0
  /\ \A b, c \in Blocks :
       Held(b) /\ Held(c) /\ next[b] = next[c] /\ next[b] # NoBlock => b = c
  /\ \A b \in Blocks : Held(b) /\ next[b] = NoBlock => cur[owner[b]] = b

\* What the worker knows of a thread: nothing yet, or the first of its blocks.
HeadInv ==
  \A t \in Threads :
    /\ list[t] # "none" =>
         /\ cur[t] \in Blocks /\ head[t] \in Blocks /\ Held(head[t]) /\ owner[head[t]] = t
         /\ base[head[t]] + reaped[head[t]] = sent[t]
         /\ \A b \in Blocks : Held(b) => next[b] # head[t]
    /\ list[t] = "none" /\ ~Forgotten(t) =>
         sent[t] = 0 /\ (pc[t] # "publish" => cur[t] = NoBlock)
    /\ pc[t] = "publish" =>
         /\ resume[t] = "claim" /\ list[t] = "none"
         /\ base[cur[t]] = 0 /\ reaped[cur[t]] = 0
         /\ \A b \in Blocks : Held(b) => next[b] # cur[t]

WorkerInv ==
  /\ pool \intersect retired = {}
  /\ wpc \in {"read", "check"} => list[wt] = "todo"
  /\ wpc = "check" => seen = reaped[head[wt]]

ChainInv == /\ TypeOK /\ BlockInv /\ RoomInv /\ CurInv /\ PrevInv
            /\ ScopeInv /\ LinkInv /\ HeadInv /\ WorkerInv

\* Cursor, Committed, Reaped, EtxOffset and the links of every chain fit together between
\* any two stores of a thread (Writer_NextBufferInternal, Field_WriteAuxData, operator +=)
\* and of the worker (Writer_DrainBuffers), threads that log after Writer_EndThreadBuffer
\* included, until such a thread and the worker have both used a block.
ChainInvUnlessStrayed == strayed \/ ChainInv

USE BlockAssumption, WorkerAssumption, SizeAssumption, BoundAssumption
    DEF InUse, At, Lesser, PayloadRoom, Fits, GivenUp, Settled

\* Before anything is logged the invariant holds.
LEMMA InitStep == Init => ChainInv
<1> SUFFICES ASSUME Init PROVE ChainInv
  OBVIOUS
<1>0. TypeOK
  <2>1. life \in [Threads -> {"live", "ended", "revived"}] /\ strayed \in BOOLEAN
    BY DEF Init
  <2>2. etx \in [Blocks -> Nat] /\ mayHaveAux \in [Threads -> BOOLEAN] /\ bCommit \in [Threads -> BOOLEAN]
    BY DEF Init
  <2> QED
    BY <2>1, <2>2 DEF Init, TypeOK, ThreadStates
<1>1. BlockInv /\ RoomInv
  BY DEF Init, BlockInv, RoomInv, Held, Entering, Extending
<1>2. CurInv /\ PrevInv /\ ScopeInv /\ LinkInv
  BY DEF Init, CurInv, PrevInv, ScopeInv, LinkInv, Held, Open, Extending
<1>3. HeadInv /\ WorkerInv
  BY DEF Init, HeadInv, WorkerInv, Held
<1> QED
  BY <1>0, <1>1, <1>2, <1>3 DEF ChainInv

\* Testing for room: what is found is RoomInv, for the block tested.
LEMMA EnterPreludeStep ==
  ASSUME ChainInv, NEW t \in Threads, NEW s \in EventSizes, NEW aux \in BOOLEAN, EnterPrelude(t, s, aux),
         ~strayed'
  PROVE  ChainInv'
<1> USE DEF EnterPrelude, blockVars, threadVars, workerVars, listVars
<1>0. ~Forgotten(t) /\ \A u \in Threads : Forgotten(u)' <=> Forgotten(u)
  <2>1. ~Forgotten(t)
    BY Zenon
  <2> QED
    BY <2>1 DEF ChainInv, TypeOK, Forgotten
<1>1. TypeOK'
  BY DEF ChainInv, TypeOK, ThreadStates
<1>2. BlockInv'
  BY <1>0 DEF ChainInv, TypeOK, BlockInv, Held
<1>3. RoomInv'
  BY DEF ChainInv, TypeOK, RoomInv, Entering, Extending
<1>4. CurInv'
  BY <1>0 DEF ChainInv, TypeOK, CurInv, Held
<1>5. PrevInv'
  BY DEF ChainInv, TypeOK, PrevInv, Held
<1>6. ScopeInv'
  BY DEF ChainInv, TypeOK, ScopeInv, Held, Open, Extending
<1>7. LinkInv'
  BY DEF ChainInv, TypeOK, LinkInv, Held
<1>8. HeadInv'
  BY <1>0 DEF ChainInv, TypeOK, HeadInv, Held
<1>9. WorkerInv'
  BY DEF ChainInv, WorkerInv
<1> QED
  BY <1>1, <1>2, <1>3, <1>4, <1>5, <1>6, <1>7, <1>8, <1>9 DEF ChainInv

\* Advancing Cursor, after RoomInv has it that the event fits.
LEMMA ClaimSpaceStep ==
  ASSUME ChainInv, NEW t \in Threads, ClaimSpace(t)
  PROVE  ChainInv'
<1> USE DEF ClaimSpace, blockVars, threadVars, workerVars, listVars
<1>0. \A u \in Threads : /\ Forgotten(u)' <=> Forgotten(u)
                         /\ pc[u] # "idle" => ~Forgotten(u)
  BY DEF ChainInv, TypeOK, HeadInv, WorkerInv, Forgotten
<1>1. TypeOK'
  BY DEF ChainInv, TypeOK, ThreadStates, Written, RoomInv
<1>2. BlockInv'
  BY <1>0 DEF ChainInv, TypeOK, BlockInv, CurInv, RoomInv, HeadInv, Held, Entering, Extending
<1>3. RoomInv'
  BY <1>0 DEF ChainInv, TypeOK, RoomInv, Entering, Extending, CurInv
<1>4. CurInv'
  BY <1>0 DEF ChainInv, TypeOK, CurInv, Held
<1>5. PrevInv'
  BY <1>0 DEF ChainInv, TypeOK, PrevInv, Held
<1>6. ScopeInv'
  BY <1>0 DEF ChainInv, TypeOK, ScopeInv, CurInv, BlockInv, RoomInv, PrevInv, Held, Open, Entering, Extending
<1>7. LinkInv'
  BY <1>0 DEF ChainInv, TypeOK, LinkInv, CurInv, Held
<1>8. HeadInv'
  BY <1>0 DEF ChainInv, TypeOK, HeadInv, Held
<1>9. WorkerInv'
  BY DEF ChainInv, WorkerInv
<1> QED
  BY <1>1, <1>2, <1>3, <1>4, <1>5, <1>6, <1>7, <1>8, <1>9 DEF ChainInv

\* A fresh block is linked behind the current one, and nothing else leads to it.
LEMMA NextBufferStep ==
  ASSUME ChainInv, NEW t \in Threads, NEW b \in Blocks, NEW r \in Redirects, NextBuffer(t, b, r)
  PROVE  ChainInv'
<1> USE DEF NextBuffer, blockVars, threadVars, workerVars, listVars
<1>0. \A u \in Threads : /\ Forgotten(u)' <=> Forgotten(u)
                         /\ pc[u] # "idle" => ~Forgotten(u)
  BY DEF ChainInv, TypeOK, HeadInv, WorkerInv, Forgotten
<1> DEFINE used == IF cur[t] = NoBlock THEN r + Timing ELSE r
<1>1. /\ b # NoBlock /\ b \in pool /\ b \notin retired /\ pc[t] = "next" /\ r \in Nat
      /\ ~Forgotten(t)
  BY <1>0 DEF ChainInv, WorkerInv
<1>2. cur[t] = NoBlock => resume[t] = "claim"
  BY <1>1 DEF ChainInv, TypeOK, RoomInv
<1>3. resume[t] = "claim" => need[t] \in EventSizes
  BY <1>1 DEF ChainInv, RoomInv
<1>4. used \in Nat /\ used < Size /\ (resume[t] = "claim" => used + need[t] <= Size)
  <2>1. PICK s \in EventSizes : resume[t] = "claim" => s = need[t]
    BY <1>3
  <2>2. r + Timing + s < Size /\ s \in Nat
    OBVIOUS
  <2> QED
    BY <1>1, <2>1, <2>2
<1>5. cur[t] # NoBlock => /\ cur[t] \in Blocks /\ Held(cur[t])
                         /\ owner[cur[t]] = t /\ next[cur[t]] = NoBlock
  BY <1>1 DEF ChainInv, TypeOK, CurInv
<1>6. ~Held(b) /\ \A x \in Blocks : Held(x)' <=> (Held(x) \/ x = b)
  BY <1>1 DEF Held, ChainInv, TypeOK
<1>7. TypeOK'
  BY <1>1, <1>4, <1>5 DEF ChainInv, TypeOK, ThreadStates, Written
<1>8. BlockInv'
  BY <1>0, <1>1, <1>4, <1>5, <1>6 DEF ChainInv, TypeOK, BlockInv
<1>9. RoomInv'
  BY <1>0, <1>1, <1>2, <1>3, <1>4, <1>6 DEF ChainInv, TypeOK, RoomInv, CurInv, Entering, Extending
<1>10. CurInv'
  BY <1>0, <1>1, <1>5, <1>6 DEF ChainInv, TypeOK, CurInv
<1>11. PrevInv'
  BY <1>0, <1>1, <1>5, <1>6 DEF ChainInv, TypeOK, PrevInv, CurInv
<1>12. ScopeInv'
  BY <1>0, <1>1, <1>2, <1>6 DEF ChainInv, TypeOK, ScopeInv, CurInv, Open, Extending
<1>13. LinkInv'
  <2>1. \A c \in Blocks : Held(c) => next[c] # b
    BY <1>1, <1>6 DEF ChainInv, LinkInv
  <2>2. \A c \in Blocks : c # b => (Held(c)' <=> Held(c)) /\ owner'[c] = owner[c]
                                   /\ base'[c] = base[c] /\ cursor'[c] = cursor[c] /\ reaped'[c] = reaped[c]
    BY <1>6 DEF ChainInv, TypeOK
  <2>3. /\ next'[b] = NoBlock /\ owner'[b] = t /\ reaped'[b] = 0 /\ cur' = [cur EXCEPT ![t] = b]
        /\ base'[b] = IF cur[t] = NoBlock THEN 0 ELSE base[cur[t]] + cursor[cur[t]]
        /\ \A c \in Blocks \ {b} : next'[c] = IF c = cur[t] THEN b ELSE next[c]
    BY <1>1 DEF ChainInv, TypeOK, Written
  <2>4. \A c \in Blocks : Held(c)' /\ next'[c] # NoBlock =>
       /\ next'[c] # c /\ Held(next[c])' /\ owner'[next'[c]] = owner'[c]
       /\ base'[next'[c]] = base'[c] + cursor'[c]
       /\ reaped'[next'[c]] = 0
    BY <1>1, <1>5, <1>6, <2>1, <2>2, <2>3 DEF ChainInv, LinkInv, TypeOK
  <2>5. \A c, d \in Blocks :
       Held(c)' /\ Held(d)' /\ next'[c] = next'[d] /\ next'[c] # NoBlock => c = d
    BY <1>1, <1>5, <1>6, <2>1, <2>2, <2>3 DEF ChainInv, LinkInv, TypeOK
  <2>6. \A c \in Blocks : Held(c)' /\ next'[c] = NoBlock => cur'[owner'[c]] = c
    BY <1>1, <1>5, <1>6, <2>1, <2>2, <2>3 DEF ChainInv, LinkInv, TypeOK
  <2> QED
    BY <2>4, <2>5, <2>6 DEF LinkInv
<1>14. HeadInv'
  <2>1. \A c \in Blocks : Held(c) => next[c] # b
    BY <1>1, <1>6 DEF ChainInv, LinkInv
  <2>2. \A u \in Threads : list[u] # "none" => head[u] # b /\ head[u] \in Blocks /\ list'[u] = list[u]
    BY <1>6 DEF ChainInv, HeadInv
  <2>3. cur[t] = NoBlock => list[t] = "none" /\ sent[t] = 0
    BY <1>1 DEF ChainInv, HeadInv
  <2>4. \A c \in Blocks : Held(c)' => next'[c] = next[c] \/ next'[c] = NoBlock \/ (next'[c] = b /\ cur[t] = c)
    BY DEF ChainInv, TypeOK
  <2> SUFFICES ASSUME NEW u \in Threads PROVE HeadInv!(u)'
    BY DEF HeadInv
  <2>5. CASE u = t
    BY <1>0, <1>1, <1>2, <1>4, <1>5, <1>6, <2>1, <2>2, <2>3, <2>4, <2>5 DEF ChainInv, TypeOK, HeadInv, Written
  <2>6. CASE u # t
    <3>1. pc[u] = "publish" => cur[u] # b /\ cur[u] \in Blocks
      BY <1>0, <1>6 DEF ChainInv, TypeOK, RoomInv, CurInv
    <3> QED
      BY <1>0, <1>1, <1>5, <1>6, <2>1, <2>2, <2>4, <2>6, <3>1 DEF ChainInv, TypeOK, HeadInv
  <2> QED
    BY <2>5, <2>6
<1>15. WorkerInv'
  BY <1>1, <1>6 DEF ChainInv, TypeOK, WorkerInv, HeadInv
<1> QED
  BY <1>7, <1>8, <1>9, <1>10, <1>11, <1>12, <1>13, <1>14, <1>15 DEF ChainInv

\* A new thread becomes known to the worker with the first block of its chain.
LEMMA PublishThreadStep ==
  ASSUME ChainInv, NEW t \in Threads, PublishThread(t)
  PROVE  ChainInv'
<1> USE DEF PublishThread, blockVars, threadVars, workerVars, listVars
<1>0. \A u \in Threads : /\ Forgotten(u)' <=> Forgotten(u)
                         /\ pc[u] # "idle" => ~Forgotten(u)
  BY DEF ChainInv, TypeOK, HeadInv, WorkerInv, Forgotten
<1>1. TypeOK'
  BY DEF ChainInv, TypeOK, ThreadStates
<1>2. BlockInv'
  BY <1>0 DEF ChainInv, TypeOK, BlockInv, Held
<1>3. RoomInv'
  BY <1>0 DEF ChainInv, TypeOK, RoomInv, Entering, Extending, HeadInv
<1>4. CurInv'
  BY <1>0 DEF ChainInv, TypeOK, CurInv, Held
<1>5. PrevInv'
  BY <1>0 DEF ChainInv, TypeOK, PrevInv, Held
<1>6. ScopeInv'
  BY <1>0 DEF ChainInv, TypeOK, ScopeInv, Held, Open, Extending, HeadInv
<1>7. LinkInv'
  BY <1>0 DEF ChainInv, TypeOK, LinkInv, Held
<1>8. HeadInv'
  BY <1>0 DEF ChainInv, TypeOK, HeadInv, CurInv, LinkInv, Held, RoomInv
<1>9. WorkerInv'
  BY DEF ChainInv, TypeOK, WorkerInv, HeadInv
<1> QED
  BY <1>1, <1>2, <1>3, <1>4, <1>5, <1>6, <1>7, <1>8, <1>9 DEF ChainInv

\* EtxOffset is stored in the block left, which is not the one the event is in.
LEMMA RetireCurrentStep ==
  ASSUME ChainInv, NEW t \in Threads, RetireCurrent(t)
  PROVE  ChainInv'
<1> USE DEF RetireCurrent, blockVars, threadVars, workerVars, listVars
<1>0. \A u \in Threads : /\ Forgotten(u)' <=> Forgotten(u)
                         /\ pc[u] # "idle" => ~Forgotten(u)
  BY DEF ChainInv, TypeOK, HeadInv, WorkerInv, Forgotten
<1>1. TypeOK'
  BY DEF ChainInv, TypeOK, ThreadStates
<1>2. BlockInv'
  BY <1>0 DEF ChainInv, TypeOK, BlockInv, Held
<1>3. RoomInv'
  BY DEF ChainInv, TypeOK, RoomInv, Entering, Extending
<1>4. CurInv'
  BY <1>0 DEF ChainInv, TypeOK, CurInv, Held, PrevInv
<1>5. PrevInv'
  BY DEF ChainInv, TypeOK, PrevInv, Held
<1>6. ScopeInv'
  BY DEF ChainInv, TypeOK, ScopeInv, Held, Open, Extending
<1>7. LinkInv'
  BY DEF ChainInv, TypeOK, LinkInv, Held
<1>8. HeadInv'
  BY <1>0 DEF ChainInv, TypeOK, HeadInv, Held
<1>9. WorkerInv'
  BY DEF ChainInv, WorkerInv
<1> QED
  BY <1>1, <1>2, <1>3, <1>4, <1>5, <1>6, <1>7, <1>8, <1>9 DEF ChainInv

\* An array field starts: bCommit can hold only outside the block the event opened in.
LEMMA BeginAuxStep ==
  ASSUME ChainInv, NEW t \in Threads, NEW n \in AuxSizes, BeginAux(t, n)
  PROVE  ChainInv'
<1> USE DEF BeginAux, blockVars, threadVars, workerVars, listVars
<1>0. \A u \in Threads : /\ Forgotten(u)' <=> Forgotten(u)
                         /\ pc[u] # "idle" => ~Forgotten(u)
  BY DEF ChainInv, TypeOK, HeadInv, WorkerInv, Forgotten
<1>1. TypeOK'
  BY DEF ChainInv, TypeOK, ThreadStates
<1>2. BlockInv'
  BY <1>0 DEF ChainInv, TypeOK, BlockInv, Held
<1>3. RoomInv'
  BY DEF ChainInv, TypeOK, RoomInv, Entering, Extending
<1>4. CurInv'
  BY <1>0 DEF ChainInv, TypeOK, CurInv, Held
<1>5. PrevInv'
  BY DEF ChainInv, TypeOK, PrevInv, Held
<1>6. ScopeInv'
  <2>1. /\ cur[t] \in Blocks /\ pc[t] = "scope" /\ scope[t] \in Blocks
        /\ committed[scope[t]] < cursor[scope[t]]
    BY DEF ChainInv, RoomInv, ScopeInv, Open
  <2>2. Extending(t)' => (bCommit'[t] <=> cursor[cur[t]] = committed[cur[t]])
    BY <2>1 DEF ChainInv, TypeOK, Extending
  <2>3. Extending(t)' /\ bCommit'[t] => cur'[t] # scope'[t]
    <3> SUFFICES ASSUME Extending(t)', bCommit'[t], cur[t] = scope[t] PROVE FALSE
      OBVIOUS
    <3> QED
      BY <2>1, <2>2 DEF ChainInv, TypeOK
  <2>4. \A u \in Threads \ {t} : /\ Extending(u)' => Extending(u)
                                 /\ bCommit'[u] = bCommit[u]
    BY DEF ChainInv, TypeOK, Extending
  <2>5. \A u \in Threads : Open(u)' => Open(u)
    BY <2>1 DEF ChainInv, TypeOK, Open
  <2> QED
    BY <2>3, <2>4, <2>5 DEF ChainInv, TypeOK, ScopeInv, Held
<1>7. LinkInv'
  BY DEF ChainInv, TypeOK, LinkInv, Held
<1>8. HeadInv'
  BY <1>0 DEF ChainInv, TypeOK, HeadInv, Held
<1>9. WorkerInv'
  BY DEF ChainInv, WorkerInv
<1> QED
  BY <1>1, <1>2, <1>3, <1>4, <1>5, <1>6, <1>7, <1>8, <1>9 DEF ChainInv

\* A segment of an array field, with or without its commit.
LEMMA AuxSegmentStep ==
  ASSUME ChainInv, NEW t \in Threads, AuxSegment(t)
  PROVE  ChainInv'
<1> USE DEF AuxSegment, blockVars, threadVars, workerVars, listVars
<1>0. \A u \in Threads : /\ Forgotten(u)' <=> Forgotten(u)
                         /\ pc[u] # "idle" => ~Forgotten(u)
  BY DEF ChainInv, TypeOK, HeadInv, WorkerInv, Forgotten
<1>1. TypeOK'
  BY DEF ChainInv, TypeOK, ThreadStates, RoomInv
<1>2. BlockInv'
  BY <1>0 DEF ChainInv, TypeOK, BlockInv, CurInv, RoomInv, HeadInv, Held, Entering, Extending
<1>3. RoomInv'
  BY <1>0 DEF ChainInv, TypeOK, RoomInv, Entering, Extending, CurInv
<1>4. CurInv'
  <2>1. /\ cur[t] \in Blocks /\ pc[t] = "segment" /\ resume[t] = "segment"
        /\ committed[cur[t]] <= cursor[cur[t]] /\ cursor[cur[t]] < Size /\ auxLeft[t] > 0
    BY DEF ChainInv, TypeOK, RoomInv, BlockInv, Extending
  <2>2. ~Settled(t)' /\ committed'[cur[t]] >= committed[cur[t]]
    BY <2>1 DEF ChainInv, TypeOK
  <2>3. \A u \in Threads \ {t} : ~Forgotten(u) => cur[u] # cur[t]
    BY <1>0, <2>1 DEF ChainInv, TypeOK, CurInv
  <2>4. \A x \in Blocks \ {cur[t]} : committed'[x] = committed[x] /\ cursor'[x] = cursor[x]
    BY DEF ChainInv, TypeOK
  <2> SUFFICES ASSUME NEW u \in Threads, cur[u] # NoBlock, ~Forgotten(u) PROVE CurInv!(u)'
    BY <1>0 DEF CurInv
  <2>5. CASE u = t
    BY <2>1, <2>2, <2>5 DEF ChainInv, TypeOK, CurInv, Held
  <2>6. CASE u # t
    <3>1. cur[u] \in Blocks \ {cur[t]} /\ (Settled(u)' <=> Settled(u))
      BY <2>3, <2>6 DEF ChainInv, TypeOK
    <3> QED
      BY <2>4, <2>6, <3>1 DEF ChainInv, CurInv, Held
  <2> QED
    BY <2>5, <2>6
<1>5. PrevInv'
  BY <1>0 DEF ChainInv, TypeOK, PrevInv, Held
<1>6. ScopeInv'
  BY <1>0 DEF ChainInv, TypeOK, ScopeInv, CurInv, BlockInv, RoomInv, PrevInv, Held, Open, Entering, Extending
<1>7. LinkInv'
  BY <1>0 DEF ChainInv, TypeOK, LinkInv, CurInv, Held
<1>8. HeadInv'
  BY <1>0 DEF ChainInv, TypeOK, HeadInv, Held
<1>9. WorkerInv'
  BY DEF ChainInv, WorkerInv
<1> QED
  BY <1>1, <1>2, <1>3, <1>4, <1>5, <1>6, <1>7, <1>8, <1>9 DEF ChainInv

\* An event without array fields is committed.
LEMMA CommitPlainStep ==
  ASSUME ChainInv, NEW t \in Threads, CommitPlain(t)
  PROVE  ChainInv'
<1> USE DEF CommitPlain, blockVars, threadVars, workerVars, listVars
<1>0. \A u \in Threads : /\ Forgotten(u)' <=> Forgotten(u)
                         /\ pc[u] # "idle" => ~Forgotten(u)
  BY DEF ChainInv, TypeOK, HeadInv, WorkerInv, Forgotten
<1>1. TypeOK'
  BY DEF ChainInv, TypeOK, ThreadStates
<1>2. BlockInv'
  BY <1>0 DEF ChainInv, TypeOK, BlockInv, Held
<1>3. RoomInv'
  BY <1>0 DEF ChainInv, TypeOK, RoomInv, Entering, Extending
<1>4. CurInv'
  BY <1>0 DEF ChainInv, TypeOK, CurInv, RoomInv, BlockInv, ScopeInv, Open, Held
<1>5. PrevInv'
  BY <1>0 DEF ChainInv, TypeOK, PrevInv, Held
<1>6. ScopeInv'
  BY <1>0 DEF ChainInv, TypeOK, ScopeInv, Held, Open, Extending
<1>7. LinkInv'
  BY <1>0 DEF ChainInv, TypeOK, LinkInv, Held
<1>8. HeadInv'
  BY <1>0 DEF ChainInv, TypeOK, HeadInv, Held
<1>9. WorkerInv'
  BY DEF ChainInv, WorkerInv
<1> QED
  BY <1>1, <1>2, <1>3, <1>4, <1>5, <1>6, <1>7, <1>8, <1>9 DEF ChainInv

\* The terminal byte, and the commit of the block it is in.
LEMMA CommitLatestStep ==
  ASSUME ChainInv, NEW t \in Threads, CommitLatest(t)
  PROVE  ChainInv'
<1> USE DEF CommitLatest, blockVars, threadVars, workerVars, listVars
<1>0. \A u \in Threads : /\ Forgotten(u)' <=> Forgotten(u)
                         /\ pc[u] # "idle" => ~Forgotten(u)
  BY DEF ChainInv, TypeOK, HeadInv, WorkerInv, Forgotten
<1>1. TypeOK'
  BY DEF ChainInv, TypeOK, ThreadStates, RoomInv
<1>2. BlockInv'
  BY <1>0 DEF ChainInv, TypeOK, BlockInv, CurInv, RoomInv, HeadInv, Held, Entering, Extending
<1>3. RoomInv'
  BY <1>0 DEF ChainInv, TypeOK, RoomInv, Entering, Extending, CurInv
<1>4. CurInv'
  BY <1>0 DEF ChainInv, TypeOK, CurInv, RoomInv, BlockInv, ScopeInv, Open, Held
<1>5. PrevInv'
  BY <1>0 DEF ChainInv, TypeOK, PrevInv, Held
<1>6. ScopeInv'
  BY <1>0 DEF ChainInv, TypeOK, ScopeInv, Held, Open, Extending, CurInv
<1>7. LinkInv'
  <2>1. /\ next' = next /\ pool' = pool /\ owner' = owner /\ base' = base /\ cur' = cur
        /\ reaped' = reaped
        /\ \A b \in Blocks : b # cur[t] => cursor'[b] = cursor[b]
    BY DEF ChainInv, TypeOK
  <2>2. ASSUME NEW b \in Blocks, Held(b), next[b] # NoBlock PROVE b # cur[t]
    BY <1>0, <2>2 DEF ChainInv, CurInv, At
  <2> QED
    BY <2>1, <2>2 DEF ChainInv, LinkInv, Held
<1>8. HeadInv'
  BY <1>0 DEF ChainInv, TypeOK, HeadInv, Held
<1>9. WorkerInv'
  BY DEF ChainInv, WorkerInv
<1> QED
  BY <1>1, <1>2, <1>3, <1>4, <1>5, <1>6, <1>7, <1>8, <1>9 DEF ChainInv

\* The block an event opened in is committed last.
LEMMA CommitScopeStep ==
  ASSUME ChainInv, NEW t \in Threads, CommitScope(t)
  PROVE  ChainInv'
<1> USE DEF CommitScope, blockVars, threadVars, workerVars, listVars
<1>0. \A u \in Threads : /\ Forgotten(u)' <=> Forgotten(u)
                         /\ pc[u] # "idle" => ~Forgotten(u)
  BY DEF ChainInv, TypeOK, HeadInv, WorkerInv, Forgotten
<1>1. TypeOK'
  BY DEF ChainInv, TypeOK, ThreadStates
<1>2. BlockInv'
  BY <1>0 DEF ChainInv, TypeOK, BlockInv, Held
<1>3. RoomInv'
  BY <1>0 DEF ChainInv, TypeOK, RoomInv, Entering, Extending
<1>4. CurInv'
  BY <1>0 DEF ChainInv, TypeOK, CurInv, RoomInv, BlockInv, ScopeInv, Open, Held
<1>5. PrevInv'
  BY <1>0 DEF ChainInv, TypeOK, PrevInv, Held
<1>6. ScopeInv'
  BY <1>0 DEF ChainInv, TypeOK, ScopeInv, Held, Open, Extending
<1>7. LinkInv'
  BY <1>0 DEF ChainInv, TypeOK, LinkInv, Held
<1>8. HeadInv'
  BY <1>0 DEF ChainInv, TypeOK, HeadInv, Held
<1>9. WorkerInv'
  BY DEF ChainInv, WorkerInv
<1> QED
  BY <1>1, <1>2, <1>3, <1>4, <1>5, <1>6, <1>7, <1>8, <1>9 DEF ChainInv

\* A thread ends and gives up its current block, with nothing open in it.
LEMMA EndThreadBufferStep ==
  ASSUME ChainInv, NEW t \in Threads, EndThreadBuffer(t)
  PROVE  ChainInv'
<1> USE DEF EndThreadBuffer, blockVars, threadVars, workerVars, listVars
<1>0. \A u \in Threads : /\ Forgotten(u)' <=> Forgotten(u)
                         /\ pc[u] # "idle" => ~Forgotten(u)
  BY DEF ChainInv, TypeOK, HeadInv, WorkerInv, Forgotten
<1>1. TypeOK'
  BY DEF ChainInv, TypeOK, ThreadStates, Written
<1>2. BlockInv'
  BY <1>0 DEF ChainInv, TypeOK, BlockInv, Held
<1>3. RoomInv'
  BY <1>0 DEF ChainInv, TypeOK, RoomInv, Entering, Extending
<1>4. CurInv'
  <2>1. ~Forgotten(t) /\ Settled(t)
    BY DEF Forgotten
  <2> QED
    BY <1>0, <2>1 DEF ChainInv, TypeOK, CurInv, Held
<1>5. PrevInv'
  <2>1. ~Forgotten(t)
    BY DEF Forgotten
  <2> QED
    BY <1>0, <2>1 DEF ChainInv, TypeOK, PrevInv, CurInv, Held
<1>6. ScopeInv'
  BY <1>0 DEF ChainInv, TypeOK, ScopeInv, Held, Open, Extending
<1>7. LinkInv'
  BY <1>0 DEF ChainInv, TypeOK, LinkInv, Held
<1>8. HeadInv'
  BY <1>0 DEF ChainInv, TypeOK, HeadInv, Held
<1>9. WorkerInv'
  BY DEF ChainInv, WorkerInv
<1> QED
  BY <1>1, <1>2, <1>3, <1>4, <1>5, <1>6, <1>7, <1>8, <1>9 DEF ChainInv

\* A drain begins, of every chain or of one.
LEMMA StartDrainStep ==
  ASSUME ChainInv, NEW todo \in SUBSET {x \in Threads : list[x] # "none"}, StartDrain(todo)
  PROVE  ChainInv'
<1> USE DEF StartDrain, blockVars, threadVars, workerVars, listVars
<1>0. \A u \in Threads : /\ Forgotten(u)' <=> Forgotten(u)
                         /\ pc[u] # "idle" => ~Forgotten(u)
  BY DEF ChainInv, TypeOK, HeadInv, WorkerInv, Forgotten
<1>1. TypeOK'
  BY DEF ChainInv, TypeOK
<1>2. BlockInv'
  BY <1>0 DEF ChainInv, TypeOK, BlockInv, Held
<1>3. RoomInv'
  BY DEF ChainInv, TypeOK, RoomInv, Entering, Extending
<1>4. CurInv'
  BY <1>0 DEF ChainInv, TypeOK, CurInv, Held
<1>5. PrevInv'
  BY DEF ChainInv, TypeOK, PrevInv, Held
<1>6. ScopeInv'
  BY DEF ChainInv, TypeOK, ScopeInv, Held, Open, Extending
<1>7. LinkInv'
  BY DEF ChainInv, TypeOK, LinkInv, Held
<1>8. HeadInv'
  BY <1>0 DEF ChainInv, TypeOK, HeadInv, Held
<1>9. WorkerInv'
  BY DEF ChainInv, WorkerInv
<1> QED
  BY <1>1, <1>2, <1>3, <1>4, <1>5, <1>6, <1>7, <1>8, <1>9 DEF ChainInv

\* The worker turns to a thread.
LEMMA PickThreadStep ==
  ASSUME ChainInv, NEW t \in Threads, PickThread(t)
  PROVE  ChainInv'
<1> USE DEF PickThread, blockVars, threadVars, workerVars, listVars
<1>0. \A u \in Threads : /\ Forgotten(u)' <=> Forgotten(u)
                         /\ pc[u] # "idle" => ~Forgotten(u)
  BY DEF ChainInv, TypeOK, HeadInv, WorkerInv, Forgotten
<1>1. TypeOK'
  BY DEF ChainInv, TypeOK
<1>2. BlockInv'
  BY <1>0 DEF ChainInv, TypeOK, BlockInv, Held
<1>3. RoomInv'
  BY DEF ChainInv, TypeOK, RoomInv, Entering, Extending
<1>4. CurInv'
  BY <1>0 DEF ChainInv, TypeOK, CurInv, Held
<1>5. PrevInv'
  BY DEF ChainInv, TypeOK, PrevInv, Held
<1>6. ScopeInv'
  BY DEF ChainInv, TypeOK, ScopeInv, Held, Open, Extending
<1>7. LinkInv'
  BY DEF ChainInv, TypeOK, LinkInv, Held
<1>8. HeadInv'
  BY <1>0 DEF ChainInv, TypeOK, HeadInv, Held
<1>9. WorkerInv'
  BY DEF ChainInv, WorkerInv
<1> QED
  BY <1>1, <1>2, <1>3, <1>4, <1>5, <1>6, <1>7, <1>8, <1>9 DEF ChainInv

\* The worker sends what is committed and not yet sent.
LEMMA DrainCommittedStep ==
  ASSUME ChainInv, DrainCommitted
  PROVE  ChainInv'
<1> USE DEF DrainCommitted, blockVars, threadVars, workerVars, listVars
<1>0. \A u \in Threads : /\ Forgotten(u)' <=> Forgotten(u)
                         /\ pc[u] # "idle" => ~Forgotten(u)
  BY DEF ChainInv, TypeOK, HeadInv, WorkerInv, Forgotten
<1>1. TypeOK'
  BY DEF ChainInv, TypeOK, ThreadStates, Written, WorkerInv, HeadInv
<1>2. BlockInv'
  BY <1>0 DEF ChainInv, TypeOK, BlockInv, Held
<1>3. RoomInv'
  BY <1>0 DEF ChainInv, TypeOK, RoomInv, Entering, Extending
<1>4. CurInv'
  BY <1>0 DEF ChainInv, TypeOK, CurInv, Held
<1>5. PrevInv'
  BY <1>0 DEF ChainInv, TypeOK, PrevInv, Held
<1>6. ScopeInv'
  BY <1>0 DEF ChainInv, TypeOK, ScopeInv, Held, Open, Extending
<1>7. LinkInv'
  <2>1. /\ next' = next /\ pool' = pool /\ owner' = owner /\ base' = base /\ cur' = cur
        /\ cursor' = cursor /\ retired' = retired
        /\ \A b \in Blocks : b # head[wt] => reaped'[b] = reaped[b]
    BY DEF ChainInv, TypeOK
  <2>2. ASSUME NEW b \in Blocks, Held(b) PROVE next[b] # head[wt]
    <3>1. wt \in Threads /\ list[wt] = "todo"
      BY DEF ChainInv, TypeOK, WorkerInv
    <3> QED
      BY <2>2, <3>1 DEF ChainInv, HeadInv
  <2>3. ASSUME NEW b \in Blocks, Held(b), next[b] # NoBlock
        PROVE  /\ next[b] # b /\ Held(next[b]) /\ owner[next[b]] = owner[b]
               /\ base[next[b]] = base[b] + cursor[b] /\ reaped'[next[b]] = 0
    <3>1. next[b] \in Blocks
      BY <2>3 DEF ChainInv, TypeOK
    <3> QED
      BY <2>1, <2>2, <2>3, <3>1 DEF ChainInv, LinkInv
  <2> QED
    BY <2>1, <2>3 DEF ChainInv, LinkInv, Held
<1>8. HeadInv'
  BY <1>0 DEF ChainInv, TypeOK, HeadInv, CurInv, LinkInv, Held, RoomInv, WorkerInv, BlockInv
<1>9. WorkerInv'
  BY DEF ChainInv, TypeOK, WorkerInv, HeadInv
<1> QED
  BY <1>1, <1>2, <1>3, <1>4, <1>5, <1>6, <1>7, <1>8, <1>9 DEF ChainInv

\* The worker leaves a block that may still grow.
LEMMA KeepBufferStep ==
  ASSUME ChainInv, KeepBuffer
  PROVE  ChainInv'
<1> USE DEF KeepBuffer, blockVars, threadVars, workerVars, listVars
<1>0. \A u \in Threads : /\ Forgotten(u)' <=> Forgotten(u)
                         /\ pc[u] # "idle" => ~Forgotten(u)
  BY DEF ChainInv, TypeOK, HeadInv, WorkerInv, Forgotten
<1>1. TypeOK'
  BY DEF ChainInv, TypeOK
<1>2. BlockInv'
  BY <1>0 DEF ChainInv, TypeOK, BlockInv, Held
<1>3. RoomInv'
  BY DEF ChainInv, TypeOK, RoomInv, Entering, Extending
<1>4. CurInv'
  BY <1>0 DEF ChainInv, TypeOK, CurInv, Held
<1>5. PrevInv'
  BY DEF ChainInv, TypeOK, PrevInv, Held
<1>6. ScopeInv'
  BY DEF ChainInv, TypeOK, ScopeInv, Held, Open, Extending
<1>7. LinkInv'
  BY DEF ChainInv, TypeOK, LinkInv, Held
<1>8. HeadInv'
  BY <1>0 DEF ChainInv, TypeOK, HeadInv, Held, WorkerInv
<1>9. WorkerInv'
  BY DEF ChainInv, WorkerInv
<1> QED
  BY <1>1, <1>2, <1>3, <1>4, <1>5, <1>6, <1>7, <1>8, <1>9 DEF ChainInv

\* When the worker drops a block, all of it has been committed and sent.
LEMMA DroppedBlock ==
  ASSUME ChainInv, RetireBuffer, ~strayed'
  PROVE  /\ head[wt] \in Blocks /\ head[wt] # NoBlock /\ Held(head[wt]) /\ owner[head[wt]] = wt
         /\ cursor[head[wt]] = committed[head[wt]] /\ reaped[head[wt]] = cursor[head[wt]]
         /\ cur[wt] = head[wt] => life[wt] = "ended" /\ pc[wt] = "idle"
         /\ prev[wt] = head[wt] => pc[wt] # "retire"
         /\ sent[wt] = base[head[wt]] + cursor[head[wt]]
         /\ wt \in Threads /\ list[wt] = "todo"
         /\ \A c \in Blocks : Held(c) => next[c] # head[wt]
<1> USE DEF RetireBuffer
<1> DEFINE b == head[wt]
<1>1. /\ list[wt] = "todo" /\ wt \in Threads /\ seen = reaped[b] /\ ~(etx[b] > seen)
  BY DEF ChainInv, TypeOK, WorkerInv
<1>2. /\ b \in Blocks /\ Held(b) /\ owner[b] = wt /\ sent[wt] = base[b] + reaped[b]
      /\ \A c \in Blocks : Held(c) => next[c] # b
  BY <1>1 DEF ChainInv, HeadInv
<1>3. /\ reaped[b] <= committed[b] /\ committed[b] <= cursor[b] /\ cursor[b] <= Size + Overflow
      /\ etx[b] = InUse \/ etx[b] = cursor[b] \/ GivenUp(wt, b)
      /\ {reaped[b], committed[b], cursor[b], etx[b], seen} \subseteq Nat
  BY <1>2 DEF ChainInv, TypeOK, BlockInv
<1>4. etx[b] # InUse
  BY <1>1, <1>3
<1>5. life[wt] # "live" => /\ cur[wt] = b => pc[wt] = "idle" /\ committed[b] = seen
                           /\ prev[wt] = b => pc[wt] # "retire"
  BY Zenon
<1>6. ~Forgotten(wt)
  BY <1>1 DEF Forgotten
<1>7. cur[wt] = b => life[wt] = "ended" /\ pc[wt] = "idle" /\ committed[b] = cursor[b]
  BY <1>2, <1>4, <1>5, <1>6 DEF ChainInv, TypeOK, CurInv
<1>8. prev[wt] = b => pc[wt] # "retire"
  BY <1>1, <1>4, <1>5 DEF ChainInv, PrevInv
<1>9. cursor[b] = committed[b] /\ reaped[b] = cursor[b]
  BY <1>1, <1>3, <1>4, <1>5, <1>7, <1>8
<1> QED
  BY <1>1, <1>2, <1>7, <1>8, <1>9

\* A block is unlinked: it is full, committed and sent to its end, so nobody is in it.
LEMMA RetireBufferStep ==
  ASSUME ChainInv, RetireBuffer, ~strayed'
  PROVE  ChainInv'
<1> USE DEF RetireBuffer, blockVars, threadVars, workerVars, listVars
<1> DEFINE b == head[wt]
<1>0. /\ b \in Blocks /\ b # NoBlock /\ Held(b) /\ owner[b] = wt /\ wt \in Threads
      /\ cursor[b] = committed[b] /\ reaped[b] = cursor[b]
      /\ cur[wt] = b => life[wt] = "ended" /\ pc[wt] = "idle"
      /\ prev[wt] = b => pc[wt] # "retire"
      /\ sent[wt] = base[b] + cursor[b]
      /\ list[wt] = "todo"
      /\ \A c \in Blocks : Held(c) => next[c] # b
  BY DroppedBlock
<1>a. \A x \in Blocks : Held(x)' <=> (Held(x) /\ x # b)
  BY <1>0 DEF Held, ChainInv, TypeOK
<1>b. \A u \in Threads : /\ pc[u] # "idle" => ~Forgotten(u)
                         /\ ~Forgotten(u)' => ~Forgotten(u)
                         /\ ~Forgotten(u)' /\ cur[u] = b => list'[u] # "none" /\ u # wt
  BY <1>0 DEF ChainInv, TypeOK, LinkInv, CurInv, Forgotten
<1>1. TypeOK'
  BY <1>0, <1>a DEF ChainInv, TypeOK, ThreadStates, Written, WorkerInv, HeadInv
<1>2. BlockInv'
  BY <1>0, <1>a DEF ChainInv, TypeOK, BlockInv, CurInv, RoomInv, Entering, Extending
<1>3. RoomInv'
  BY <1>0, <1>a DEF ChainInv, TypeOK, RoomInv, CurInv, BlockInv, PrevInv, Entering, Extending
<1>4. CurInv'
  BY <1>0, <1>a, <1>b DEF ChainInv, TypeOK, CurInv
<1>5. PrevInv'
  BY <1>0, <1>a, <1>b DEF ChainInv, TypeOK, PrevInv
<1>6. ScopeInv'
  BY <1>0, <1>a DEF ChainInv, TypeOK, ScopeInv, CurInv, BlockInv, RoomInv, PrevInv, Held, Open, Entering, Extending
<1>7. LinkInv'
  <2>1. \A c \in Blocks : Held(c) /\ next[c] # NoBlock => next[c] \in Blocks \ {b}
    BY <1>0 DEF ChainInv, TypeOK
  <2> QED
    BY <1>0, <1>a, <2>1 DEF ChainInv, LinkInv
<1>8. HeadInv'
  BY <1>0, <1>a, <1>b DEF ChainInv, TypeOK, HeadInv, CurInv, LinkInv, Held, RoomInv
<1>9. WorkerInv'
  BY <1>0, <1>a DEF ChainInv, TypeOK, WorkerInv, Held, HeadInv
<1> QED
  BY <1>1, <1>2, <1>3, <1>4, <1>5, <1>6, <1>7, <1>8, <1>9 DEF ChainInv

\* Blocks that are in no chain go back to the pool.
LEMMA FreeRetiredStep ==
  ASSUME ChainInv, FreeRetired
  PROVE  ChainInv'
<1> USE DEF FreeRetired, blockVars, threadVars, workerVars, listVars
<1>0. \A u \in Threads : /\ Forgotten(u)' <=> Forgotten(u)
                         /\ pc[u] # "idle" => ~Forgotten(u)
  BY DEF ChainInv, TypeOK, HeadInv, WorkerInv, Forgotten
<1>1. TypeOK'
  BY DEF ChainInv, TypeOK
<1>2. BlockInv'
  BY <1>0 DEF ChainInv, TypeOK, BlockInv, Held
<1>3. RoomInv'
  BY DEF ChainInv, TypeOK, RoomInv, Entering, Extending
<1>4. CurInv'
  BY <1>0 DEF ChainInv, TypeOK, CurInv, Held
<1>5. PrevInv'
  BY DEF ChainInv, TypeOK, PrevInv, Held
<1>6. ScopeInv'
  BY DEF ChainInv, TypeOK, ScopeInv, Held, Open, Extending
<1>7. LinkInv'
  BY DEF ChainInv, TypeOK, LinkInv, Held
<1>8. HeadInv'
  BY <1>0 DEF ChainInv, TypeOK, HeadInv, Held
<1>9. WorkerInv'
  BY DEF ChainInv, WorkerInv
<1> QED
  BY <1>1, <1>2, <1>3, <1>4, <1>5, <1>6, <1>7, <1>8, <1>9 DEF ChainInv

\* The invariant is inductive.
LEMMA StepPreservesChainInv == ChainInv /\ [Next]_vars /\ ~strayed' => ChainInv'
<1> SUFFICES ASSUME ChainInv, [Next]_vars, ~strayed' PROVE ChainInv'
  OBVIOUS
<1>1. CASE UNCHANGED vars
  <2> USE <1>1 DEF vars, blockVars, threadVars, workerVars, listVars
  <2>1. TypeOK' /\ BlockInv' /\ RoomInv' /\ CurInv'
    BY DEF ChainInv, TypeOK, BlockInv, RoomInv, CurInv, Held, Entering, Extending, Forgotten
  <2>2. PrevInv' /\ ScopeInv' /\ LinkInv'
    BY DEF ChainInv, PrevInv, ScopeInv, LinkInv, Held, Open, Extending
  <2>3. HeadInv' /\ WorkerInv'
    BY DEF ChainInv, HeadInv, WorkerInv, Held, Forgotten
  <2> QED
    BY <2>1, <2>2, <2>3 DEF ChainInv
<1>2. ASSUME NEW t \in Threads, Producer(t) PROVE ChainInv'
  BY <1>2, EnterPreludeStep, ClaimSpaceStep, NextBufferStep, PublishThreadStep,
     RetireCurrentStep, BeginAuxStep, AuxSegmentStep, CommitPlainStep, CommitLatestStep,
     CommitScopeStep, EndThreadBufferStep
     DEF Producer, InEvent
<1>3. CASE DrainBuffers
  BY <1>3, StartDrainStep DEF DrainBuffers
<1>4. CASE DrainLocalBuffers
  BY <1>4, StartDrainStep DEF DrainLocalBuffers
<1>5. CASE Drain
  BY <1>5, PickThreadStep, DrainCommittedStep, KeepBufferStep, RetireBufferStep,
     FreeRetiredStep
     DEF Drain
<1> QED
  BY <1>1, <1>2, <1>3, <1>4, <1>5 DEF Next

\* What has strayed stays so.
LEMMA StrayedStays == strayed /\ [Next]_vars => strayed'
<1> SUFFICES ASSUME strayed, [Next]_vars PROVE strayed'
  OBVIOUS
<1>1. ASSUME NEW t \in Threads, Producer(t) PROVE strayed'
  <2>1. ASSUME NEW s \in EventSizes, NEW aux \in BOOLEAN, EnterPrelude(t, s, aux) PROVE strayed'
    BY <2>1, Zenon DEF EnterPrelude
  <2>2. ASSUME NEW n \in AuxSizes, BeginAux(t, n) PROVE strayed'
    BY <2>2, Zenon DEF BeginAux
  <2>3. CASE EndThreadBuffer(t)
    BY <2>3, Zenon DEF EndThreadBuffer
  <2>4. CASE InEvent(t)
    BY <2>4, Zenon DEF InEvent, ClaimSpace, NextBuffer, PublishThread, RetireCurrent, AuxSegment,
                       CommitPlain, CommitLatest, CommitScope
  <2> QED
    BY <1>1, <2>1, <2>2, <2>3, <2>4 DEF Producer
<1>2. CASE DrainBuffers \/ DrainLocalBuffers
  BY <1>2, Zenon DEF DrainBuffers, DrainLocalBuffers, StartDrain
<1>3. CASE Drain
  BY <1>3, Zenon DEF Drain, PickThread, DrainCommitted, KeepBuffer, RetireBuffer, FreeRetired
<1>4. CASE UNCHANGED vars
  BY <1>4, Zenon DEF vars
<1> QED
  BY <1>1, <1>2, <1>3, <1>4 DEF Next

\* The inductive invariant holds of every reachable state, as long as no thread uses, after it
\* has ended, a block that the worker has taken back.
THEOREM ChainInvariant == Spec => []ChainInvUnlessStrayed
<1>1. Init => ChainInvUnlessStrayed
  BY InitStep DEF ChainInvUnlessStrayed
<1>2. ChainInvUnlessStrayed /\ [Next]_vars => ChainInvUnlessStrayed'
  BY StepPreservesChainInv, StrayedStays DEF ChainInvUnlessStrayed
<1> QED
  BY <1>1, <1>2, PTL DEF Spec

\* Until then every variable of the write buffers keeps its type.
THEOREM TypeCorrect == Spec => [](strayed \/ TypeOK)
<1>1. ChainInvUnlessStrayed => strayed \/ TypeOK
  BY DEF ChainInvUnlessStrayed, ChainInv
<1> QED
  BY <1>1, ChainInvariant, PTL

\* No sequence of events, aux segments and terminal bytes, of any sizes the
\* static_assert of Field_WriteAuxData allows, writes past a block's Overflow.
THEOREM WritesStayInBlock == Spec => []NoOverrun
<1>1. ChainInvUnlessStrayed => NoOverrun
  BY DEF ChainInvUnlessStrayed, ChainInv, BlockInv, NoOverrun
<1> QED
  BY <1>1, ChainInvariant, PTL

\* The worker never frees a block its thread can still write to, and the pool
\* never gives a block to two threads; also not a block in which a thread that
\* has ended logs, until the one case that the run tls_late shows.
THEOREM BlocksSoleUse == Spec => []SoleUseUnlessStrayed
<1>1. ChainInv => SoleUse
  <2> SUFFICES ASSUME ChainInv PROVE SoleUse
    OBVIOUS
  <2>1. \A t \in Threads : Writing(t) => ~Forgotten(t)
    BY DEF Writing, Forgotten
  <2> QED
    BY <2>1 DEF ChainInv, TypeOK, CurInv, ScopeInv, WorkerInv, Held, Open, SoleUse
<1>2. ChainInvUnlessStrayed => SoleUseUnlessStrayed
  BY <1>1 DEF ChainInvUnlessStrayed, SoleUseUnlessStrayed
<1> QED
  BY <1>2, ChainInvariant, PTL

\* Bytes reach the tail once each and in the order the thread wrote them.
THEOREM StreamsInOrder == Spec => []StreamInOrder
<1>1. ChainInvUnlessStrayed => StreamInOrder
  BY DEF ChainInvUnlessStrayed, ChainInv, HeadInv, StreamInOrder
<1> QED
  BY <1>1, ChainInvariant, PTL

(***************************************************************************)
(* Thread buffers and drain implement TraceStream.  ChainInv says which    *)
(* blocks are in use and how they are linked; what is added here is their  *)
(* order in a thread's stream, and what of it is committed.                *)
(***************************************************************************)
\* The blocks of a thread are disjoint ranges of its stream.
ApartInv ==
  \A b, c \in Blocks :
    Held(b) /\ Held(c) /\ owner[b] = owner[c] /\ b # c =>
      base[b] + cursor[b] <= base[c] \/ base[c] + cursor[c] <= base[b]

\* The block it writes to is the last of them, and the others are not empty.
LastInv ==
  \A b \in Blocks : Held(b) =>
    /\ cur[owner[b]] \in Blocks /\ Held(cur[owner[b]]) /\ owner[cur[owner[b]]] = owner[b]
    /\ b # cur[owner[b]] => cursor[b] > 0 /\ base[b] + cursor[b] <= base[cur[owner[b]]]

\* The block that the worker stands at is the first of them.
FirstInv ==
  \A t \in Threads : list[t] # "none" =>
    \A b \in Blocks : Held(b) /\ owner[b] = t /\ b # head[t] =>
      base[head[t]] + cursor[head[t]] <= base[b]

\* Nothing of an open event is committed in the block that it starts in, and a block that
\* a thread is about to leave is not empty.
EventInv ==
  \A t \in Threads :
    /\ Open(t) => /\ base[scope[t]] + committed[scope[t]] <= evStart[t]
                  /\ evStart[t] < base[scope[t]] + cursor[scope[t]]
    /\ pc[t] = "next" /\ cur[t] # NoBlock =>
         IF resume[t] = "claim" THEN cursor[cur[t]] + need[t] > Size ELSE cursor[cur[t]] > 0

OrderInv == ApartInv /\ LastInv /\ FirstInv /\ EventInv

\* A step that takes no block, retires none and writes only to the end of a thread's last
\* block keeps the order of the blocks.
LEMMA RangesKept ==
  ASSUME ChainInv, OrderInv,
         owner' = owner, base' = base, cur' = cur, cursor' \in [Blocks -> Nat],
         \A b \in Blocks : Held(b)' <=> Held(b),
         \A b \in Blocks : cursor'[b] >= cursor[b],
         \A b \in Blocks : Held(b) /\ cursor'[b] # cursor[b] => b = cur[owner[b]],
         \A t \in Threads : list'[t] # "none" => list[t] # "none" /\ head'[t] = head[t]
  PROVE  ApartInv' /\ LastInv' /\ FirstInv'
<1>1. /\ cursor \in [Blocks -> Nat] /\ base \in [Blocks -> Nat] /\ owner \in [Blocks -> Threads]
      /\ \A t \in Threads : list[t] # "none" => head[t] \in Blocks /\ Held(head[t]) /\ owner[head[t]] = t
  BY DEF ChainInv, TypeOK, HeadInv
<1>2. LastInv'
  BY <1>1 DEF OrderInv, LastInv
<1>3. ApartInv'
  <2> SUFFICES ASSUME NEW b \in Blocks, NEW c \in Blocks,
                      Held(b), Held(c), owner[b] = owner[c], b # c
               PROVE  base[b] + cursor'[b] <= base[c] \/ base[c] + cursor'[c] <= base[b]
    BY DEF ApartInv
  <2>1. CASE b = cur[owner[b]]
    BY <1>1, <2>1 DEF OrderInv, LastInv
  <2>2. CASE c = cur[owner[c]]
    BY <1>1, <2>2 DEF OrderInv, LastInv
  <2>3. CASE b # cur[owner[b]] /\ c # cur[owner[c]]
    BY <1>1, <2>3 DEF OrderInv, ApartInv
  <2> QED
    BY <2>1, <2>2, <2>3
<1>4. FirstInv'
  <2> SUFFICES ASSUME NEW t \in Threads, list'[t] # "none",
                      NEW b \in Blocks, Held(b), owner[b] = t, b # head[t]
               PROVE  base[head[t]] + cursor'[head[t]] <= base[b]
    BY DEF FirstInv
  <2>1. base[head[t]] + cursor[head[t]] <= base[b] /\ head[t] \in Blocks
    BY <1>1 DEF OrderInv, FirstInv
  <2>2. CASE head[t] = cur[t]
    BY <1>1, <2>1, <2>2 DEF OrderInv, LastInv
  <2>3. CASE head[t] # cur[t]
    BY <1>1, <2>1, <2>3
  <2> QED
    BY <2>2, <2>3
<1> QED
  BY <1>2, <1>3, <1>4

wholeBar == [t \in Threads |-> Whole(t)]
fateBar == [t \in Threads |-> Fate(t)]
TraceStep == [Trace!Next]_<<wholeBar, sent, fateBar, strayed>>

\* What most steps are to the abstract trace: t logs something, or nothing happens.
LEMMA LogOrStutter ==
  ASSUME ~strayed, ~strayed', strayed' = strayed, NEW t \in Threads, Fate(t) # "forgotten", Whole(t) \in Nat, Whole(t)' \in Nat,
         Whole(t)' >= Whole(t), sent' = sent,
         \A u \in Threads : Fate(u)' = Fate(u),
         \A u \in Threads \ {t} : Whole(u)' = Whole(u)
  PROVE  TraceStep
<1>1. fateBar' = fateBar
  BY DEF fateBar
<1>2. wholeBar' = [wholeBar EXCEPT ![t] = wholeBar'[t]]
  BY DEF wholeBar
<1>3. CASE Whole(t)' = Whole(t)
  <2>1. wholeBar' = wholeBar
    BY <1>3 DEF wholeBar
  <2> QED
    BY <1>1, <2>1 DEF TraceStep
<1>4. CASE Whole(t)' > Whole(t)
  <2>1. wholeBar'[t] > wholeBar[t] /\ fateBar[t] # "forgotten"
    BY <1>4 DEF wholeBar, fateBar
  <2>2. Trace!Log(t)
    BY <1>1, <1>2, <2>1 DEF Trace!Log, wholeBar, fateBar
  <2> QED
    BY <2>2 DEF TraceStep, Trace!Next
<1> QED
  BY <1>3, <1>4

\* The same for a step after which everything is as it was.
LEMMA Stutter ==
  ASSUME ~strayed, ~strayed', strayed' = strayed, sent' = sent, \A u \in Threads : Whole(u)' = Whole(u) /\ Fate(u)' = Fate(u)
  PROVE  TraceStep
BY DEF TraceStep, wholeBar, fateBar

\* How much a thread has written, and what of it belongs to an event that is open.
LEMMA WholeFacts ==
  ASSUME ChainInv, OrderInv, NEW t \in Threads
  PROVE  /\ Written(t) \in Nat /\ Whole(t) \in Nat
         /\ cur[t] \in Blocks /\ ~Forgotten(t) => Written(t) = base[cur[t]] + cursor[cur[t]]
         /\ Open(t) => cur[t] \in Blocks /\ evStart[t] < Written(t)
<1>1. Written(t) \in Nat /\ Whole(t) \in Nat
  BY DEF ChainInv, TypeOK, Written, Whole
<1>2. cur[t] \in Blocks /\ ~Forgotten(t) => Written(t) = base[cur[t]] + cursor[cur[t]]
  BY DEF Written
<1>3. ASSUME Open(t) PROVE cur[t] \in Blocks /\ evStart[t] < Written(t)
  <2>1. cur[t] \in Blocks /\ ~Forgotten(t)
    BY <1>3 DEF Open, ChainInv, RoomInv, Forgotten
  <2>2. /\ scope[t] \in Blocks /\ Held(scope[t]) /\ owner[scope[t]] = t
        /\ evStart[t] < base[scope[t]] + cursor[scope[t]]
    BY <1>3 DEF ChainInv, ScopeInv, OrderInv, EventInv
  <2>3. base[scope[t]] + cursor[scope[t]] <= base[cur[t]] + cursor[cur[t]]
    BY <2>1, <2>2 DEF OrderInv, LastInv, ChainInv, TypeOK
  <2>4. evStart[t] \in Nat /\ base \in [Blocks -> Nat] /\ cursor \in [Blocks -> Nat]
    BY DEF ChainInv, TypeOK
  <2> QED
    BY <1>2, <2>1, <2>2, <2>3, <2>4
<1> QED
  BY <1>1, <1>2, <1>3

\* A fresh block has room for an event.
LEMMA SizePositive == Size > 0
<1>1. PICK s \in EventSizes, r \in Redirects : r + Timing + s < Size
  OBVIOUS
<1> QED
  BY <1>1

\* What a thread writes to its own block is no other thread's.
LEMMA OthersWhole ==
  ASSUME ChainInv, NEW t \in Threads, ~Forgotten(t), cur[t] \in Blocks,
         sent' = sent, life' = life, list' = list,
         base' = base, cur' = cur,
         \A b \in Blocks \ {cur[t]} : cursor'[b] = cursor[b],
         \A u \in Threads \ {t} : pc'[u] = pc[u] /\ resume'[u] = resume[u] /\ evStart'[u] = evStart[u]
  PROVE  \A u \in Threads \ {t} : Whole(u)' = Whole(u)
<1> SUFFICES ASSUME NEW u \in Threads \ {t} PROVE Whole(u)' = Whole(u)
  OBVIOUS
<1>1. ~Forgotten(u) /\ cur[u] # NoBlock => cur[u] \in Blocks \ {cur[t]}
  BY DEF ChainInv, TypeOK, CurInv
<1> QED
  BY <1>1 DEF Whole, Open, Written, Forgotten

\* What the step of an action shows: the order is kept, and TraceStream allows the step.

\* An event is entered: the test for room is what tells that a block left is not empty.
LEMMA EnterPreludeOrder ==
  ASSUME ChainInv, OrderInv, ~strayed, ~strayed', NEW t \in Threads, NEW s \in EventSizes, NEW aux \in BOOLEAN, EnterPrelude(t, s, aux)
  PROVE  OrderInv' /\ TraceStep
<1> USE DEF EnterPrelude, blockVars, threadVars, workerVars, listVars
<1>0. ~Forgotten(t) /\ strayed' = strayed
  <2>1. ~Forgotten(t) /\ ~strayed'
    BY Zenon
  <2> QED
    BY <2>1 DEF ChainInv, TypeOK
<1>f. /\ strayed' = strayed
      /\ \A u \in Threads : /\ Forgotten(u)' <=> Forgotten(u)
                            /\ pc[u] # "idle" => ~Forgotten(u)
                            /\ Fate(u)' = Fate(u)
  BY <1>0 DEF ChainInv, TypeOK, HeadInv, WorkerInv, Fate, Forgotten
<1>1. ApartInv' /\ LastInv' /\ FirstInv'
  BY RangesKept DEF ChainInv, TypeOK, CurInv, RoomInv, Held, Entering, Extending
<1>2. EventInv'
  BY DEF ChainInv, TypeOK, OrderInv, EventInv, RoomInv, CurInv, ScopeInv, Held, Open, Written, Entering, Extending
<1>3. TraceStep
  <2>1. Fate(t) # "forgotten" /\ Whole(t) \in Nat
    BY <1>0, <1>f, WholeFacts DEF Fate
  <2>2. \A u \in Threads : Whole(u)' = Whole(u)
    BY <1>f DEF ChainInv, TypeOK, Whole, Open, Written
  <2> QED
    BY <1>f, <2>1, <2>2, LogOrStutter
<1> QED
  BY <1>1, <1>2, <1>3 DEF OrderInv

\* Space is claimed behind what is committed: the event is open.
LEMMA ClaimSpaceOrder ==
  ASSUME ChainInv, OrderInv, ~strayed, ~strayed', NEW t \in Threads, ClaimSpace(t)
  PROVE  OrderInv' /\ TraceStep
<1> USE DEF ClaimSpace, blockVars, threadVars, workerVars, listVars
<1>f. /\ strayed' = strayed
      /\ \A u \in Threads : /\ Forgotten(u)' <=> Forgotten(u)
                            /\ pc[u] # "idle" => ~Forgotten(u)
                            /\ Fate(u)' = Fate(u)
  BY DEF ChainInv, TypeOK, HeadInv, WorkerInv, Fate, Forgotten
<1>1. ApartInv' /\ LastInv' /\ FirstInv'
  BY <1>f, RangesKept DEF ChainInv, TypeOK, CurInv, RoomInv, Held, Entering, Extending
<1>2. EventInv'
  <2>1. /\ cur[t] \in Blocks /\ need[t] \in Nat \ {0} /\ pc[t] = "claim"
        /\ committed[cur[t]] <= cursor[cur[t]] /\ Held(cur[t]) /\ owner[cur[t]] = t
    BY <1>f DEF ChainInv, TypeOK, RoomInv, Entering, BlockInv, CurInv
  <2>2. Written(t) = base[cur[t]] + cursor[cur[t]]
    BY <1>f, <2>1 DEF Written
  <2> SUFFICES ASSUME NEW u \in Threads PROVE EventInv!(u)'
    BY DEF EventInv
  <2>3. CASE u = t
    BY <2>1, <2>2, <2>3 DEF ChainInv, TypeOK, Open, Written
  <2>4. CASE u # t
    <3>1. ~Forgotten(u) => cur[u] # cur[t]
      BY <2>1, <2>4 DEF ChainInv, TypeOK, CurInv
    <3>2. Open(u) => scope[u] \in Blocks /\ scope[u] # cur[t]
      BY <2>1, <2>4 DEF ChainInv, TypeOK, ScopeInv
    <3> QED
      BY <2>1, <2>4, <3>1, <3>2 DEF ChainInv, TypeOK, OrderInv, EventInv, Held, Open, Written
  <2> QED
    BY <2>3, <2>4
<1>3. TraceStep
  <2>1. \A u \in Threads \ {t} : Whole(u)' = Whole(u)
    BY <1>f, OthersWhole DEF ChainInv, TypeOK, RoomInv
  <2>2. Fate(t) # "forgotten" /\ \A u \in Threads : Fate(u)' = Fate(u)
    BY <1>f DEF Fate
  <2>3. Whole(t) \in Nat /\ Whole(t)' \in Nat /\ Whole(t)' >= Whole(t)
    <3>1. pc[t] = "claim" /\ cur[t] \in Blocks /\ Written(t) \in Nat
      BY WholeFacts DEF ChainInv, RoomInv
    <3>2. Whole(t) = Written(t) /\ Whole(t)' = evStart'[t] /\ evStart'[t] = Written(t)
      BY <3>1 DEF ChainInv, TypeOK, Whole, Open
    <3> QED
      BY <3>1, <3>2
  <2> QED
    BY <1>f, <2>1, <2>2, <2>3, LogOrStutter
<1> QED
  BY <1>1, <1>2, <1>3 DEF OrderInv

\* The block left is retired.
LEMMA RetireCurrentOrder ==
  ASSUME ChainInv, OrderInv, ~strayed, ~strayed', NEW t \in Threads, RetireCurrent(t)
  PROVE  OrderInv' /\ TraceStep
<1> USE DEF RetireCurrent, blockVars, threadVars, workerVars, listVars
<1>f. /\ strayed' = strayed
      /\ \A u \in Threads : /\ Forgotten(u)' <=> Forgotten(u)
                            /\ pc[u] # "idle" => ~Forgotten(u)
                            /\ Fate(u)' = Fate(u)
  BY DEF ChainInv, TypeOK, HeadInv, WorkerInv, Fate, Forgotten
<1>1. ApartInv' /\ LastInv' /\ FirstInv'
  BY RangesKept DEF ChainInv, TypeOK, CurInv, RoomInv, Held, Entering, Extending
<1>2. EventInv'
  BY DEF ChainInv, TypeOK, OrderInv, EventInv, RoomInv, CurInv, ScopeInv, Held, Open, Written, Entering, Extending
<1>3. TraceStep
  <2>1. Fate(t) # "forgotten" /\ Whole(t) \in Nat
    BY <1>f, WholeFacts DEF Fate
  <2>2. \A u \in Threads : Whole(u)' = Whole(u)
    BY <1>f DEF ChainInv, TypeOK, Whole, Open, Written
  <2> QED
    BY <1>f, <2>1, <2>2, LogOrStutter
<1> QED
  BY <1>1, <1>2, <1>3 DEF OrderInv

\* An array field begins.
LEMMA BeginAuxOrder ==
  ASSUME ChainInv, OrderInv, ~strayed, ~strayed', NEW t \in Threads, NEW n \in AuxSizes, BeginAux(t, n)
  PROVE  OrderInv' /\ TraceStep
<1> USE DEF BeginAux, blockVars, threadVars, workerVars, listVars
<1>f. /\ strayed' = strayed
      /\ \A u \in Threads : /\ Forgotten(u)' <=> Forgotten(u)
                            /\ pc[u] # "idle" => ~Forgotten(u)
                            /\ Fate(u)' = Fate(u)
  BY DEF ChainInv, TypeOK, HeadInv, WorkerInv, Fate, Forgotten
<1>1. ApartInv' /\ LastInv' /\ FirstInv'
  BY RangesKept DEF ChainInv, TypeOK, CurInv, RoomInv, Held, Entering, Extending
<1>2. EventInv'
  BY SizePositive DEF ChainInv, TypeOK, OrderInv, EventInv, RoomInv, CurInv, ScopeInv, Held, Open, Written, Entering, Extending
<1>3. TraceStep
  <2>1. \A u \in Threads \ {t} : Whole(u)' = Whole(u)
    BY <1>f, OthersWhole DEF ChainInv, TypeOK, RoomInv
  <2>2. Fate(t) # "forgotten" /\ \A u \in Threads : Fate(u)' = Fate(u)
    BY <1>f DEF Fate
  <2>3. Whole(t) \in Nat /\ Whole(t)' \in Nat /\ Whole(t)' >= Whole(t)
    <3>1. Open(t) /\ Open(t)' /\ evStart'[t] = evStart[t] /\ evStart[t] \in Nat
      BY DEF ChainInv, TypeOK, Open
    <3> QED
      BY <3>1 DEF Whole
  <2> QED
    BY <1>f, <2>1, <2>2, <2>3, LogOrStutter
<1> QED
  BY <1>1, <1>2, <1>3 DEF OrderInv

\* A segment is written, and perhaps committed: not in the block that the event starts in.
LEMMA AuxSegmentOrder ==
  ASSUME ChainInv, OrderInv, ~strayed, ~strayed', NEW t \in Threads, AuxSegment(t)
  PROVE  OrderInv' /\ TraceStep
<1> USE DEF AuxSegment, blockVars, threadVars, workerVars, listVars
<1>f. /\ strayed' = strayed
      /\ \A u \in Threads : /\ Forgotten(u)' <=> Forgotten(u)
                            /\ pc[u] # "idle" => ~Forgotten(u)
                            /\ Fate(u)' = Fate(u)
  BY DEF ChainInv, TypeOK, HeadInv, WorkerInv, Fate, Forgotten
<1>1. ApartInv' /\ LastInv' /\ FirstInv'
  BY <1>f, RangesKept DEF ChainInv, TypeOK, CurInv, RoomInv, Held, Entering, Extending
<1>2. EventInv'
  BY <1>f DEF ChainInv, TypeOK, OrderInv, EventInv, RoomInv, CurInv, ScopeInv, Held, Open, Written, Entering, Extending
<1>3. TraceStep
  <2>1. \A u \in Threads \ {t} : Whole(u)' = Whole(u)
    BY <1>f, OthersWhole DEF ChainInv, TypeOK, RoomInv
  <2>2. Fate(t) # "forgotten" /\ \A u \in Threads : Fate(u)' = Fate(u)
    BY <1>f DEF Fate
  <2>3. Whole(t) \in Nat /\ Whole(t)' \in Nat /\ Whole(t)' >= Whole(t)
    <3>1. Open(t) /\ Open(t)' /\ evStart'[t] = evStart[t] /\ evStart[t] \in Nat
      BY DEF ChainInv, TypeOK, RoomInv, Open
    <3> QED
      BY <3>1 DEF Whole
  <2> QED
    BY <1>f, <2>1, <2>2, <2>3, LogOrStutter
<1> QED
  BY <1>1, <1>2, <1>3 DEF OrderInv

\* An event without array fields is complete.
LEMMA CommitPlainOrder ==
  ASSUME ChainInv, OrderInv, ~strayed, ~strayed', NEW t \in Threads, CommitPlain(t)
  PROVE  OrderInv' /\ TraceStep
<1> USE DEF CommitPlain, blockVars, threadVars, workerVars, listVars
<1>f. /\ strayed' = strayed
      /\ \A u \in Threads : /\ Forgotten(u)' <=> Forgotten(u)
                            /\ pc[u] # "idle" => ~Forgotten(u)
                            /\ Fate(u)' = Fate(u)
  BY DEF ChainInv, TypeOK, HeadInv, WorkerInv, Fate, Forgotten
<1>1. ApartInv' /\ LastInv' /\ FirstInv'
  BY RangesKept DEF ChainInv, TypeOK, CurInv, RoomInv, Held, Entering, Extending
<1>2. EventInv'
  BY DEF ChainInv, TypeOK, OrderInv, EventInv, RoomInv, CurInv, ScopeInv, Held, Open, Written, Entering, Extending
<1>3. TraceStep
  <2>1. \A u \in Threads \ {t} : Whole(u)' = Whole(u)
    BY <1>f, OthersWhole DEF ChainInv, TypeOK, RoomInv
  <2>2. Fate(t) # "forgotten" /\ \A u \in Threads : Fate(u)' = Fate(u)
    BY <1>f DEF Fate
  <2>3. Whole(t) \in Nat /\ Whole(t)' \in Nat /\ Whole(t)' >= Whole(t)
    <3>1. Open(t) /\ ~Open(t)' /\ cur[t] \in Blocks /\ ~Forgotten(t) /\ ~Forgotten(t)'
      BY <1>f DEF ChainInv, TypeOK, RoomInv, HeadInv, Open
    <3>2. Whole(t) = evStart[t] /\ Whole(t)' = Written(t)'
      BY <3>1 DEF Whole
    <3>3. Written(t)' = base[cur[t]] + cursor'[cur[t]]
      BY <3>1 DEF Written
    <3> QED
      BY <3>1, <3>2, <3>3, WholeFacts DEF ChainInv, TypeOK
  <2> QED
    BY <1>f, <2>1, <2>2, <2>3, LogOrStutter
<1> QED
  BY <1>1, <1>2, <1>3 DEF OrderInv

\* The last block of an event is committed, which completes it if it is the first one, too.
LEMMA CommitLatestOrder ==
  ASSUME ChainInv, OrderInv, ~strayed, ~strayed', NEW t \in Threads, CommitLatest(t)
  PROVE  OrderInv' /\ TraceStep
<1> USE DEF CommitLatest, blockVars, threadVars, workerVars, listVars
<1>f. /\ strayed' = strayed
      /\ \A u \in Threads : /\ Forgotten(u)' <=> Forgotten(u)
                            /\ pc[u] # "idle" => ~Forgotten(u)
                            /\ Fate(u)' = Fate(u)
  BY DEF ChainInv, TypeOK, HeadInv, WorkerInv, Fate, Forgotten
<1>1. ApartInv' /\ LastInv' /\ FirstInv'
  BY <1>f, RangesKept DEF ChainInv, TypeOK, CurInv, RoomInv, Held, Entering, Extending
<1>2. EventInv'
  BY <1>f DEF ChainInv, TypeOK, OrderInv, EventInv, RoomInv, CurInv, ScopeInv, Held, Open, Written, Entering, Extending
<1>3. TraceStep
  <2>1. \A u \in Threads \ {t} : Whole(u)' = Whole(u)
    BY <1>f, OthersWhole DEF ChainInv, TypeOK, RoomInv
  <2>2. Fate(t) # "forgotten" /\ \A u \in Threads : Fate(u)' = Fate(u)
    BY <1>f DEF Fate
  <2>3. Whole(t) \in Nat /\ Whole(t)' \in Nat /\ Whole(t)' >= Whole(t)
    <3>0. /\ Open(t) /\ cur[t] \in Blocks /\ pc[t] = "scope" /\ pc'[t] \in {"idle", "commit"}
          /\ cursor'[cur[t]] = cursor[cur[t]] + 1
      BY DEF ChainInv, TypeOK, RoomInv, Open
    <3>2. Whole(t) = evStart[t] /\ Whole(t)' \in {evStart[t], Written(t)'}
      BY <3>0 DEF Whole
    <3>3. Written(t)' = base[cur[t]] + cursor'[cur[t]]
      BY <1>f, <3>0 DEF Written
    <3>4. Written(t) = base[cur[t]] + cursor[cur[t]]
      BY <1>f, <3>0 DEF Written
    <3>5. /\ evStart[t] \in Nat /\ base[cur[t]] \in Nat /\ cursor[cur[t]] \in Nat
          /\ evStart[t] < Written(t)
      BY <3>0, WholeFacts DEF ChainInv, TypeOK
    <3> QED
      BY <3>0, <3>2, <3>3, <3>4, <3>5
  <2> QED
    BY <1>f, <2>1, <2>2, <2>3, LogOrStutter
<1> QED
  BY <1>1, <1>2, <1>3 DEF OrderInv

\* The first block of an event is committed, which completes it.
LEMMA CommitScopeOrder ==
  ASSUME ChainInv, OrderInv, ~strayed, ~strayed', NEW t \in Threads, CommitScope(t)
  PROVE  OrderInv' /\ TraceStep
<1> USE DEF CommitScope, blockVars, threadVars, workerVars, listVars
<1>f. /\ strayed' = strayed
      /\ \A u \in Threads : /\ Forgotten(u)' <=> Forgotten(u)
                            /\ pc[u] # "idle" => ~Forgotten(u)
                            /\ Fate(u)' = Fate(u)
  BY DEF ChainInv, TypeOK, HeadInv, WorkerInv, Fate, Forgotten
<1>1. ApartInv' /\ LastInv' /\ FirstInv'
  BY RangesKept DEF ChainInv, TypeOK, CurInv, RoomInv, Held, Entering, Extending
<1>2. EventInv'
  BY DEF ChainInv, TypeOK, OrderInv, EventInv, RoomInv, CurInv, ScopeInv, Held, Open, Written, Entering, Extending
<1>3. TraceStep
  <2>1. \A u \in Threads \ {t} : Whole(u)' = Whole(u)
    BY <1>f, OthersWhole DEF ChainInv, TypeOK, RoomInv
  <2>2. Fate(t) # "forgotten" /\ \A u \in Threads : Fate(u)' = Fate(u)
    BY <1>f DEF Fate
  <2>3. Whole(t) \in Nat /\ Whole(t)' \in Nat /\ Whole(t)' >= Whole(t)
    <3>1. Open(t) /\ ~Open(t)' /\ cur[t] \in Blocks /\ ~Forgotten(t) /\ ~Forgotten(t)'
      BY <1>f DEF ChainInv, TypeOK, RoomInv, HeadInv, Open
    <3>2. Whole(t) = evStart[t] /\ Whole(t)' = Written(t)'
      BY <3>1 DEF Whole
    <3>3. Written(t)' = base[cur[t]] + cursor'[cur[t]]
      BY <3>1 DEF Written
    <3> QED
      BY <3>1, <3>2, <3>3, WholeFacts DEF ChainInv, TypeOK
  <2> QED
    BY <1>f, <2>1, <2>2, <2>3, LogOrStutter
<1> QED
  BY <1>1, <1>2, <1>3 DEF OrderInv

\* A drain starts over threads that have a list entry.
LEMMA StartDrainOrder ==
  ASSUME ChainInv, OrderInv, ~strayed, ~strayed', NEW todo \in SUBSET Threads, StartDrain(todo),
         \A t \in todo : list[t] # "none"
  PROVE  OrderInv' /\ TraceStep
<1> USE DEF StartDrain, blockVars, threadVars, workerVars, listVars
<1>f. /\ strayed' = strayed
      /\ \A u \in Threads : /\ Forgotten(u)' <=> Forgotten(u)
                            /\ pc[u] # "idle" => ~Forgotten(u)
                            /\ Fate(u)' = Fate(u)
  BY DEF ChainInv, TypeOK, HeadInv, WorkerInv, Fate, Forgotten
<1>1. ApartInv' /\ LastInv' /\ FirstInv'
  BY RangesKept DEF ChainInv, TypeOK, Held
<1>2. EventInv'
  BY DEF ChainInv, TypeOK, OrderInv, EventInv, Held, Open, Written
<1>3. TraceStep
  BY <1>f, Stutter DEF ChainInv, TypeOK, Whole, Open, Written
<1> QED
  BY <1>1, <1>2, <1>3 DEF OrderInv

\* The worker turns to a thread.
LEMMA PickThreadOrder ==
  ASSUME ChainInv, OrderInv, ~strayed, ~strayed', NEW t \in Threads, PickThread(t)
  PROVE  OrderInv' /\ TraceStep
<1> USE DEF PickThread, blockVars, threadVars, workerVars, listVars
<1>f. /\ strayed' = strayed
      /\ \A u \in Threads : /\ Forgotten(u)' <=> Forgotten(u)
                            /\ pc[u] # "idle" => ~Forgotten(u)
                            /\ Fate(u)' = Fate(u)
  BY DEF ChainInv, TypeOK, HeadInv, WorkerInv, Fate, Forgotten
<1>1. ApartInv' /\ LastInv' /\ FirstInv'
  BY RangesKept DEF ChainInv, TypeOK, Held
<1>2. EventInv'
  BY DEF ChainInv, TypeOK, OrderInv, EventInv, Held, Open, Written
<1>3. TraceStep
  BY <1>f, Stutter DEF ChainInv, TypeOK, Whole, Open, Written
<1> QED
  BY <1>1, <1>2, <1>3 DEF OrderInv

\* The thread's block stays at the head of its chain.
LEMMA KeepBufferOrder ==
  ASSUME ChainInv, OrderInv, ~strayed, ~strayed', KeepBuffer
  PROVE  OrderInv' /\ TraceStep
<1> USE DEF KeepBuffer, blockVars, threadVars, workerVars, listVars
<1>f. /\ strayed' = strayed
      /\ \A u \in Threads : /\ Forgotten(u)' <=> Forgotten(u)
                            /\ pc[u] # "idle" => ~Forgotten(u)
                            /\ Fate(u)' = Fate(u)
  BY DEF ChainInv, TypeOK, HeadInv, WorkerInv, Fate, Forgotten
<1>0. list[wt] = "todo" /\ wt \in Threads
  BY DEF ChainInv, TypeOK, WorkerInv
<1>1. ApartInv' /\ LastInv' /\ FirstInv'
  BY <1>0, RangesKept DEF ChainInv, TypeOK, Held
<1>2. EventInv'
  BY <1>0 DEF ChainInv, TypeOK, OrderInv, EventInv, Held, Open, Written
<1>3. TraceStep
  BY <1>f, <1>0, Stutter DEF ChainInv, TypeOK, Whole, Open, Written
<1> QED
  BY <1>1, <1>2, <1>3 DEF OrderInv

\* Retired blocks are in no stream any more.
LEMMA FreeRetiredOrder ==
  ASSUME ChainInv, OrderInv, ~strayed, ~strayed', FreeRetired
  PROVE  OrderInv' /\ TraceStep
<1> USE DEF FreeRetired, blockVars, threadVars, workerVars, listVars
<1>f. /\ strayed' = strayed
      /\ \A u \in Threads : /\ Forgotten(u)' <=> Forgotten(u)
                            /\ pc[u] # "idle" => ~Forgotten(u)
                            /\ Fate(u)' = Fate(u)
  BY DEF ChainInv, TypeOK, HeadInv, WorkerInv, Fate, Forgotten
<1>1. ApartInv' /\ LastInv' /\ FirstInv'
  BY RangesKept DEF ChainInv, TypeOK, Held
<1>2. EventInv'
  BY DEF ChainInv, TypeOK, OrderInv, EventInv, Held, Open, Written
<1>3. TraceStep
  BY <1>f, Stutter DEF ChainInv, TypeOK, Whole, Open, Written
<1> QED
  BY <1>1, <1>2, <1>3 DEF OrderInv

\* A thread ends, and keeps what it has written.
LEMMA EndThreadBufferOrder ==
  ASSUME ChainInv, OrderInv, ~strayed, ~strayed', NEW t \in Threads, EndThreadBuffer(t)
  PROVE  OrderInv' /\ TraceStep
<1> USE DEF EndThreadBuffer, blockVars, threadVars, workerVars, listVars
<1>1. ApartInv' /\ LastInv' /\ FirstInv'
  BY RangesKept DEF ChainInv, TypeOK, Held
<1>2. EventInv'
  BY DEF ChainInv, TypeOK, OrderInv, EventInv, Open
<1>3. TraceStep
  <2>1. pc[t] = "idle" /\ life[t] = "live" /\ ~Forgotten(t) /\ ~Forgotten(t)'
    BY DEF ChainInv, TypeOK, HeadInv, Forgotten
  <2>2. wholeBar' = wholeBar
    BY <2>1 DEF wholeBar, ChainInv, TypeOK, Whole, Open, Written, Forgotten
  <2>3. fateBar[t] = "live" /\ fateBar'[t] = "ended"
    BY <2>1 DEF fateBar, Fate, ChainInv, TypeOK
  <2>4. \A u \in Threads \ {t} : fateBar'[u] = fateBar[u]
    BY DEF fateBar, Fate, ChainInv, TypeOK, Forgotten
  <2>5. fateBar' = [fateBar EXCEPT ![t] = "ended"]
    BY <2>3, <2>4 DEF fateBar
  <2>6. Trace!End(t)
    BY <2>2, <2>3, <2>5 DEF Trace!End, wholeBar, fateBar
  <2> QED
    BY <2>6 DEF TraceStep, Trace!Next
<1> QED
  BY <1>1, <1>2, <1>3 DEF OrderInv

\* A thread's first block is entered in the worker's list: it has no other block.
LEMMA PublishThreadOrder ==
  ASSUME ChainInv, OrderInv, ~strayed, ~strayed', NEW t \in Threads, PublishThread(t)
  PROVE  OrderInv' /\ TraceStep
<1> USE DEF PublishThread, blockVars, threadVars, workerVars, listVars
<1>f. /\ strayed' = strayed
      /\ \A u \in Threads : /\ Forgotten(u)' <=> Forgotten(u)
                            /\ pc[u] # "idle" => ~Forgotten(u)
                            /\ Fate(u)' = Fate(u)
  BY DEF ChainInv, TypeOK, HeadInv, WorkerInv, Fate, Forgotten
<1>0. /\ cur[t] \in Blocks /\ base[cur[t]] = 0 /\ list[t] = "none" /\ resume[t] = "claim"
      /\ pc[t] = "publish" /\ pc'[t] = "claim"
      /\ \A b \in Blocks : Held(b)' <=> Held(b)
  BY DEF ChainInv, TypeOK, RoomInv, HeadInv, Held
<1>1. ApartInv' /\ LastInv'
  BY <1>0 DEF OrderInv, ApartInv, LastInv
<1>2. FirstInv'
  <2> SUFFICES ASSUME NEW u \in Threads, list'[u] # "none",
                      NEW b \in Blocks, Held(b), owner[b] = u, b # head'[u]
               PROVE  base[head'[u]] + cursor[head'[u]] <= base[b]
    BY <1>0 DEF FirstInv
  <2>1. CASE u = t
    <3>1. b # cur[t] /\ cursor[b] > 0 /\ base[b] + cursor[b] <= 0
      BY <1>0, <2>1 DEF ChainInv, TypeOK, OrderInv, LastInv
    <3> QED
      BY <3>1 DEF ChainInv, TypeOK
  <2>2. CASE u # t
    BY <2>2 DEF ChainInv, TypeOK, OrderInv, FirstInv
  <2> QED
    BY <2>1, <2>2
<1>3. EventInv'
  BY <1>0 DEF ChainInv, TypeOK, OrderInv, EventInv, Held, Open, Written
<1>4. TraceStep
  BY <1>f, <1>0, Stutter DEF ChainInv, TypeOK, Whole, Open, Written
<1> QED
  BY <1>1, <1>2, <1>3, <1>4 DEF OrderInv

\* A fresh block starts where the thread's stream ends, and the one left is not empty.
LEMMA NextBufferOrder ==
  ASSUME ChainInv, OrderInv, ~strayed, ~strayed', NEW t \in Threads, NEW b \in Blocks, NEW r \in Redirects, NextBuffer(t, b, r)
  PROVE  OrderInv' /\ TraceStep
<1> USE DEF NextBuffer, blockVars, threadVars, workerVars, listVars
<1>f. /\ strayed' = strayed
      /\ \A u \in Threads : /\ Forgotten(u)' <=> Forgotten(u)
                            /\ pc[u] # "idle" => ~Forgotten(u)
                            /\ Fate(u)' = Fate(u)
  BY DEF ChainInv, TypeOK, HeadInv, WorkerInv, Fate, Forgotten
<1> DEFINE old  == cur[t]
           used == IF old = NoBlock THEN r + Timing ELSE r
<1>1. b # NoBlock /\ b \in pool /\ pc[t] = "next" /\ used \in Nat /\ Written(t) \in Nat
  <2>1. Written(t) \in Nat
    BY WholeFacts
  <2> QED
    BY <2>1
<1>2. old # NoBlock => /\ old \in Blocks /\ Held(old) /\ owner[old] = t
                       /\ cursor[old] > 0 /\ Written(t) = base[old] + cursor[old]
  <2> SUFFICES ASSUME old # NoBlock PROVE cursor[old] > 0
    BY <1>f, <1>1, WholeFacts DEF ChainInv, TypeOK, CurInv
  <2>1. CASE resume[t] = "claim"
    <3>1. need[t] \in EventSizes /\ cursor[old] + need[t] > Size
      BY <1>1, <2>1 DEF ChainInv, RoomInv, OrderInv, EventInv
    <3>2. need[t] < Size /\ need[t] \in Nat /\ cursor[old] \in Nat
      <4>1. r + Timing + need[t] < Size /\ r \in Nat /\ need[t] \in Nat
        BY <3>1
      <4>2. old \in Blocks
        BY <1>1 DEF ChainInv, TypeOK
      <4> QED
        BY <4>1, <4>2 DEF ChainInv, TypeOK
    <3> QED
      BY <3>1, <3>2
  <2>2. CASE resume[t] # "claim"
    BY <1>1, <2>2 DEF OrderInv, EventInv
  <2> QED
    BY <2>1, <2>2
<1>3. \A x \in Blocks : Held(x) /\ owner[x] = t => cursor[x] > 0 /\ base[x] + cursor[x] <= Written(t)
  <2> SUFFICES ASSUME NEW x \in Blocks, Held(x), owner[x] = t
               PROVE  cursor[x] > 0 /\ base[x] + cursor[x] <= Written(t)
    OBVIOUS
  <2>1. old \in Blocks /\ (x # old => cursor[x] > 0 /\ base[x] + cursor[x] <= base[old])
    BY DEF OrderInv, LastInv
  <2> QED
    BY <1>2, <2>1 DEF ChainInv, TypeOK
<1>4. /\ ~Held(b) /\ Held(b)' /\ owner'[b] = t /\ base'[b] = Written(t) /\ cursor'[b] = used
      /\ cur' = [cur EXCEPT ![t] = b] /\ cur'[t] = b
      /\ \A x \in Blocks \ {b} :
           /\ Held(x)' <=> Held(x)
           /\ owner'[x] = owner[x] /\ base'[x] = base[x] /\ cursor'[x] = cursor[x]
           /\ committed'[x] = committed[x] /\ (x # old => next'[x] = next[x])
  BY <1>1 DEF Held, ChainInv, TypeOK, WorkerInv
<1>5. \A u \in Threads \ {t} : cur'[u] = cur[u] /\ (list[u] # "none" => head[u] # b)
  BY <1>4 DEF ChainInv, TypeOK, HeadInv
<1>6. LastInv'
  <2> SUFFICES ASSUME NEW x \in Blocks, Held(x)' PROVE LastInv!(x)'
    BY DEF LastInv
  <2>1. CASE x = b
    BY <1>4, <2>1
  <2>2. CASE x # b /\ owner[x] = t
    BY <1>3, <1>4, <2>2
  <2>3. CASE x # b /\ owner[x] # t
    <3>1. owner[x] \in Threads \ {t} /\ Held(x)
      BY <1>4, <2>3 DEF ChainInv, TypeOK
    <3>2. cur[owner[x]] \in Blocks \ {b}
      BY <1>4, <3>1 DEF OrderInv, LastInv
    <3> QED
      BY <1>4, <1>5, <2>3, <3>1, <3>2 DEF OrderInv, LastInv
  <2> QED
    BY <2>1, <2>2, <2>3
<1>7. ApartInv'
  BY <1>3, <1>4 DEF OrderInv, ApartInv
<1>8. FirstInv'
  <2> SUFFICES ASSUME NEW u \in Threads, list[u] # "none",
                      NEW x \in Blocks, Held(x)', owner'[x] = u, x # head[u]
               PROVE  base'[head[u]] + cursor'[head[u]] <= base'[x]
    BY DEF FirstInv
  <2>1. head[u] \in Blocks \ {b} /\ Held(head[u]) /\ owner[head[u]] = u
    BY <1>4 DEF ChainInv, HeadInv
  <2>2. CASE x = b
    BY <1>3, <1>4, <2>1, <2>2
  <2>3. CASE x # b
    BY <1>4, <2>1, <2>3 DEF OrderInv, FirstInv
  <2> QED
    BY <2>2, <2>3
<1>9. EventInv'
  <2> SUFFICES ASSUME NEW u \in Threads PROVE EventInv!(u)'
    BY DEF EventInv
  <2>1. Open(u) => scope[u] \in Blocks \ {b}
    BY <1>4 DEF ChainInv, ScopeInv
  <2>2. CASE u = t
    <3>1. Open(t)' <=> Open(t)
      BY <1>1 DEF ChainInv, TypeOK, RoomInv, Open
    <3>2. pc'[t] \in {"publish", "retire"} /\ Written(t)' = Written(t) + used
      BY <1>f, <1>1, <1>4 DEF ChainInv, TypeOK, Written
    <3> QED
      BY <1>1, <1>4, <2>1, <2>2, <3>1, <3>2 DEF OrderInv, EventInv
  <2>3. CASE u # t
    <3>1. ~Forgotten(u) /\ cur[u] # NoBlock => cur[u] \in Blocks \ {b}
      BY <1>4 DEF ChainInv, TypeOK, CurInv
    <3>2. (Open(u)' <=> Open(u)) /\ pc'[u] = pc[u] /\ ~(pc[u] = "next" /\ Forgotten(u))
      BY <1>f, <2>3 DEF ChainInv, TypeOK, Open
    <3> QED
      BY <1>4, <1>5, <2>1, <2>3, <3>1, <3>2 DEF OrderInv, EventInv
  <2> QED
    BY <2>2, <2>3
<1>10. TraceStep
  <2>1. Fate(t) # "forgotten" /\ \A u \in Threads : Fate(u)' = Fate(u)
    BY <1>f, <1>1 DEF ChainInv, TypeOK, Fate
  <2>2. \A u \in Threads \ {t} : Whole(u)' = Whole(u)
    <3> SUFFICES ASSUME NEW u \in Threads \ {t} PROVE Whole(u)' = Whole(u)
      OBVIOUS
    <3>1. ~Forgotten(u) /\ cur[u] # NoBlock => cur[u] \in Blocks \ {b}
      BY <1>4 DEF ChainInv, TypeOK, CurInv
    <3> QED
      BY <1>f, <1>4, <1>5, <3>1 DEF ChainInv, TypeOK, Open, Written, Whole
  <2>3. Whole(t) \in Nat /\ Whole(t)' \in Nat /\ Whole(t)' >= Whole(t)
    <3>1. (Open(t)' <=> Open(t)) /\ Written(t)' = Written(t) + used /\ evStart' = evStart
      BY <1>f, <1>1, <1>4 DEF ChainInv, TypeOK, RoomInv, Open, Written
    <3> QED
      BY <1>1, <3>1, WholeFacts DEF Whole, ChainInv, TypeOK
  <2> QED
    BY <1>f, <2>1, <2>2, <2>3, LogOrStutter
<1> QED
  BY <1>6, <1>7, <1>8, <1>9, <1>10 DEF OrderInv

\* What is committed of the block the worker stands at belongs to complete events: an event
\* that is open starts in it behind that, or in a later one.
LEMMA CommittedIsWhole ==
  ASSUME ChainInv, OrderInv, NEW t \in Threads, list[t] # "none"
  PROVE  base[head[t]] + committed[head[t]] <= Whole(t)
<1> DEFINE b == head[t]
<1>1. /\ cur[t] \in Blocks /\ b \in Blocks /\ Held(b) /\ owner[b] = t
      /\ base \in [Blocks -> Nat] /\ cursor \in [Blocks -> Nat] /\ committed \in [Blocks -> Nat]
      /\ \A x \in Blocks : committed[x] <= cursor[x]
  BY DEF ChainInv, TypeOK, HeadInv, BlockInv
<1>2. CASE Open(t)
  <2>1. /\ scope[t] \in Blocks /\ Held(scope[t]) /\ owner[scope[t]] = t
        /\ base[scope[t]] + committed[scope[t]] <= evStart[t]
        /\ Whole(t) = evStart[t] /\ evStart[t] \in Nat
    BY <1>2 DEF ChainInv, TypeOK, ScopeInv, OrderInv, EventInv, Whole
  <2>2. b # scope[t] => base[b] + cursor[b] <= base[scope[t]]
    BY <2>1 DEF OrderInv, FirstInv
  <2> QED
    BY <1>1, <2>1, <2>2
<1>3. CASE ~Open(t)
  <2>1. Whole(t) = base[cur[t]] + cursor[cur[t]]
    BY <1>1, <1>3, WholeFacts DEF Whole, Forgotten
  <2>2. b # cur[t] => base[b] + cursor[b] <= base[cur[t]]
    BY <1>1 DEF OrderInv, LastInv
  <2> QED
    BY <1>1, <2>1, <2>2
<1> QED
  BY <1>2, <1>3

\* What is committed and not yet sent is sent.
LEMMA DrainCommittedOrder ==
  ASSUME ChainInv, OrderInv, ~strayed, ~strayed', DrainCommitted
  PROVE  OrderInv' /\ TraceStep
<1> USE DEF DrainCommitted, blockVars, threadVars, workerVars, listVars
<1>f. /\ strayed' = strayed
      /\ \A u \in Threads : /\ Forgotten(u)' <=> Forgotten(u)
                            /\ pc[u] # "idle" => ~Forgotten(u)
                            /\ Fate(u)' = Fate(u)
  BY DEF ChainInv, TypeOK, HeadInv, WorkerInv, Fate, Forgotten
<1> DEFINE b == head[wt]
<1>0. /\ wt \in Threads /\ list[wt] # "none" /\ b \in Blocks /\ owner[b] = wt
      /\ base[b] + reaped[b] = sent[wt]
      /\ {base[b], reaped[b], committed[b], sent[wt]} \subseteq Nat
  BY DEF ChainInv, TypeOK, WorkerInv, HeadInv
<1>1. ApartInv' /\ LastInv' /\ FirstInv'
  BY RangesKept DEF ChainInv, TypeOK, Held
<1>2. EventInv'
  BY DEF ChainInv, TypeOK, OrderInv, EventInv, Held, Open, Written
<1>3. \A u \in Threads : Whole(u)' = Whole(u) /\ Fate(u)' = Fate(u)
  BY <1>0, <1>f DEF ChainInv, TypeOK, Whole, Open, Written, Forgotten
<1>4. TraceStep
  <2>1. CASE ~(committed[b] > reaped[b])
    BY <1>3, <2>1, Stutter
  <2>2. CASE committed[b] > reaped[b]
    <3>1. sent' = [sent EXCEPT ![wt] = base[b] + committed[b]]
      BY <1>0, <2>2
    <3>2. sent'[wt] > sent[wt] /\ sent'[wt] <= Whole(wt) /\ sent' = [sent EXCEPT ![wt] = sent'[wt]]
      BY <1>0, <2>2, <3>1, CommittedIsWhole DEF ChainInv, TypeOK
    <3>3. wholeBar' = wholeBar /\ fateBar' = fateBar
      BY <1>3 DEF wholeBar, fateBar
    <3>4. Trace!Send(wt)
      BY <1>0, <3>2, <3>3 DEF Trace!Send, wholeBar, fateBar
    <3> QED
      BY <1>0, <3>4 DEF TraceStep, Trace!Next
  <2> QED
    BY <2>1, <2>2
<1> QED
  BY <1>1, <1>2, <1>4 DEF OrderInv

\* A block leaves the stream, and the next is the first then; if there is none the thread has
\* ended, and all of its stream was sent.
LEMMA RetireBufferOrder ==
  ASSUME ChainInv, OrderInv, ~strayed, ~strayed', RetireBuffer
  PROVE  OrderInv' /\ TraceStep
<1> USE DEF RetireBuffer, blockVars, threadVars, workerVars, listVars
<1> DEFINE b == head[wt]
           n == next[b]
<1>0. /\ b \in Blocks /\ b # NoBlock /\ Held(b) /\ owner[b] = wt /\ wt \in Threads
      /\ cur[wt] = b => life[wt] = "ended" /\ pc[wt] = "idle"
      /\ sent[wt] = base[b] + cursor[b] /\ list[wt] = "todo"
  BY DroppedBlock
<1>1. \A x \in Blocks : Held(x)' <=> (Held(x) /\ x # b)
  BY <1>0 DEF Held, ChainInv, TypeOK
<1>2. base \in [Blocks -> Nat] /\ cursor \in [Blocks -> Nat] /\ n \in Blocks \union {NoBlock}
  BY <1>0 DEF ChainInv, TypeOK
<1>3. n = NoBlock => cur[wt] = b
  BY <1>0 DEF ChainInv, LinkInv
<1>4. ApartInv'
  BY <1>1 DEF OrderInv, ApartInv
<1>5. LastInv'
  <2> SUFFICES ASSUME NEW x \in Blocks, Held(x), x # b PROVE cur[owner[x]] # b
    BY <1>1 DEF OrderInv, LastInv
  <2>1. CASE owner[x] = wt
    <3>1. base[b] + cursor[b] <= base[x]
      BY <1>0, <2>1 DEF OrderInv, FirstInv
    <3>2. x # cur[wt] => cursor[x] > 0 /\ base[x] + cursor[x] <= base[cur[wt]]
      BY <2>1 DEF OrderInv, LastInv
    <3> QED
      BY <1>0, <1>2, <2>1, <3>1, <3>2
  <2>2. CASE owner[x] # wt
    BY <1>0, <2>2 DEF OrderInv, LastInv
  <2> QED
    BY <2>1, <2>2
<1>6. FirstInv'
  <2> SUFFICES ASSUME NEW u \in Threads, list'[u] # "none",
                      NEW x \in Blocks, Held(x), x # b, owner[x] = u, x # head'[u]
               PROVE  base[head'[u]] + cursor[head'[u]] <= base[x]
    BY <1>1 DEF FirstInv
  <2>1. CASE u # wt
    BY <1>0, <2>1 DEF ChainInv, TypeOK, OrderInv, FirstInv
  <2>2. CASE u = wt
    <3>1. n \in Blocks /\ head'[u] = n /\ x # n
      BY <1>0, <1>2, <2>2 DEF ChainInv, TypeOK
    <3>2. Held(n) /\ owner[n] = wt /\ base[n] = base[b] + cursor[b]
      BY <1>0, <3>1 DEF ChainInv, LinkInv
    <3>3. base[b] + cursor[b] <= base[x]
      BY <1>0, <2>2 DEF OrderInv, FirstInv
    <3>4. base[n] + cursor[n] <= base[x] \/ base[x] + cursor[x] <= base[n]
      BY <2>2, <3>1, <3>2 DEF OrderInv, ApartInv
    <3>5. x # cur[wt] => cursor[x] > 0
      BY <2>2 DEF OrderInv, LastInv
    <3>6. n # cur[wt] => base[n] + cursor[n] <= base[cur[wt]]
      BY <3>1, <3>2 DEF OrderInv, LastInv
    <3> QED
      BY <1>0, <1>2, <3>1, <3>2, <3>3, <3>4, <3>5, <3>6
  <2> QED
    BY <2>1, <2>2
<1>7. EventInv'
  BY DEF OrderInv, EventInv, Open
<1>8. n = NoBlock => life[wt] = "ended" /\ pc[wt] = "idle" /\ cur[wt] = b
  BY <1>0, <1>3
<1>f. strayed' = strayed
  BY Zenon DEF ChainInv, TypeOK
<1>9. TraceStep
  <2>1. CASE n # NoBlock
    <3>1. \A u \in Threads : Fate(u)' = Fate(u) /\ Whole(u)' = Whole(u)
      BY <1>0, <2>1 DEF ChainInv, TypeOK, Fate, Whole, Open, Written, Forgotten
    <3> QED
      BY <1>f, <3>1, Stutter
  <2>2. CASE n = NoBlock
    <3>1. sent[wt] = Whole(wt) /\ \A u \in Threads : Whole(u)' = Whole(u)
      BY <1>0, <1>8, <2>2 DEF ChainInv, TypeOK, Whole, Open, Written, Forgotten
    <3>2. Fate(wt) = "ended" /\ \A u \in Threads : Fate(u)' = IF u = wt THEN "forgotten" ELSE Fate(u)
      BY <1>0, <1>8, <2>2 DEF ChainInv, TypeOK, Fate, Forgotten
    <3>3. /\ wholeBar' = wholeBar /\ fateBar[wt] = "ended" /\ wholeBar[wt] = sent[wt]
          /\ fateBar' = [fateBar EXCEPT ![wt] = "forgotten"]
      BY <1>0, <3>1, <3>2 DEF wholeBar, fateBar
    <3>4. Trace!Forget(wt)
      BY <3>3 DEF Trace!Forget, wholeBar, fateBar
    <3> QED
      BY <1>0, <3>4 DEF TraceStep, Trace!Next
  <2> QED
    BY <2>1, <2>2
<1> QED
  BY <1>4, <1>5, <1>6, <1>7, <1>9 DEF OrderInv

\* The order is inductive beside ChainInv, and every step is one of TraceStream or none.
LEMMA StepKeepsOrder ==
  ChainInv /\ OrderInv /\ [Next]_vars /\ ~strayed /\ ~strayed' => OrderInv' /\ TraceStep
<1> SUFFICES ASSUME ChainInv, OrderInv, [Next]_vars, ~strayed, ~strayed' PROVE OrderInv' /\ TraceStep
  OBVIOUS
<1>1. CASE UNCHANGED vars
  <2> USE <1>1 DEF vars, blockVars, threadVars, workerVars, listVars
  <2>1. OrderInv'
    BY DEF OrderInv, ApartInv, LastInv, FirstInv, EventInv, Held, Open, Written
  <2>2. TraceStep
    BY Stutter DEF Whole, Fate, Open, Written, Forgotten
  <2> QED
    BY <2>1, <2>2
<1>2. ASSUME NEW t \in Threads, Producer(t) PROVE OrderInv' /\ TraceStep
  BY <1>2, EnterPreludeOrder, ClaimSpaceOrder, NextBufferOrder, PublishThreadOrder,
     RetireCurrentOrder, BeginAuxOrder, AuxSegmentOrder, CommitPlainOrder, CommitLatestOrder,
     CommitScopeOrder, EndThreadBufferOrder
     DEF Producer, InEvent
<1>3. CASE DrainBuffers
  BY <1>3, StartDrainOrder DEF DrainBuffers
<1>4. CASE DrainLocalBuffers
  BY <1>4, StartDrainOrder DEF DrainLocalBuffers
<1>5. CASE Drain
  BY <1>5, PickThreadOrder, DrainCommittedOrder, KeepBufferOrder, RetireBufferOrder,
     FreeRetiredOrder
     DEF Drain
<1> QED
  BY <1>1, <1>2, <1>3, <1>4, <1>5 DEF Next

\* The thread buffers and the worker's drain implement TraceStream: no part of an event is
\* sent before the event is complete, even when its array fields were committed in later
\* blocks; nothing is sent twice or out of order; and a chain that the worker drops had been
\* sent to the last byte.
THEOREM BuffersImplementTrace == Spec => ImplementsTrace
<1> DEFINE Inv == strayed \/ (ChainInv /\ OrderInv)
<1>1. Init => Inv
  BY InitStep DEF Init, OrderInv, ApartInv, LastInv, FirstInv, EventInv, Held, Open
<1>2. Init => Trace!Init
  BY DEF Init, Trace!Init, Whole, Fate, Open, Written
<1>3. Inv /\ [Next]_vars => Inv'
  BY StepPreservesChainInv, StepKeepsOrder, StrayedStays
<1>4. Inv /\ [Next]_vars => [Trace!Next]_<<wholeBar, sent, fateBar, strayed>>
  BY StepKeepsOrder, StrayedStays DEF TraceStep, Trace!Next
<1> QED
  BY <1>1, <1>2, <1>3, <1>4, PTL DEF Spec, ImplementsTrace, Trace!Spec, wholeBar, fateBar
=============================================================================
