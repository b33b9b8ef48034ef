----------------------------- MODULE TlsBuffer -----------------------------
(***************************************************************************)
(* Thread-local write buffers of TraceLog (TlsBuffer.cpp, LogScope.inl,    *)
(* Field.cpp).  Every traced thread appends events to a private chain of   *)
(* fixed-size blocks; one worker drains all chains, in place and without a *)
(* lock, and returns exhausted blocks to the pool.  Producer and worker    *)
(* meet only in three words of a block: Committed, EtxOffset and           *)
(* NextBuffer.                                                             *)
(*                                                                         *)
(* A position in a block counts bytes from the block's first data byte;    *)
(* the FWriteBuffer that ends the block starts at position Size, with its  *)
(* Overflow bytes.  The bytes themselves are abstracted to their place in  *)
(* their thread's stream: byte p of block b is byte base[b] + p of the     *)
(* stream of owner[b].                                                     *)
(* The pool is the abstract one: a set of blocks nobody uses (BlockPool    *)
(* models how the code implements it).                                     *)
(***************************************************************************)
EXTENDS Integers

CONSTANTS
  Threads,       (* traced threads                                          *)
  WorkerThread,  (* the one that also runs Writer_WorkerUpdate              *)
  Blocks,        (* blocks the pool can hand out                            *)
  NoBlock,       (* nullptr, and GNullWriteBuffer as a thread's buffer      *)
  Size,          (* FWriteBuffer::Size, data bytes of a block               *)
  Overflow,      (* sizeof(FWriteBuffer::Overflow)                          *)
  HeaderSize,    (* sizeof(FWriteBuffer), Overflow included                 *)
  AuxHeader,     (* sizeof(FAuxHeader)                                      *)
  Timing,        (* bytes of a $Trace.ThreadTiming event                    *)
  EventSizes,    (* AllocSize values of EnterPrelude: header and fields     *)
  AuxSizes,      (* payload sizes of an array or string field               *)
  Redirects,     (* bytes traced while the pool allocates memory            *)
  MaxEvents,     (* bound: [Threads -> Nat], events a thread logs           *)
  MaxFields      (* bound: aux fields of one event                          *)

ASSUME WorkerAssumption == WorkerThread \in Threads
ASSUME BlockAssumption  == NoBlock \notin Blocks
\* Field_WriteAuxData's static_assert, and "AllocSize >= Buffer->Size ... is
\* terminal" for the first event written to a fresh block.
ASSUME SizeAssumption ==
  /\ Size \in Nat /\ Overflow \in Nat /\ HeaderSize \in Nat /\ Timing \in Nat
  /\ AuxHeader \in Nat \ {0}
  /\ Overflow >= 1 + AuxHeader + 1
  /\ HeaderSize > Overflow
  /\ EventSizes \subseteq Nat \ {0} /\ EventSizes # {}
  /\ AuxSizes \subseteq Nat \ {0}
  /\ Redirects \subseteq Nat /\ Redirects # {}
  /\ \A s \in EventSizes, r \in Redirects : r + Timing + s < Size
ASSUME BoundAssumption == MaxEvents \in [Threads -> Nat] /\ MaxFields \in Nat

VARIABLES
  pool,       (* blocks free for Writer_AllocateBlockFromPool               *)
  cursor,     (* [Blocks -> position] Cursor                                *)
  committed,  (* [Blocks -> position] Committed                             *)
  reaped,     (* [Blocks -> position] Reaped                                *)
  etx,        (* [Blocks -> position] where EtxOffset points                *)
  next,       (* [Blocks -> block]    NextBuffer                            *)
  owner,      (* [Blocks -> thread]   ThreadId                              *)
  base,       (* [Blocks -> Nat]      stream position of the first byte     *)
  pc,         (* [Threads -> control state]                                 *)
  cur,        (* [Threads -> block]   GTlsWriteBuffer                       *)
  prev,       (* [Threads -> block]   CurrentBuffer of NextBufferInternal   *)
  scope,      (* [Threads -> block]   FLogScope::Buffer of the open event   *)
  resume,     (* [Threads -> where Writer_NextBuffer returns to]            *)
  need,       (* [Threads -> Nat]     AllocSize of the event being entered  *)
  mayHaveAux, (* [Threads -> BOOLEAN] Flag_MaybeHasAux of the open event    *)
  auxLeft,    (* [Threads -> Nat]     Size, what is left of the aux field   *)
  bCommit,    (* [Threads -> BOOLEAN] bCommit of Field_WriteAuxData         *)
  fields,     (* [Threads -> Nat]     aux fields written in the open event  *)
  events,     (* [Threads -> Nat]     events logged so far                  *)
  evStart,    (* [Threads -> Nat]     stream position the open event starts *)
  head,       (* [Threads -> block]   the thread's entry in a worker list   *)
  list,       (* [Threads -> list the head is in]                           *)
  life,       (* [Threads -> "live"; "ended" once ~FWriteTlsContext has run; *)
              (* "revived" when the thread took a block after that]         *)
  wpc,        (* control state of the worker                                *)
  wt,         (* thread whose chain is being drained                        *)
  seen,       (* Committed as Writer_DrainBuffer loaded it                  *)
  retired,    (* the worker's FRetireList                                   *)
  sent,       (* [Threads -> Nat] stream position after the last byte given *)
              (* to Writer_TailAppend under that thread's id                *)
  strayed     (* history: an ended thread and the worker have both used the *)
              (* block that the thread had given up                         *)

blockVars  == <<cursor, committed, reaped, etx, next, owner, base>>
threadVars == <<pc, cur, prev, scope, resume, need, mayHaveAux, auxLeft,
                bCommit, fields, events, evStart>>
workerVars == <<wpc, wt, seen, retired, sent>>
listVars   == <<head, list>>
vars == <<pool, blockVars, threadVars, life, listVars, workerVars, strayed>>

InUse     == Size + HeaderSize      \* EtxOffset of a block not yet retired

\* The worker has drained the chain of a thread that has ended, and has dropped
\* the thread; cur[t] still points at the chain's last block.
Forgotten(t) ==
  life[t] = "ended" /\ pc[t] = "idle" /\ cur[t] # NoBlock /\ list[t] = "none"

\* Length of the stream t has written.
Written(t) == IF Forgotten(t) THEN sent[t]
              ELSE IF cur[t] = NoBlock THEN 0 ELSE base[cur[t]] + cursor[cur[t]]

Init ==
  /\ pool = Blocks
  /\ cursor = [b \in Blocks |-> 0] /\ committed = [b \in Blocks |-> 0]
  /\ reaped = [b \in Blocks |-> 0] /\ etx = [b \in Blocks |-> InUse]
  /\ next = [b \in Blocks |-> NoBlock]
  /\ owner = [b \in Blocks |-> WorkerThread]
  /\ base = [b \in Blocks |-> 0]
  /\ pc = [t \in Threads |-> "idle"]
  /\ cur = [t \in Threads |-> NoBlock] /\ prev = [t \in Threads |-> NoBlock]
  /\ scope = [t \in Threads |-> NoBlock]
  /\ resume = [t \in Threads |-> "claim"]
  /\ need = [t \in Threads |-> 0] /\ auxLeft = [t \in Threads |-> 0]
  /\ mayHaveAux = [t \in Threads |-> FALSE]
  /\ bCommit = [t \in Threads |-> FALSE]
  /\ fields = [t \in Threads |-> 0] /\ events = [t \in Threads |-> 0]
  /\ evStart = [t \in Threads |-> 0]
  /\ head = [t \in Threads |-> NoBlock] /\ list = [t \in Threads |-> "none"]
  /\ wpc = "idle" /\ wt = WorkerThread /\ seen = 0 /\ retired = {}
  /\ sent = [t \in Threads |-> 0]
  /\ life = [t \in Threads |-> "live"] /\ strayed = FALSE

\* The worker's own thread logs events too, but not while it is inside a drain.
Running(t) == t = WorkerThread => wpc = "idle"

At(t, where) == pc[t] = where /\ Running(t)

(***************************************************************************)
(* Slips: what a definition below would be with a likely mistake in the    *)
(* code.  Each breaks a property; the specification uses none of them.     *)
(***************************************************************************)
\* Tests the cursor before AllocSize is added to it.
FitsSlip(t, size) == cur[t] # NoBlock /\ cursor[cur[t]] <= Size

\* Ends the block at what is committed of it.
RetireCurrentSlip(t) ==
  /\ At(t, "retire")
  /\ etx' = [etx EXCEPT ![prev[t]] = committed[prev[t]]]
  /\ pc' = [pc EXCEPT ![t] = resume[t]]
  /\ UNCHANGED <<pool, cursor, committed, reaped, next, owner, base, cur, prev,
                 scope, resume, need, mayHaveAux, auxLeft, bCommit, fields,
                 events, evStart, life, listVars, workerVars, strayed>>

\* Commits aux data in the block the open event started in.
BeginAuxSlip(t, n) ==
  LET full == cursor[cur[t]] >= Size IN
  /\ At(t, "scope")
  /\ mayHaveAux[t]
  /\ fields[t] < MaxFields
  /\ fields' = [fields EXCEPT ![t] = @ + 1]
  /\ auxLeft' = [auxLeft EXCEPT ![t] = n]
  /\ bCommit' = [bCommit EXCEPT ![t] = TRUE]
  /\ resume' = [resume EXCEPT ![t] = "segment"]
  /\ pc' = [pc EXCEPT ![t] = IF full THEN "next" ELSE "segment"]
  /\ UNCHANGED <<pool, blockVars, cur, prev, scope, need, mayHaveAux, events,
                 evStart, life, listVars, workerVars, strayed>>

\* Leaves no room for the terminal byte.
PayloadRoomSlip(b) == Size - cursor[b] + Overflow - AuxHeader

\* Ends the thread without giving up its block.
EndThreadBufferSlip(t) ==
  /\ t # WorkerThread
  /\ pc[t] = "idle" /\ life[t] = "live"
  /\ life' = [life EXCEPT ![t] = "ended"]
  /\ UNCHANGED <<pool, blockVars, threadVars, listVars, workerVars, strayed>>

\* Sends without advancing Reaped.
DrainCommittedSlip ==
  LET b == head[wt] IN
  /\ wpc = "read"
  /\ seen' = committed[b]
  /\ sent' = IF committed[b] > reaped[b]
             THEN [sent EXCEPT ![owner[b]] = base[b] + committed[b]]
             ELSE sent
  /\ wpc' = "check"
  /\ UNCHANGED <<pool, blockVars, threadVars, life, listVars, wt, retired,
                 strayed>>

\* Does not put a thread that is still tracing back on the active list.
KeepBufferSlip ==
  /\ wpc = "check"
  /\ etx[head[wt]] > seen
  /\ list' = [list EXCEPT ![wt] = "none"]
  /\ wpc' = "pick"
  /\ UNCHANGED <<pool, blockVars, threadVars, life, head, wt, seen, retired,
                 sent, strayed>>

(***************************************************************************)
(* Producer: one event, from EnterPrelude to the commit.                   *)
(***************************************************************************)
\* GNullWriteBuffer has Cursor = its own address, so nothing fits in it.
Fits(t, size) == cur[t] # NoBlock /\ cursor[cur[t]] + size <= Size

EnterPrelude(t, size, aux) ==
  /\ At(t, "idle")
  /\ events[t] < MaxEvents[t]
  /\ need' = [need EXCEPT ![t] = size]
  /\ mayHaveAux' = [mayHaveAux EXCEPT ![t] = aux]
  /\ events' = [events EXCEPT ![t] = @ + 1]
  /\ fields' = [fields EXCEPT ![t] = 0]
  /\ resume' = [resume EXCEPT ![t] = "claim"]
  /\ pc' = [pc EXCEPT ![t] = IF Fits(t, size) THEN "claim" ELSE "next"]
  /\ strayed' = (strayed \/ Forgotten(t))
  /\ UNCHANGED <<pool, blockVars, cur, prev, scope, auxLeft, bCommit, evStart,
                 life, listVars, workerVars>>

\* "Ptr = Buffer->Cursor + sizeof(HeaderType); Buffer->Cursor += AllocSize"
ClaimSpace(t) ==
  /\ At(t, "claim")
  /\ scope' = [scope EXCEPT ![t] = cur[t]]
  /\ evStart' = [evStart EXCEPT ![t] = Written(t)]
  /\ cursor' = [cursor EXCEPT ![cur[t]] = @ + need[t]]
  /\ pc' = [pc EXCEPT ![t] = "scope"]
  /\ UNCHANGED <<pool, committed, reaped, etx, next, owner, base, cur, prev,
                 resume, need, mayHaveAux, auxLeft, bCommit, fields, events,
                 life, listVars, workerVars, strayed>>

\* Writer_NextBufferInternal up to the point where the worker could notice:
\* take block b, reset it, copy the r bytes traced meanwhile into it.  A first
\* block also gets its ThreadTiming event; any other is linked to its
\* predecessor.
NextBuffer(t, b, r) ==
  LET first == cur[t] = NoBlock
      used  == IF first THEN r + Timing ELSE r
  IN
  /\ At(t, "next")
  /\ b \in pool
  /\ pool' = pool \ {b}
  /\ cursor' = [cursor EXCEPT ![b] = used]
  /\ committed' = [committed EXCEPT ![b] = used]
  /\ reaped' = [reaped EXCEPT ![b] = 0]
  /\ etx' = [etx EXCEPT ![b] = InUse]
  /\ owner' = [owner EXCEPT ![b] = t]
  /\ base' = [base EXCEPT ![b] = Written(t)]
  /\ next' = [x \in Blocks |-> IF x = b THEN NoBlock
                               ELSE IF x = cur[t] THEN b ELSE next[x]]
  /\ prev' = [prev EXCEPT ![t] = cur[t]]
  /\ cur' = [cur EXCEPT ![t] = b]
  /\ pc' = [pc EXCEPT ![t] = IF first THEN "publish" ELSE "retire"]
  /\ life' = [life EXCEPT ![t] = IF @ = "live" THEN "live" ELSE "revived"]
  /\ UNCHANGED <<scope, resume, need, mayHaveAux, auxLeft, bCommit, fields,
                 events, evStart, listVars, workerVars, strayed>>

\* "Add this next buffer to the active list": the compare-exchange loop on
\* GNewThreadList takes effect in one step.
PublishThread(t) ==
  /\ At(t, "publish")
  /\ head' = [head EXCEPT ![t] = cur[t]]
  /\ list' = [list EXCEPT ![t] = "new"]
  /\ pc' = [pc EXCEPT ![t] = resume[t]]
  /\ UNCHANGED <<pool, blockVars, cur, prev, scope, resume, need, mayHaveAux,
                 auxLeft, bCommit, fields, events, evStart, life, workerVars,
                 strayed>>

\* "Retire current buffer": the release store of EtxOffset.
RetireCurrent(t) ==
  /\ At(t, "retire")
  /\ etx' = [etx EXCEPT ![prev[t]] = cursor[prev[t]]]
  /\ pc' = [pc EXCEPT ![t] = resume[t]]
  /\ UNCHANGED <<pool, cursor, committed, reaped, next, owner, base, cur, prev,
                 scope, resume, need, mayHaveAux, auxLeft, bCommit, fields,
                 events, evStart, life, listVars, workerVars, strayed>>

(***************************************************************************)
(* Field_WriteAuxData: an array field follows its event, across as many    *)
(* blocks as it takes.  The NextBuffer lambda commits the block it leaves  *)
(* unless that is the block the open event started in.                     *)
(***************************************************************************)
BeginAux(t, n) ==
  LET b == cur[t] full == cursor[b] >= Size commit == cursor[b] = committed[b]
  IN
  /\ At(t, "scope")
  /\ mayHaveAux[t]
  /\ fields[t] < MaxFields
  /\ fields' = [fields EXCEPT ![t] = @ + 1]
  /\ auxLeft' = [auxLeft EXCEPT ![t] = n]
  /\ bCommit' = [bCommit EXCEPT ![t] = full \/ commit]
  /\ resume' = [resume EXCEPT ![t] = "segment"]
  /\ pc' = [pc EXCEPT ![t] = IF full THEN "next" ELSE "segment"]
  /\ UNCHANGED <<pool, blockVars, cur, prev, scope, need, mayHaveAux, events,
                 evStart, life, listVars, workerVars, strayed>>

Lesser(x, y) == IF x < y THEN x ELSE y

\* Room for payload once the aux header and the terminal byte are set aside.
PayloadRoom(b) == Size - cursor[b] + Overflow - 1 - AuxHeader

AuxSegment(t) ==
  LET b   == cur[t]
      seg == Lesser(PayloadRoom(b), auxLeft[t])
      end == cursor[b] + AuxHeader + seg
  IN
  /\ At(t, "segment")
  /\ cursor' = [cursor EXCEPT ![b] = end]
  /\ committed' = [committed EXCEPT ![b] = IF bCommit[t] THEN end ELSE @]
  /\ auxLeft' = [auxLeft EXCEPT ![t] = @ - seg]
  /\ bCommit' = [bCommit EXCEPT ![t] = @ \/ seg < auxLeft[t]]
  /\ pc' = [pc EXCEPT ![t] = IF seg < auxLeft[t] THEN "next" ELSE "scope"]
  /\ UNCHANGED <<pool, reaped, etx, next, owner, base, cur, prev, scope,
                 resume, need, mayHaveAux, fields, events, evStart, life,
                 listVars, workerVars, strayed>>

(***************************************************************************)
(* operator +=: an event without aux data commits its block; one that may  *)
(* have aux data writes the terminal byte, commits the latest block and    *)
(* only then the block the event started in.                               *)
(***************************************************************************)
CommitPlain(t) ==
  /\ At(t, "scope")
  /\ ~mayHaveAux[t]
  /\ committed' = [committed EXCEPT ![scope[t]] = cursor[scope[t]]]
  /\ pc' = [pc EXCEPT ![t] = "idle"]
  /\ UNCHANGED <<pool, cursor, reaped, etx, next, owner, base, cur, prev,
                 scope, resume, need, mayHaveAux, auxLeft, bCommit, fields,
                 events, evStart, life, listVars, workerVars, strayed>>

CommitLatest(t) ==
  LET b == cur[t] end == cursor[b] + 1 IN
  /\ At(t, "scope")
  /\ mayHaveAux[t]
  /\ cursor' = [cursor EXCEPT ![b] = end]
  /\ committed' = [committed EXCEPT ![b] = end]
  /\ pc' = [pc EXCEPT ![t] = IF b = scope[t] THEN "idle" ELSE "commit"]
  /\ UNCHANGED <<pool, reaped, etx, next, owner, base, cur, prev, scope,
                 resume, need, mayHaveAux, auxLeft, bCommit, fields, events,
                 evStart, life, listVars, workerVars, strayed>>

CommitScope(t) ==
  /\ At(t, "commit")
  /\ committed' = [committed EXCEPT ![scope[t]] = cursor[scope[t]]]
  /\ pc' = [pc EXCEPT ![t] = "idle"]
  /\ UNCHANGED <<pool, cursor, reaped, etx, next, owner, base, cur, prev,
                 scope, resume, need, mayHaveAux, auxLeft, bCommit, fields,
                 events, evStart, life, listVars, workerVars, strayed>>

\* ~FWriteTlsContext: the thread ends and gives up its last block.  It keeps its
\* pointer to the block, and destructors that run later (~FThreadBuffer of
\* TraceAuxiliary.cpp, the scopes of other thread-locals) may log more events.
EndThreadBuffer(t) ==
  /\ t # WorkerThread
  /\ pc[t] = "idle" /\ life[t] = "live"
  /\ life' = [life EXCEPT ![t] = "ended"]
  /\ etx' = [b \in Blocks |-> IF b = cur[t] THEN cursor[b] ELSE etx[b]]
  /\ UNCHANGED <<pool, cursor, committed, reaped, next, owner, base, threadVars,
                 listVars, workerVars, strayed>>

(***************************************************************************)
(* Worker.  The order of the threads in GActiveThreadList and in the       *)
(* claimed GNewThreadList is left open.                                    *)
(***************************************************************************)
StartDrain(todo) ==
  /\ wpc = "idle"
  /\ pc[WorkerThread] = "idle"
  /\ list' = [t \in Threads |-> IF t \in todo THEN "todo" ELSE list[t]]
  /\ wpc' = "pick"
  /\ UNCHANGED <<pool, blockVars, threadVars, life, head, wt, seen, retired,
                 sent, strayed>>

DrainBuffers == StartDrain({t \in Threads : list[t] \in {"new", "active"}})

\* Only the worker's own buffers, and only once they are in GActiveThreadList.
DrainLocalBuffers ==
  /\ cur[WorkerThread] # NoBlock
  /\ StartDrain({t \in {WorkerThread} : list[t] = "active"})

PickThread(t) ==
  /\ wpc = "pick"
  /\ list[t] = "todo"
  /\ wt' = t
  /\ wpc' = "read"
  /\ UNCHANGED <<pool, blockVars, threadVars, life, listVars, seen, retired,
                 sent, strayed>>

\* Writer_DrainBuffer, first half: load Committed and send [Reaped, Committed)
\* under the block's ThreadId.
DrainCommitted ==
  LET b == head[wt] IN
  /\ wpc = "read"
  /\ seen' = committed[b]
  /\ sent' = IF committed[b] > reaped[b]
             THEN [sent EXCEPT ![owner[b]] = base[b] + committed[b]]
             ELSE sent
  /\ reaped' = [reaped EXCEPT ![b] = committed[b]]
  /\ wpc' = "check"
  /\ UNCHANGED <<pool, cursor, committed, etx, next, owner, base, threadVars,
                 life, listVars, wt, retired, strayed>>

\* Second half: load EtxOffset.  The block is still in use ...
KeepBuffer ==
  /\ wpc = "check"
  /\ etx[head[wt]] > seen
  /\ list' = [list EXCEPT ![wt] = "active"]
  /\ wpc' = "pick"
  /\ UNCHANGED <<pool, blockVars, threadVars, life, head, wt, seen, retired,
                 sent, strayed>>

\* ... or exhausted: go on with the thread's next block, if it has one.
RetireBuffer ==
  LET b == head[wt]
      last == next[b] = NoBlock
      \* wt has ended and is at b: in an event, or with one not seen, or linking b
      used == \/ cur[wt] = b /\ (pc[wt] # "idle" \/ committed[b] # seen)
              \/ prev[wt] = b /\ pc[wt] = "retire"
  IN
  /\ wpc = "check"
  /\ ~(etx[b] > seen)
  /\ retired' = retired \union {b}
  /\ head' = [head EXCEPT ![wt] = next[b]]
  /\ list' = [list EXCEPT ![wt] = IF last THEN "none" ELSE "todo"]
  /\ wpc' = IF last THEN "pick" ELSE "read"
  /\ strayed' = (strayed \/ (life[wt] # "live" /\ used))
  /\ UNCHANGED <<pool, blockVars, threadVars, life, wt, seen, sent>>

\* Writer_FreeBlockListToPool
FreeRetired ==
  /\ wpc = "pick"
  /\ \A t \in Threads : list[t] # "todo"
  /\ pool' = pool \union retired
  /\ retired' = {}
  /\ wpc' = "idle"
  /\ UNCHANGED <<blockVars, threadVars, life, listVars, wt, seen, sent,
                 strayed>>

---------------------------------------------------------------------------
InEvent(t) ==
  \/ ClaimSpace(t)
  \/ \E b \in Blocks, r \in Redirects : NextBuffer(t, b, r)
  \/ PublishThread(t)
  \/ RetireCurrent(t)
  \/ AuxSegment(t)
  \/ CommitPlain(t)
  \/ CommitLatest(t)
  \/ CommitScope(t)

Producer(t) ==
  \/ \E s \in EventSizes, aux \in BOOLEAN : EnterPrelude(t, s, aux)
  \/ \E n \in AuxSizes : BeginAux(t, n)
  \/ InEvent(t)
  \/ EndThreadBuffer(t)

Drain ==
  \/ \E t \in Threads : PickThread(t)
  \/ DrainCommitted
  \/ KeepBuffer
  \/ RetireBuffer
  \/ FreeRetired

Next ==
  \/ \E t \in Threads : Producer(t)
  \/ DrainBuffers
  \/ DrainLocalBuffers
  \/ Drain

Spec == Init /\ [][Next]_vars

\* The worker thread loops for ever, and a thread that has opened an event runs
\* on to its commit; nothing makes a thread log or end.  DrainBuffers needs
\* strong fairness: its guard is off during the worker's own events and local
\* drains, which the worker loop comes back from.
Fairness ==
  /\ \A t \in Threads : WF_vars(InEvent(t))
  /\ WF_vars(Drain)
  /\ SF_vars(DrainBuffers)

FairSpec == Spec /\ Fairness

---------------------------------------------------------------------------
ThreadStates == {"idle", "claim", "next", "publish", "retire", "scope",
                 "segment", "commit"}

\* Every variable keeps its type.
TypeOK ==
  /\ pool \subseteq Blocks /\ retired \subseteq Blocks
  /\ cursor \in [Blocks -> Nat] /\ committed \in [Blocks -> Nat]
  /\ reaped \in [Blocks -> Nat] /\ etx \in [Blocks -> Nat]
  /\ next \in [Blocks -> Blocks \union {NoBlock}]
  /\ owner \in [Blocks -> Threads] /\ base \in [Blocks -> Nat]
  /\ pc \in [Threads -> ThreadStates]
  /\ cur \in [Threads -> Blocks \union {NoBlock}]
  /\ prev \in [Threads -> Blocks \union {NoBlock}]
  /\ scope \in [Threads -> Blocks \union {NoBlock}]
  /\ resume \in [Threads -> {"claim", "segment"}]
  /\ need \in [Threads -> Nat] /\ auxLeft \in [Threads -> Nat]
  /\ mayHaveAux \in [Threads -> BOOLEAN] /\ bCommit \in [Threads -> BOOLEAN]
  /\ fields \in [Threads -> Nat] /\ events \in [Threads -> Nat]
  /\ evStart \in [Threads -> Nat]
  /\ life \in [Threads -> {"live", "ended", "revived"}]
  /\ head \in [Threads -> Blocks \union {NoBlock}]
  /\ list \in [Threads -> {"none", "new", "active", "todo"}]
  /\ wpc \in {"idle", "pick", "read", "check"}
  /\ wt \in Threads /\ seen \in Nat
  /\ sent \in [Threads -> Nat]
  /\ strayed \in BOOLEAN

\* Writes never run past the Overflow bytes into Committed, Reaped and the other
\* fields of the block's own FWriteBuffer, however aux segments and terminal
\* bytes fall on the block's end (Field.cpp's "Buffers have a small overflow").
NoOverrun == strayed \/ \A b \in Blocks : cursor[b] <= Size + Overflow

\* t may write to its buffer: it is logging, or it has not given the buffer up.
Writing(t) == pc[t] # "idle" \/ life[t] # "ended"

\* A block has one user: the pool, the worker's retire list, or the thread whose
\* chain it is in.  In particular a thread's write buffer and the block its open
\* event started in are never recycled under it.  This counts the events of a
\* thread that has ended, and it is these that break it: the destructor of
\* FThreadBuffer logs into a block that the worker has taken back.
SoleUse ==
  /\ pool \intersect retired = {}
  /\ \A t \in Threads : Writing(t) =>
       /\ cur[t] \notin pool \union retired
       /\ pc[t] \in {"scope", "segment", "commit"} => scope[t] \notin pool \union retired
  /\ \A t, u \in Threads :
       cur[t] = cur[u] /\ cur[t] # NoBlock /\ Writing(t) /\ Writing(u) => t = u

\* Nothing else breaks it: a block has one user whoever ends when, and whatever
\* is logged after the end, until the worker takes a block back of a thread that
\* is late with an event, or such a thread begins one in a block taken back.
SoleUseUnlessStrayed == strayed \/ SoleUse

\* The worker sends each thread's bytes once each and in order: what it will
\* read next in a thread's oldest block is what follows the last byte sent.
StreamInOrder ==
  strayed \/ \A t \in Threads : list[t] # "none" =>
                base[head[t]] + reaped[head[t]] = sent[t]

\* t is between the header of an event and its last commit.
Open(t) == \/ pc[t] \in {"scope", "segment", "commit"}
           \/ pc[t] \in {"next", "retire"} /\ resume[t] = "segment"

\* The stream up to the last complete event, and what has become of the thread.
Whole(t) == IF Open(t) THEN evStart[t] ELSE Written(t)
Fate(t)  == IF life[t] = "live" THEN "live"
            ELSE IF Forgotten(t) THEN "forgotten" ELSE "ended"

Trace == INSTANCE TraceStream WITH Threads <- Threads, sent <- sent,
           whole <- [t \in Threads |-> Whole(t)], life <- [t \in Threads |-> Fate(t)],
           broken <- strayed

\* The buffers and the drain are what TraceStream promises: no part of an event is
\* sent before the event is complete, even when its aux data has already been
\* committed in later blocks; nothing is sent twice or out of order; and a chain
\* that the worker drops had been sent to the last byte, what its thread logged
\* after it had ended included.
ImplementsTrace == Trace!Spec

\* What a thread has logged completely is sent, whoever else is tracing, and
\* also if the thread has logged it after it had ended and before it was dropped.
EventuallySent ==
  \A t \in Threads : \A k \in 1 .. MaxEvents[t] :
     (events[t] = k /\ pc[t] = "idle") ~>
        (events[t] > k \/ sent[t] = Written(t) \/ strayed)

\* The chain of a thread that has ended is reclaimed, unless the thread takes
\* another block afterwards, which nobody will ever give up.
EventuallyReclaimed ==
  \A t \in Threads : life[t] = "ended" ~>
     \/ list[t] = "none" /\ retired = {}
     \/ life[t] = "revived" \/ strayed
=============================================================================
