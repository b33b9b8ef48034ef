-------------------------- MODULE CallstackTracer ---------------------------
(***************************************************************************)
(* Call stacks of traced allocations (Backtracer.cpp): threads that        *)
(* allocate share the set of stacks seen so far.  A stack is known by its  *)
(* hash; the first thread to meet it takes an id from a counter, adds it   *)
(* to the set and logs its frames, and everyone logs allocations with the  *)
(* id found in the set.                                                    *)
(*                                                                         *)
(* The set is looked up without a lock while others insert, grow and       *)
(* reserve it.  A table that is replaced stays as it is, so a thread that  *)
(* is still reading it only misses what came later; a probe is one step,   *)
(* that of its last load, since the entries it passes never change.        *)
(***************************************************************************)
EXTENDS LockFreeHash, Sequences

CONSTANTS
  Threads,       \* threads that allocate memory
  Hashes,        \* hashes of their call stacks
  ReserveCount,  \* InitialReserveCount
  DefaultSize,   \* DEFAULT_INITIAL_SIZE
  MaxCalls,      \* bound: allocations of a thread
  MaxToggles     \* bound: switches of a channel

NoThread == "nobody"

ASSUME TracerAssumption ==
  /\ NoThread \notin Threads
  /\ Hashes \subseteq Nat
  /\ ReserveCount \in Nat \ {0, 1} /\ \E n \in 1 .. ReserveCount : ReserveCount = 2^n
  /\ DefaultSize \in Nat \ {0, 1} /\ \E n \in 1 .. DefaultSize : DefaultSize = 2^n
  /\ MaxCalls \in Nat /\ MaxToggles \in Nat

Channels == {"callstack", "memalloc"}

VARIABLES
  instance,  \* FBacktracer::Instance: "none", "published", "built"
  getLock,   \* holder of __lock
  tables,    \* tables made so far, the last one is HashTable
  lock,      \* holder of WriteCriticalSection
  taken,     \* the stacks that took an id: CallstackIdCounter = Len(taken) + 1
  channel,   \* [Channels -> BOOLEAN] IsEnabled
  pc,        \* [Threads -> control state]
  key,       \* [Threads -> Nat] Hash
  seen,      \* [Threads -> Nat] HashTableLocal, as its place in tables; 0 for null
  index,     \* [Threads -> Nat] TableIndex of HashInsertInternal
  id,        \* [Threads -> Nat] Id
  calls,     \* [Threads -> Nat] allocations made
  toggles,   \* channels switched
  known,     \* history: stacks for which an Emplace has returned
  late,      \* history: Reserve replaced a table
  specs,     \* CallstackSpec events logged: stack and id
  skipped,   \* history: ids whose CallstackSpec met a disabled channel
  allocs     \* allocations logged: stack and id

setVars    == <<tables, lock, known, late>>
callVars   == <<key, calls>>
findVars   == <<seen, index>>
outputVars == <<specs, skipped, allocs>>
tracerVars == <<instance, getLock, setVars, taken, channel, pc, callVars, findVars, id, toggles,
          outputVars>>

\* utrace_mem_init has found the channel of allocations enabled.
TracerInit ==
  /\ instance = "none" /\ getLock = NoThread
  /\ tables = <<>> /\ lock = NoThread /\ taken = <<>>
  /\ channel \in {c \in [Channels -> BOOLEAN] : c["memalloc"]}
  /\ pc = [t \in Threads |-> "idle"] /\ key = [t \in Threads |-> NoKey]
  /\ seen = [t \in Threads |-> 0] /\ index = [t \in Threads |-> 0]
  /\ id = [t \in Threads |-> 0]
  /\ calls = [t \in Threads |-> 0] /\ toggles = 0
  /\ known = {} /\ late = FALSE
  /\ specs = {} /\ skipped = {} /\ allocs = {}

(***************************************************************************)
(* Helpers.                                                                *)
(***************************************************************************)
HashTable == tables[Len(tables)]
InTable(n, k) == n # 0 /\ Holds(tables[n], k)

Go(t, step) == pc' = [pc EXCEPT ![t] = step]

\* 0 stands for an empty entry.
StackKey(hash) == IF hash > 1 THEN hash ELSE 1

\* The table an insertion goes to, grown if there is no room.
Roomy ==
  IF tables = <<>> THEN <<EmptyTable(DefaultSize)>>
  ELSE IF MustGrow(HashTable) THEN Append(tables, Grown(HashTable)) ELSE tables

(***************************************************************************)
(* Slips.                                                                  *)
(***************************************************************************)
\* Leaves the description to the thread that was first, but keeps its own id.
EmplaceQuiet(t) ==
  /\ pc[t] = "emplace" /\ lock = NoThread
  /\ IF InTable(Len(tables), key[t])
     THEN /\ known' = known \union {key[t]} /\ Go(t, "trace")
          /\ UNCHANGED <<lock, tables>>
     ELSE /\ lock' = t /\ tables' = Roomy /\ Go(t, "insert")
          /\ UNCHANGED known
  /\ UNCHANGED <<instance, getLock, late, taken, channel, callVars, findVars, id, toggles,
                 outputVars>>

(***************************************************************************)
(* FBacktracer::Get.                                                       *)
(***************************************************************************)
\* utrace_mem_alloc: a thread with this call stack has allocated memory.
BeginAlloc(t, hash) ==
  /\ pc[t] = "idle" /\ calls[t] < MaxCalls
  /\ calls' = [calls EXCEPT ![t] = @ + 1]
  /\ key' = [key EXCEPT ![t] = StackKey(hash)]
  /\ Go(t, "get")
  /\ UNCHANGED <<instance, getLock, setVars, taken, channel, findVars, id, toggles, outputVars>>

\* The first test of Instance, without a lock.  Whoever finds an instance whose
\* constructor has not come to CallstackTracer uses a pointer that was never set.
GetInstance(t) ==
  /\ pc[t] = "get"
  /\ Go(t, CASE instance = "none"      -> "lock"
             [] instance = "published" -> "undefined"
             [] instance = "built"     -> "find")
  /\ UNCHANGED <<instance, getLock, setVars, taken, channel, callVars, findVars, id, toggles,
                 outputVars>>

\* The second one, under the lock, and the constructor up to Instance = this.
PublishInstance(t) ==
  /\ pc[t] = "lock" /\ getLock = NoThread
  /\ IF instance = "none"
     THEN instance' = "published" /\ getLock' = t /\ Go(t, "construct")
     ELSE Go(t, "find") /\ UNCHANGED <<instance, getLock>>
  /\ UNCHANGED <<setVars, taken, channel, callVars, findVars, id, toggles, outputVars>>

\* The rest of the constructor, and the unlock.
BuildTracer(t) ==
  /\ pc[t] = "construct"
  /\ instance' = "built" /\ getLock' = NoThread /\ Go(t, "find")
  /\ UNCHANGED <<setVars, taken, channel, callVars, findVars, id, toggles, outputVars>>

(***************************************************************************)
(* FCallstackTracer::AddCallstack.                                         *)
(***************************************************************************)
\* Find: the load of HashTable.
LoadTable(t) ==
  /\ pc[t] = "find"
  /\ seen' = [seen EXCEPT ![t] = Len(tables)]
  /\ Go(t, "probe")
  /\ UNCHANGED <<instance, getLock, setVars, taken, channel, callVars, index, id, toggles,
                 outputVars>>

\* Find: the loop.
ProbeTable(t) ==
  /\ pc[t] = "probe"
  /\ seen[t] # 0 => Stops(tables[seen[t]], key[t]) # {}
  /\ IF InTable(seen[t], key[t])
     THEN id' = [id EXCEPT ![t] = ValueOf(tables[seen[t]], key[t])] /\ Go(t, "trace")
     ELSE Go(t, "new") /\ UNCHANGED id
  /\ UNCHANGED <<instance, getLock, setVars, taken, channel, callVars, findVars, toggles,
                 outputVars>>

\* The fetch_add, and where its result leads: the first id reserves memory, one
\* that is too large is returned as 0.
TakeId(t) ==
  LET new == Len(taken) + 1
  IN /\ pc[t] = "new"
     /\ taken' = Append(taken, key[t])
     /\ id' = [id EXCEPT ![t] = IF new >= ReserveCount THEN 0 ELSE new]
     /\ Go(t, CASE new = 1 -> "reserve"
                [] new # 1 /\ new < ReserveCount -> "emplace"
                [] new # 1 /\ new >= ReserveCount -> "trace")
     /\ UNCHANGED <<instance, getLock, setVars, channel, callVars, findVars, toggles,
                    outputVars>>

\* Reserve.  Where assertions are compiled out it replaces the table, if there is one.
Reserve(t) ==
  /\ pc[t] = "reserve" /\ lock = NoThread
  /\ tables' = Append(tables, EmptyTable(ReserveCount))
  /\ late' = (late \/ tables # <<>>)
  /\ Go(t, "emplace")
  /\ UNCHANGED <<instance, getLock, lock, known, taken, channel, callVars, findVars, id,
                 toggles, outputVars>>

\* Emplace up to the insertion: look again, make room.
Emplace(t) ==
  /\ pc[t] = "emplace" /\ lock = NoThread
  /\ IF InTable(Len(tables), key[t])
     THEN /\ known' = known \union {key[t]} /\ Go(t, "spec")
          /\ UNCHANGED <<lock, tables>>
     ELSE /\ lock' = t /\ tables' = Roomy /\ Go(t, "insert")
          /\ UNCHANGED known
  /\ UNCHANGED <<instance, getLock, late, taken, channel, callVars, findVars, id, toggles,
                 outputVars>>

\* HashInsertInternal up to the first store of SetKeyValue that others see.  In the
\* code that is Value's, but nothing orders the relaxed store of Key after it.
StoreFirst(t) ==
  LET n == Len(tables) e == FreeEntry(HashTable, key[t])
  IN /\ pc[t] = "insert"
     /\ index' = [index EXCEPT ![t] = e]
     /\ \/ tables' = [tables EXCEPT ![n].entry[e].value = id[t]] /\ Go(t, "key")
        \/ tables' = [tables EXCEPT ![n].entry[e].key = key[t]] /\ Go(t, "value")
     /\ UNCHANGED <<instance, getLock, lock, known, late, taken, channel, callVars, seen, id,
                    toggles, outputVars>>

\* The other store, the count and the unlock.
StoreSecond(t) ==
  LET n == Len(tables)
  IN /\ pc[t] \in {"key", "value"}
     /\ tables' = [tables EXCEPT ![n] =
          [used  |-> @.used + 1,
           entry |-> [@.entry EXCEPT ![index[t]] = [key |-> key[t], value |-> id[t]]]]]
     /\ known' = known \union {key[t]}
     /\ index' = [index EXCEPT ![t] = 0]
     /\ lock' = NoThread /\ Go(t, "spec")
     /\ UNCHANGED <<instance, getLock, late, taken, channel, callVars, seen, id, toggles,
                    outputVars>>

\* The frames, if somebody listens to them.
LogSpec(t) ==
  /\ pc[t] = "spec"
  /\ IF channel["callstack"]
     THEN specs' = specs \union {<<key[t], id[t]>>} /\ UNCHANGED skipped
     ELSE skipped' = skipped \union {id[t]} /\ UNCHANGED specs
  /\ Go(t, "trace")
  /\ UNCHANGED <<instance, getLock, setVars, taken, channel, callVars, findVars, id, toggles,
                 allocs>>

\* utrace_mem_alloc_with_callstack: the allocation itself.
LogAlloc(t) ==
  /\ pc[t] = "trace"
  /\ allocs' = IF channel["memalloc"] THEN allocs \union {<<key[t], id[t]>>} ELSE allocs
  /\ key' = [key EXCEPT ![t] = NoKey]
  /\ seen' = [seen EXCEPT ![t] = 0]
  /\ id' = [id EXCEPT ![t] = 0]
  /\ Go(t, "idle")
  /\ UNCHANGED <<instance, getLock, setVars, taken, channel, calls, index, toggles, specs,
                 skipped>>

\* FChannel::Toggle, by the program or by a client.
Toggle(c) ==
  /\ toggles < MaxToggles
  /\ toggles' = toggles + 1
  /\ channel' = [channel EXCEPT ![c] = ~@]
  /\ UNCHANGED <<instance, getLock, setVars, taken, pc, callVars, findVars, id, outputVars>>

TracerNext ==
  \/ \E t \in Threads :
       \/ \E h \in Hashes : BeginAlloc(t, h)
       \/ GetInstance(t) \/ PublishInstance(t) \/ BuildTracer(t)
       \/ LoadTable(t) \/ ProbeTable(t) \/ TakeId(t) \/ Reserve(t)
       \/ Emplace(t) \/ StoreFirst(t) \/ StoreSecond(t) \/ LogSpec(t) \/ LogAlloc(t)
  \/ \E c \in Channels : Toggle(c)

TracerSpec == TracerInit /\ [][TracerNext]_tracerVars

(***************************************************************************)
(* Properties.                                                             *)
(***************************************************************************)
\* An id never stands for two stacks: what is logged under an id is the stack that
\* took it from the counter, however the thread came by it - its own, or read from
\* a table that others grow and fill.  0 is the unknown stack.
IdsKeepStacks == \A e \in specs \union allocs : e[2] # 0 => taken[e[2]] = e[1]

\* Once Emplace has returned, a stack is found in the current table, and in one entry,
\* with a value that is not the unknown stack's once the writer is done - growth and
\* racing insertions lose and double nothing, only a Reserve that comes too late does.
KnownIsFound ==
  late \/ \A k \in known :
            /\ Holds(HashTable, k)
            /\ Cardinality({i \in DOMAIN HashTable.entry : HashTable.entry[i].key = k}) = 1
            /\ lock = NoThread => ValueOf(HashTable, k) # 0

\* Together: the set finds what was put in, under the id that it was given.
TableInv == IdsKeepStacks /\ KnownIsFound

\* A search for an unknown stack ends: no table ever fills up, neither the current
\* one nor one that a slow reader still holds.
FindEnds == \A n \in 1 .. Len(tables) : \E e \in DOMAIN tables[n].entry :
              tables[n].entry[e].key = NoKey

\* An allocation never refers to frames that nobody will log: they are logged already,
\* a thread is on its way to do so, or their channel was disabled when they were due.
EveryIdDescribed ==
  \A e \in allocs :
    \/ e[2] = 0 \/ e \in specs \/ e[2] \in skipped
    \/ \E t \in Threads : id[t] = e[2] /\ pc[t] \in {"key", "value", "spec"}
=============================================================================
