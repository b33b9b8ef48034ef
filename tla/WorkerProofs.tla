---------------------------- MODULE WorkerProofs ----------------------------
(***************************************************************************)
(* What the shared buffer of important events and the descriptions of      *)
(* events promise, for any number of threads and events and for any sizes: *)
(* the worker sends what was written and no more, space is claimed once    *)
(* and given back once, every event is listed and every client told of it. *)
(***************************************************************************)
EXTENDS SharedBuffer, EventNode, LinkProofs, FiniteSets, FiniteSetTheorems

(***************************************************************************)
(* The shared buffer of important events                                   *)
(***************************************************************************)
\* Threads that have claimed space in b, or have tried to, and not let go of it.
Holders(b) == {t \in Threads : buffer[t] = b /\ pc[t] \in {"write", "create", "wait", "release"}}

\* The bytes that t has claimed matter: it writes to them, or they will not be used.
Claims(t) == pc[t] \in {"write", "create"}

\* Every variable keeps its type, and the buffers are used one after the other.
TypeInv ==
  /\ created \in Buffers /\ shared = created
  /\ tail \in Buffers /\ tail <= created /\ headSeen \in Buffers /\ headSeen <= created
  /\ freed \subseteq Buffers /\ \A b \in Buffers : b \in freed <=> b < tail
  /\ free \in [Buffers -> Int] /\ refs \in [Buffers -> Nat] /\ size \in [Buffers -> Nat]
  /\ final \in [Buffers -> Nat] /\ base \in [Buffers -> Nat] /\ next \in [Buffers -> Nat]
  /\ pc \in [Threads -> {"idle", "claim", "write", "create", "wait", "release", "undefined"}]
  /\ need \in [Threads -> Nat] /\ region \in [Threads -> Int] /\ events \in [Threads -> Nat]
  /\ buffer \in [Threads -> Nat] /\ newer \in [Threads -> Nat]
  /\ wpc \in {"idle", "update", "retire"} /\ preSent \in Nat /\ sent \in Nat

\* A buffer that has a successor is full, and the successor's place follows from what of
\* it was claimed.
StreamInv ==
  /\ \A b \in Buffers : free[b] <= size[b] /\ final[b] <= size[b]
  /\ \A b \in Buffers : b < created => /\ next[b] = b + 1 /\ free[b] < 0
                                       /\ base[b + 1] = base[b] + size[b] - final[b]
  /\ \A b, c \in Buffers : b <= c /\ c <= created => base[b] <= base[c]
  /\ \A b \in Buffers : created <= b => final[b] = 0

\* Cursor counts the threads that hold a buffer, as long as there is one.
RefsInv ==
  \A b \in Buffers \ freed : IsFiniteSet(Holders(b)) /\ refs[b] = Cardinality(Holders(b))

\* Where a thread is and what it has claimed: neither claimed later nor declared unused.
ThreadInv ==
  \A t \in Threads :
    /\ pc[t] \notin {"idle", "undefined"} => /\ buffer[t] \in Buffers /\ buffer[t] <= created
                                              /\ need[t] > 0
    /\ pc[t] = "release" => newer[t] \in Buffers /\ newer[t] <= created /\ buffer[t] < created
    /\ pc[t] = "wait" => free[buffer[t]] < 0
    /\ Claims(t) => tail <= buffer[t] /\ 0 <= region[t] /\ region[t] <= size[buffer[t]]
    /\ pc[t] = "write" => /\ final[buffer[t]] <= region[t] - need[t]
                          /\ free[buffer[t]] <= region[t] - need[t]

\* When the newest buffer is full there is one thread to create the next one.
FullInv ==
  /\ free[created] < 0 => \E t \in Threads : pc[t] = "create"
  /\ \A t \in Threads : pc[t] = "create" => buffer[t] = created /\ free[created] < 0
  /\ \A t, u \in Threads : pc[t] = "create" /\ pc[u] = "create" => t = u

\* The space of two open events is apart, and that of the thread whose claim failed is
\* behind all of it.
ApartInv ==
  \A t, u \in Threads : pc[u] = "write" /\ buffer[t] = buffer[u] =>
    /\ pc[t] = "create" => region[t] <= region[u] - need[u]
    /\ pc[t] = "write" /\ t # u =>
         region[t] <= region[u] - need[u] \/ region[u] <= region[t] - need[t]

\* Where the worker is and what it has sent of its oldest buffer: nothing that is claimed.
WorkerInv ==
  /\ wpc # "idle" => tail <= headSeen
  /\ wpc = "retire" => tail < created /\ \A t \in Threads : Claims(t) => buffer[t] # tail
  /\ preSent <= size[tail] - free[tail] /\ preSent <= size[tail] - final[tail]
  /\ \A t \in Threads : Claims(t) /\ buffer[t] = tail => preSent <= size[tail] - region[t]

BufferInv == TypeInv /\ StreamInv /\ RefsInv /\ ThreadInv /\ FullInv /\ ApartInv
             /\ WorkerInv /\ SentInOrder

USE BufferAssumption DEF NoBuffer

\* Buffers are numbered from 1 on.
LEMMA BufferNumbers ==
  /\ 1 \in Buffers /\ \A b \in Buffers : b \in Nat /\ 1 <= b /\ b <= MaxBuffers
  /\ \A b \in Buffers : b < MaxBuffers => b + 1 \in Buffers
BY DEF Buffers

USE BufferNumbers

\* Before anything is traced the invariant holds.
LEMMA InitStep == Init => BufferInv
<1> SUFFICES ASSUME Init PROVE BufferInv
  OBVIOUS
<1> USE DEF Init
<1>1. TypeInv
  BY DEF TypeInv
<1>2. StreamInv /\ ThreadInv /\ FullInv /\ ApartInv /\ WorkerInv /\ SentInOrder
  BY DEF StreamInv, ThreadInv, FullInv, ApartInv, WorkerInv, SentInOrder, Claims
<1>3. RefsInv
  <2>1. \A b \in Buffers : Holders(b) = {}
    BY DEF Holders
  <2> QED
    BY <2>1, FS_EmptySet DEF RefsInv
<1> QED
  BY <1>1, <1>2, <1>3 DEF BufferInv

\* A step that changes no holder keeps the counts.
LEMMA RefsKept ==
  ASSUME BufferInv, refs' = refs, freed \subseteq freed',
         \A b \in Buffers \ freed : Holders(b)' = Holders(b)
  PROVE  RefsInv'
BY DEF BufferInv, RefsInv

\* A thread more, or one less, that holds b.
LEMMA RefsStep ==
  ASSUME BufferInv, NEW t \in Threads, NEW b \in Buffers \ freed, freed' = freed,
         \A c \in Buffers \ (freed \union {b}) : Holders(c)' = Holders(c) /\ refs'[c] = refs[c],
         \/ t \notin Holders(b) /\ Holders(b)' = Holders(b) \union {t} /\ refs'[b] = refs[b] + 1
         \/ t \in Holders(b) /\ Holders(b)' = Holders(b) \ {t} /\ refs'[b] = refs[b] - 1
  PROVE  RefsInv'
<1>1. IsFiniteSet(Holders(b)) /\ refs[b] = Cardinality(Holders(b))
  BY DEF BufferInv, RefsInv
<1>2. IsFiniteSet(Holders(b)') /\ refs'[b] = Cardinality(Holders(b)')
  BY <1>1, FS_AddElement, FS_RemoveElement
<1> QED
  BY <1>2 DEF BufferInv, RefsInv

\* A buffer that nobody holds is counted as such.
LEMMA NoHolder ==
  ASSUME BufferInv, NEW b \in Buffers \ freed, refs[b] = 0
  PROVE  \A t \in Threads : ~(buffer[t] = b /\ pc[t] \in {"write", "create", "wait", "release"})
BY FS_EmptySet DEF BufferInv, RefsInv, Holders

\* A buffer for an event has a positive size that it fits in.
LEMMA SizeForFits ==
  ASSUME NEW n \in Nat
  PROVE  SizeFor(n) \in Nat /\ SizeFor(n) >= n
<1>1. CASE n <= Capacity
  BY <1>1 DEF SizeFor
<1>2. CASE n > Capacity
  <2> DEFINE d == n - Capacity + Growth - 1
             q == d \div Growth
  <2>1. d \in Nat /\ Growth \in Nat /\ Growth > 0 /\ d >= Growth - 1 + n - Capacity
    BY <1>2
  <2>2. q \in Nat /\ d < Growth * q + Growth /\ Growth * q \in Nat
    <3> HIDE DEF d
    <3> QED
      BY <2>1
  <2>3. SizeFor(n) = Capacity + Growth * q
    BY <1>2 DEF SizeFor
  <2> HIDE DEF q
  <2> QED
    BY <1>2, <2>1, <2>2, <2>3
<1> QED
  BY <1>1, <1>2

\* A thread turns to the newest buffer, in which it holds nothing yet.
LEMMA EnterStep ==
  ASSUME BufferInv, NEW t \in Threads, NEW n \in EventSizes, Enter(t, n)
  PROVE  BufferInv'
<1> USE DEF Enter, bufferVars, threadVars, workerVars
<1>1. TypeInv'
  BY DEF BufferInv, TypeInv
<1>2. StreamInv'
  BY DEF BufferInv, TypeInv, StreamInv
<1>3. RefsInv'
  BY RefsKept DEF BufferInv, TypeInv, Holders
<1>4. ThreadInv'
  BY DEF BufferInv, TypeInv, ThreadInv, Claims
<1>5. FullInv'
  BY DEF BufferInv, TypeInv, ThreadInv, FullInv
<1>6. ApartInv'
  BY DEF BufferInv, TypeInv, ThreadInv, ApartInv, Claims
<1>7. WorkerInv'
  BY DEF BufferInv, TypeInv, ThreadInv, WorkerInv, Claims
<1>8. SentInOrder'
  BY DEF BufferInv, TypeInv, SentInOrder
<1> QED
  BY <1>1, <1>2, <1>3, <1>4, <1>5, <1>6, <1>7, <1>8 DEF BufferInv

\* Space is claimed below what others have claimed; who runs off the end first creates the
\* next buffer.
LEMMA ClaimSpaceStep ==
  ASSUME BufferInv, NEW t \in Threads, ClaimSpace(t)
  PROVE  BufferInv'
<1> USE DEF ClaimSpace, bufferVars, threadVars, workerVars
<1> DEFINE b == buffer[t]
           left == free[b] - need[t]
<1>0. /\ b <= created /\ b \in Buffers \ freed /\ need[t] \in Nat \ {0} /\ free[b] \in Int
      /\ left \in Int /\ left < free[b] /\ pc[t] = "claim" /\ free'[b] = left /\ b >= tail
      /\ region'[t] = free[b] /\ pc'[t] \in {"write", "create", "wait"}
      /\ \A u \in Threads \ {t} : region'[u] = region[u] /\ pc'[u] = pc[u]
      /\ \A c \in Buffers \ {b} : free'[c] = free[c]
      /\ free' \in [Buffers -> Int]
  BY DEF BufferInv, TypeInv, ThreadInv
<1>a. free[b] >= 0 => b = created /\ final[b] = 0 /\ \A u \in Threads : pc[u] # "create"
  <2>1. free[b] >= 0 => ~(b < created)
    BY <1>0 DEF BufferInv, StreamInv
  <2>2. free[b] >= 0 => b = created
    BY <1>0, <2>1 DEF BufferInv, TypeInv
  <2> QED
    BY <1>0, <2>2 DEF BufferInv, TypeInv, StreamInv, FullInv
<1>b. /\ pc'[t] = "write" <=> left >= 0
      /\ pc'[t] = "create" <=> left < 0 /\ free[b] >= 0
  BY <1>0 DEF BufferInv, TypeInv
<1>c. \A c \in Buffers : free'[c] <= free[c]
  BY <1>0 DEF BufferInv, TypeInv
<1>d. free[b] <= size[b] /\ size[b] \in Nat
  BY <1>0 DEF BufferInv, TypeInv, StreamInv
<1>1. TypeInv'
  BY <1>0 DEF BufferInv, TypeInv
<1>2. StreamInv'
  BY <1>0, <1>c DEF BufferInv, TypeInv, StreamInv
<1>3. RefsInv'
  <2>1. \A c \in Buffers : c # b => Holders(c)' = Holders(c)
    BY <1>0 DEF Holders, BufferInv, TypeInv
  <2>2. t \notin Holders(b) /\ Holders(b)' = Holders(b) \union {t} /\ refs'[b] = refs[b] + 1
    BY <1>0 DEF Holders, BufferInv, TypeInv, ThreadInv
  <2> QED
    BY <1>0, <2>1, <2>2, RefsStep DEF BufferInv, TypeInv
<1>4. ThreadInv'
  <2> SUFFICES ASSUME NEW u \in Threads PROVE ThreadInv!(u)'
    BY DEF ThreadInv
  <2>1. CASE u = t
    BY <1>0, <1>a, <1>b, <1>d, <2>1 DEF BufferInv, TypeInv, Claims
  <2>2. CASE u # t
    BY <1>0, <1>c, <2>2 DEF BufferInv, TypeInv, ThreadInv, Claims
  <2> QED
    BY <2>1, <2>2
<1>5. FullInv'
  <2>1. free'[created] < 0 => \E u \in Threads : pc'[u] = "create"
    BY <1>0, <1>b DEF BufferInv, TypeInv, FullInv
  <2>2. ASSUME NEW u \in Threads, pc'[u] = "create" PROVE buffer[u] = created /\ free'[created] < 0
    BY <1>0, <1>a, <1>b, <1>c, <2>2 DEF BufferInv, TypeInv, FullInv
  <2>3. ASSUME NEW u \in Threads, NEW v \in Threads, pc'[u] = "create", pc'[v] = "create" PROVE u = v
    BY <1>0, <1>a, <1>b, <2>3 DEF BufferInv, TypeInv, FullInv
  <2> QED
    BY <2>1, <2>2, <2>3 DEF FullInv
<1>6. ApartInv'
  <2> SUFFICES ASSUME NEW u \in Threads, NEW v \in Threads, pc'[v] = "write", buffer[u] = buffer[v]
               PROVE  ApartInv!(u, v)'
    BY DEF ApartInv
  <2>1. ASSUME NEW x \in Threads \ {t}, pc[x] = "write", buffer[x] = b
        PROVE  free[b] <= region[x] - need[x]
    BY <2>1 DEF BufferInv, ThreadInv
  <2>2. CASE v = t
    BY <1>0, <1>a, <1>b, <2>1, <2>2 DEF BufferInv, TypeInv
  <2>3. CASE v # t /\ u = t
    BY <1>0, <1>a, <1>b, <2>1, <2>3 DEF BufferInv, TypeInv
  <2>4. CASE v # t /\ u # t
    BY <1>0, <2>4 DEF BufferInv, TypeInv, ApartInv
  <2> QED
    BY <2>2, <2>3, <2>4
<1>7. WorkerInv'
  <2>1. preSent <= size[tail] - free'[tail]
    BY <1>c DEF BufferInv, TypeInv, WorkerInv
  <2>2. ASSUME NEW u \in Threads, Claims(u)', buffer[u] = tail PROVE preSent <= size[tail] - region'[u]
    BY <1>0, <2>2 DEF BufferInv, TypeInv, WorkerInv, Claims
  <2>3. ASSUME wpc = "retire", NEW u \in Threads, Claims(u)' PROVE buffer[u] # tail
    BY <1>0, <1>a, <1>b, <2>3 DEF BufferInv, TypeInv, WorkerInv, Claims
  <2> QED
    BY <2>1, <2>2, <2>3 DEF BufferInv, WorkerInv
<1>8. SentInOrder'
  BY <1>0 DEF BufferInv, TypeInv, SentInOrder
<1> QED
  BY <1>1, <1>2, <1>3, <1>4, <1>5, <1>6, <1>7, <1>8 DEF BufferInv

\* A thread that is left with a freed buffer holds no other.
LEMMA TouchFreedStep ==
  ASSUME BufferInv, NEW t \in Threads, TouchFreed(t)
  PROVE  BufferInv'
<1> USE DEF TouchFreed, bufferVars, threadVars, workerVars
<1>1. TypeInv'
  BY DEF BufferInv, TypeInv
<1>2. StreamInv'
  BY DEF BufferInv, TypeInv, StreamInv
<1>3. RefsInv'
  BY RefsKept DEF BufferInv, TypeInv, Holders
<1>4. ThreadInv'
  BY DEF BufferInv, TypeInv, ThreadInv, Claims
<1>5. FullInv'
  BY DEF BufferInv, TypeInv, ThreadInv, FullInv
<1>6. ApartInv'
  BY DEF BufferInv, TypeInv, ThreadInv, ApartInv, Claims
<1>7. WorkerInv'
  BY DEF BufferInv, TypeInv, ThreadInv, WorkerInv, Claims
<1>8. SentInOrder'
  BY DEF BufferInv, TypeInv, SentInOrder
<1> QED
  BY <1>1, <1>2, <1>3, <1>4, <1>5, <1>6, <1>7, <1>8 DEF BufferInv

\* The next buffer begins where the claims in the full one ended.
LEMMA CreateNextStep ==
  ASSUME BufferInv, NEW t \in Threads, CreateNext(t)
  PROVE  BufferInv'
<1> USE DEF CreateNext, bufferVars, threadVars, workerVars
<1> DEFINE b   == buffer[t]
           new == created + 1
           n   == SizeFor(need[t])
<1>0. /\ b = created /\ b \in Buffers \ freed /\ new \in Buffers /\ n \in Nat /\ pc[t] = "create"
      /\ region[t] \in Nat /\ region[t] <= size[b] /\ free[b] < 0 /\ size[b] \in Nat /\ base[b] \in Nat
      /\ final[b] = 0
  BY SizeForFits DEF BufferInv, TypeInv, ThreadInv, FullInv, StreamInv, Claims
<1>a. /\ created' = new /\ free'[new] = n /\ size'[new] = n /\ next'[b] = new /\ final'[b] = region[t]
      /\ base'[new] = base[b] + size[b] - region[t]
      /\ \A c \in Buffers : /\ c # new => free'[c] = free[c] /\ size'[c] = size[c] /\ base'[c] = base[c]
                            /\ c # b => next'[c] = next[c] /\ final'[c] = final[c]
      /\ pc'[t] = "release" /\ newer'[t] = new
      /\ \A u \in Threads \ {t} : pc'[u] = pc[u] /\ newer'[u] = newer[u] /\ pc[u] # "create"
  BY <1>0 DEF BufferInv, TypeInv, FullInv
<1>1. TypeInv'
  <2> HIDE DEF n
  <2> QED
    BY <1>0, <1>a DEF BufferInv, TypeInv
<1>2. StreamInv'
  <2> HIDE DEF n
  <2>1. \A c \in Buffers : free'[c] <= size'[c] /\ final'[c] <= size'[c]
    BY <1>0, <1>a DEF BufferInv, TypeInv, StreamInv
  <2>2. \A c \in Buffers : c < new => /\ next'[c] = c + 1 /\ free'[c] < 0
                                      /\ base'[c + 1] = base'[c] + size'[c] - final'[c]
    BY <1>0, <1>a DEF BufferInv, TypeInv, StreamInv
  <2>3. \A c, d \in Buffers : c <= d /\ d <= new => base'[c] <= base'[d]
    <3>1. \A c \in Buffers : c <= created => base[c] <= base'[new]
      BY <1>0, <1>a DEF BufferInv, TypeInv, StreamInv
    <3> QED
      BY <1>0, <1>a, <3>1 DEF BufferInv, TypeInv, StreamInv
  <2>4. \A c \in Buffers : new <= c => final'[c] = 0
    BY <1>0, <1>a DEF BufferInv, TypeInv, StreamInv
  <2> QED
    BY <1>a, <2>1, <2>2, <2>3, <2>4 DEF StreamInv
<1>3. RefsInv'
  BY <1>0, RefsKept DEF BufferInv, TypeInv, Holders
<1>4. ThreadInv'
  <2> HIDE DEF n
  <2> SUFFICES ASSUME NEW u \in Threads PROVE ThreadInv!(u)'
    BY DEF ThreadInv
  <2>1. CASE u = t
    BY <1>0, <1>a, <2>1 DEF BufferInv, TypeInv, ThreadInv, Claims
  <2>2. CASE u # t
    <3>1. pc[u] \notin {"idle", "undefined"} => buffer[u] \in Buffers /\ buffer[u] # new
      BY DEF BufferInv, TypeInv, ThreadInv
    <3>2. pc[u] = "write" => final'[buffer[u]] <= region[u] - need[u]
      BY <1>0, <1>a, <3>1 DEF BufferInv, ThreadInv, ApartInv
    <3> QED
      BY <1>0, <1>a, <2>2, <3>1, <3>2 DEF BufferInv, TypeInv, ThreadInv, Claims
  <2> QED
    BY <2>1, <2>2
<1>5. FullInv'
  BY <1>0, <1>a DEF BufferInv, TypeInv, FullInv
<1>6. ApartInv'
  BY <1>0, <1>a DEF BufferInv, TypeInv, ApartInv
<1>7. WorkerInv'
  <2>1. tail # new
    BY DEF BufferInv, TypeInv
  <2>2. preSent <= size[tail] - final'[tail]
    BY <1>0, <1>a DEF BufferInv, TypeInv, WorkerInv, Claims
  <2> QED
    BY <1>0, <1>a, <2>1, <2>2 DEF BufferInv, TypeInv, WorkerInv, Claims
<1>8. SentInOrder'
  BY <1>0, <1>a DEF BufferInv, TypeInv, SentInOrder
<1> QED
  BY <1>1, <1>2, <1>3, <1>4, <1>5, <1>6, <1>7, <1>8 DEF BufferInv

\* Another thread has created the next buffer.
LEMMA WaitForNextStep ==
  ASSUME BufferInv, NEW t \in Threads, WaitForNext(t)
  PROVE  BufferInv'
<1> USE DEF WaitForNext, bufferVars, threadVars, workerVars
<1>1. TypeInv'
  BY DEF BufferInv, TypeInv
<1>2. StreamInv'
  BY DEF BufferInv, TypeInv, StreamInv
<1>3. RefsInv'
  BY RefsKept DEF BufferInv, TypeInv, Holders
<1>4. ThreadInv'
  <2> SUFFICES ASSUME NEW u \in Threads PROVE ThreadInv!(u)'
    BY DEF ThreadInv
  <2>1. CASE u = t
    BY <2>1 DEF BufferInv, TypeInv, ThreadInv, Claims
  <2>2. CASE u # t
    BY <2>2 DEF BufferInv, TypeInv, ThreadInv, Claims
  <2> QED
    BY <2>1, <2>2
<1>5. FullInv'
  BY DEF BufferInv, TypeInv, ThreadInv, FullInv
<1>6. ApartInv'
  BY DEF BufferInv, TypeInv, ThreadInv, ApartInv, Claims
<1>7. WorkerInv'
  BY DEF BufferInv, TypeInv, ThreadInv, WorkerInv, Claims
<1>8. SentInOrder'
  BY DEF BufferInv, TypeInv, SentInOrder
<1> QED
  BY <1>1, <1>2, <1>3, <1>4, <1>5, <1>6, <1>7, <1>8 DEF BufferInv

\* A thread lets go of the full buffer.
LEMMA ReleaseFullStep ==
  ASSUME BufferInv, NEW t \in Threads, ReleaseFull(t)
  PROVE  BufferInv'
<1> USE DEF ReleaseFull, bufferVars, threadVars, workerVars
<1> DEFINE b == buffer[t]
<1>0. /\ b \in Buffers \ freed /\ pc[t] = "release" /\ t \in Holders(b) /\ refs[b] \in Nat
      /\ newer[t] \in Buffers
  BY DEF BufferInv, TypeInv, ThreadInv, Holders
<1>a. refs[b] > 0
  BY <1>0, NoHolder DEF Holders
<1>1. TypeInv'
  BY <1>0, <1>a DEF BufferInv, TypeInv
<1>2. StreamInv'
  BY <1>0, <1>a DEF BufferInv, TypeInv, StreamInv
<1>3. RefsInv'
  <2>1. PICK h \in Buffers \ freed : h = buffer[t]
    BY <1>0
  <2>2. pc'[t] = "claim" /\ \A u \in Threads \ {t} : buffer'[u] = buffer[u] /\ pc'[u] = pc[u]
    BY <1>0 DEF BufferInv, TypeInv
  <2>3. \A c \in Buffers : c # h => Holders(c)' = Holders(c)
    BY <1>0, <2>1, <2>2 DEF Holders
  <2>4. t \in Holders(h) /\ Holders(h)' = Holders(h) \ {t}
    BY <1>0, <2>1, <2>2 DEF Holders
  <2>5. freed' = freed /\ refs'[h] = refs[h] - 1 /\ \A c \in Buffers \ {h} : refs'[c] = refs[c]
    BY <1>0, <2>1 DEF BufferInv, TypeInv
  <2> QED
    BY <2>1, <2>3, <2>4, <2>5, RefsStep
<1>4. ThreadInv'
  BY <1>0, <1>a DEF BufferInv, TypeInv, ThreadInv, Claims
<1>5. FullInv'
  BY <1>0, <1>a DEF BufferInv, TypeInv, ThreadInv, FullInv
<1>6. ApartInv'
  BY <1>0, <1>a DEF BufferInv, TypeInv, ThreadInv, ApartInv, Claims
<1>7. WorkerInv'
  BY <1>0, <1>a DEF BufferInv, TypeInv, ThreadInv, WorkerInv, Claims
<1>8. SentInOrder'
  BY <1>0, <1>a DEF BufferInv, TypeInv, SentInOrder
<1> QED
  BY <1>1, <1>2, <1>3, <1>4, <1>5, <1>6, <1>7, <1>8 DEF BufferInv

\* An event is complete.
LEMMA CommitStep ==
  ASSUME BufferInv, NEW t \in Threads, Commit(t)
  PROVE  BufferInv'
<1> USE DEF Commit, bufferVars, threadVars, workerVars
<1> DEFINE b == buffer[t]
<1>0. /\ b \in Buffers \ freed /\ pc[t] = "write" /\ t \in Holders(b) /\ refs[b] \in Nat
  BY DEF BufferInv, TypeInv, ThreadInv, Holders, Claims
<1>a. refs[b] > 0
  BY <1>0, NoHolder DEF Holders
<1>1. TypeInv'
  BY <1>0, <1>a DEF BufferInv, TypeInv
<1>2. StreamInv'
  BY <1>0, <1>a DEF BufferInv, TypeInv, StreamInv
<1>3. RefsInv'
  <2>1. \A c \in Buffers : c # b => Holders(c)' = Holders(c)
    BY <1>0, <1>a DEF Holders, BufferInv, TypeInv
  <2>2. Holders(b)' = Holders(b) \ {t} /\ refs'[b] = refs[b] - 1
    BY <1>0, <1>a DEF Holders, BufferInv, TypeInv, ThreadInv
  <2> QED
    BY <1>0, <1>a, <2>1, <2>2, RefsStep DEF BufferInv, TypeInv
<1>4. ThreadInv'
  BY <1>0, <1>a DEF BufferInv, TypeInv, ThreadInv, Claims
<1>5. FullInv'
  BY <1>0, <1>a DEF BufferInv, TypeInv, ThreadInv, FullInv
<1>6. ApartInv'
  BY <1>0, <1>a DEF BufferInv, TypeInv, ThreadInv, ApartInv, Claims
<1>7. WorkerInv'
  BY <1>0, <1>a DEF BufferInv, TypeInv, ThreadInv, WorkerInv, Claims
<1>8. SentInOrder'
  BY <1>0, <1>a DEF BufferInv, TypeInv, SentInOrder
<1> QED
  BY <1>1, <1>2, <1>3, <1>4, <1>5, <1>6, <1>7, <1>8 DEF BufferInv

\* The worker looks for the newest buffer.
LEMMA StartUpdateStep ==
  ASSUME BufferInv, StartUpdate
  PROVE  BufferInv'
<1> USE DEF StartUpdate, bufferVars, threadVars, workerVars
<1>1. TypeInv'
  BY DEF BufferInv, TypeInv
<1>2. StreamInv'
  BY DEF BufferInv, TypeInv, StreamInv
<1>3. RefsInv'
  BY RefsKept DEF BufferInv, TypeInv, Holders
<1>4. ThreadInv'
  BY DEF BufferInv, TypeInv, ThreadInv, Claims
<1>5. FullInv'
  BY DEF BufferInv, TypeInv, ThreadInv, FullInv
<1>6. ApartInv'
  BY DEF BufferInv, TypeInv, ThreadInv, ApartInv, Claims
<1>7. WorkerInv'
  BY DEF BufferInv, TypeInv, ThreadInv, WorkerInv, Claims
<1>8. SentInOrder'
  BY DEF BufferInv, TypeInv, SentInOrder
<1> QED
  BY <1>1, <1>2, <1>3, <1>4, <1>5, <1>6, <1>7, <1>8 DEF BufferInv

\* The oldest buffer has a successor and nobody writes to it any more.
LEMMA BeginRetireStep ==
  ASSUME BufferInv, BeginRetire
  PROVE  BufferInv'
<1> USE DEF BeginRetire, bufferVars, threadVars, workerVars
<1>0. tail \in Buffers \ freed /\ \A t \in Threads : ~(Claims(t) /\ buffer[t] = tail)
  BY NoHolder DEF BufferInv, TypeInv, Claims
<1>a. tail < created
  BY <1>0 DEF BufferInv, TypeInv, ThreadInv, FullInv, WorkerInv, Claims
<1>1. TypeInv'
  BY <1>0, <1>a DEF BufferInv, TypeInv
<1>2. StreamInv'
  BY <1>0, <1>a DEF BufferInv, TypeInv, StreamInv
<1>3. RefsInv'
  BY RefsKept DEF BufferInv, TypeInv, Holders
<1>4. ThreadInv'
  BY <1>0, <1>a DEF BufferInv, TypeInv, ThreadInv, Claims
<1>5. FullInv'
  BY <1>0, <1>a DEF BufferInv, TypeInv, ThreadInv, FullInv
<1>6. ApartInv'
  BY <1>0, <1>a DEF BufferInv, TypeInv, ThreadInv, ApartInv, Claims
<1>7. WorkerInv'
  BY <1>0, <1>a DEF BufferInv, TypeInv, ThreadInv, WorkerInv, Claims
<1>8. SentInOrder'
  BY <1>0, <1>a DEF BufferInv, TypeInv, SentInOrder
<1> QED
  BY <1>1, <1>2, <1>3, <1>4, <1>5, <1>6, <1>7, <1>8 DEF BufferInv

\* The oldest buffer is sent to the end of what was claimed of it, and freed.
LEMMA RetireSharedBufferStep ==
  ASSUME BufferInv, RetireSharedBuffer
  PROVE  BufferInv'
<1> USE DEF RetireSharedBuffer, bufferVars, threadVars, workerVars
<1>0. /\ tail < created /\ tail + 1 \in Buffers /\ next[tail] = tail + 1 /\ free[tail] < 0
      /\ base[tail + 1] = base[tail] + size[tail] - final[tail]
      /\ \A t \in Threads : Claims(t) => buffer[t] # tail
      /\ wpc = "retire" /\ tail <= headSeen
  BY DEF BufferInv, TypeInv, WorkerInv, StreamInv
<1>a. tail' = tail + 1 /\ preSent' = 0 /\ sent' = base[tail + 1] /\ sent' \in Nat
  BY <1>0 DEF BufferInv, TypeInv, SentInOrder
<1>1. TypeInv'
  BY <1>0, <1>a DEF BufferInv, TypeInv
<1>2. StreamInv'
  BY DEF BufferInv, StreamInv
<1>3. RefsInv'
  BY RefsKept DEF Holders
<1>4. ThreadInv'
  BY <1>0, <1>a DEF BufferInv, TypeInv, ThreadInv, Claims
<1>5. FullInv'
  BY DEF BufferInv, FullInv
<1>6. ApartInv'
  BY DEF BufferInv, ApartInv
<1>7. WorkerInv'
  <2>1. 0 <= size[tail + 1] - free[tail + 1] /\ 0 <= size[tail + 1] - final[tail + 1]
    BY <1>0 DEF BufferInv, TypeInv, StreamInv
  <2>2. ASSUME NEW t \in Threads, Claims(t), buffer[t] = tail + 1 PROVE 0 <= size[tail + 1] - region[t]
    BY <1>0, <2>2 DEF BufferInv, TypeInv, ThreadInv
  <2>3. wpc' # "idle" => wpc' = "update" /\ tail + 1 <= headSeen
    BY <1>0 DEF BufferInv, TypeInv
  <2> QED
    BY <1>a, <2>1, <2>2, <2>3 DEF WorkerInv, Claims
<1>8. SentInOrder'
  BY <1>0, <1>a DEF BufferInv, TypeInv, SentInOrder
<1> QED
  BY <1>1, <1>2, <1>3, <1>4, <1>5, <1>6, <1>7, <1>8 DEF BufferInv

\* What was claimed of the newest buffer is sent.
LEMMA SendHeadStep ==
  ASSUME BufferInv, SendHead
  PROVE  BufferInv'
<1> USE DEF SendHead, bufferVars, threadVars, workerVars
<1>0. tail \in Buffers \ freed /\ \A t \in Threads : ~(Claims(t) /\ buffer[t] = tail)
  BY NoHolder DEF BufferInv, TypeInv, Claims
<1>a. tail = created
  <2>1. ~(tail < created)
    BY <1>0 DEF BufferInv, TypeInv, StreamInv
  <2> QED
    BY <2>1 DEF BufferInv, TypeInv
<1>b. /\ final[tail] = 0 /\ free[tail] \in Nat /\ free[tail] <= size[tail]
      /\ size[tail] \in Nat /\ preSent <= size[tail] - free[tail]
  BY <1>0, <1>a DEF BufferInv, TypeInv, StreamInv, WorkerInv
<1>1. TypeInv'
  BY <1>0, <1>a, <1>b DEF BufferInv, TypeInv
<1>2. StreamInv'
  BY <1>0, <1>a, <1>b DEF BufferInv, TypeInv, StreamInv
<1>3. RefsInv'
  BY RefsKept DEF BufferInv, TypeInv, Holders
<1>4. ThreadInv'
  BY <1>0, <1>a, <1>b DEF BufferInv, TypeInv, ThreadInv, Claims
<1>5. FullInv'
  BY <1>0, <1>a, <1>b DEF BufferInv, TypeInv, ThreadInv, FullInv
<1>6. ApartInv'
  BY <1>0, <1>a DEF BufferInv, TypeInv, ThreadInv, ApartInv, Claims
<1>7. WorkerInv'
  BY <1>0, <1>a, <1>b DEF BufferInv, TypeInv, ThreadInv, WorkerInv, Claims
<1>8. SentInOrder'
  BY <1>0, <1>a, <1>b DEF BufferInv, TypeInv, SentInOrder
<1> QED
  BY <1>1, <1>2, <1>3, <1>4, <1>5, <1>6, <1>7, <1>8 DEF BufferInv

\* The invariant is inductive.
LEMMA StepPreservesBufferInv == BufferInv /\ [Next]_vars => BufferInv'
<1> SUFFICES ASSUME BufferInv, [Next]_vars PROVE BufferInv'
  OBVIOUS
<1>1. CASE UNCHANGED vars
  <2> USE <1>1 DEF vars, bufferVars, threadVars, workerVars
  <2>1. TypeInv' /\ StreamInv' /\ ThreadInv' /\ FullInv' /\ ApartInv' /\ WorkerInv' /\ SentInOrder'
    BY DEF BufferInv, TypeInv, StreamInv, ThreadInv, FullInv, ApartInv, WorkerInv, SentInOrder, Claims
  <2>2. RefsInv'
    BY RefsKept DEF Holders
  <2> QED
    BY <2>1, <2>2 DEF BufferInv
<1>2. ASSUME NEW t \in Threads, NEW n \in EventSizes, Enter(t, n) PROVE BufferInv'
  BY <1>2, EnterStep
<1>3. ASSUME NEW t \in Threads, InEvent(t) PROVE BufferInv'
  BY <1>3, ClaimSpaceStep, TouchFreedStep, CreateNextStep, WaitForNextStep, ReleaseFullStep,
     CommitStep DEF InEvent
<1>4. CASE Update
  BY <1>4, StartUpdateStep, BeginRetireStep, RetireSharedBufferStep, SendHeadStep DEF Update
<1> QED
  BY <1>1, <1>2, <1>3, <1>4 DEF Next

\* The inductive invariant holds of every reachable state.
THEOREM BufferInvariant == Spec => []BufferInv
<1> QED
  BY InitStep, StepPreservesBufferInv, PTL DEF Spec

\* What was claimed of a buffer comes before every newer buffer in the stream.
LEMMA BuffersInOrder ==
  ASSUME BufferInv, NEW b \in Buffers, NEW c \in Buffers, b < c, c <= created
  PROVE  base[b] + size[b] - final[b] <= base[c]
<1>1. b < created /\ b + 1 \in Buffers /\ b + 1 <= c
  BY DEF BufferInv, TypeInv
<1> QED
  BY <1>1 DEF BufferInv, StreamInv

\* What a thread has claimed of a shared buffer is its own until it lets go: no other
\* claim overlaps it, it is not among the bytes declared unused, and the worker does not
\* free the buffer.
THEOREM ClaimsAreOwn == Spec => []ClaimInv
<1>1. ASSUME BufferInv PROVE ReferenceKeeps
  BY <1>1 DEF BufferInv, TypeInv, ThreadInv, FullInv, Claims, ReferenceKeeps
<1>2. ASSUME BufferInv PROVE ClaimsApart
  <2> SUFFICES ASSUME NEW t \in Threads, pc[t] = "write" PROVE ClaimsApart!(t)
    BY DEF ClaimsApart
  <2>1. ASSUME NEW u \in Threads, pc[u] = "write"
        PROVE  /\ buffer[u] \in Buffers /\ buffer[u] <= created /\ need[u] \in Nat /\ region[u] \in Int
               /\ size[buffer[u]] \in Nat /\ final[buffer[u]] \in Nat /\ base[buffer[u]] \in Nat
               /\ region[u] <= size[buffer[u]] /\ final[buffer[u]] <= region[u] - need[u]
    BY <1>2, <2>1 DEF BufferInv, TypeInv, ThreadInv, Claims
  <2>2. ASSUME NEW u \in Threads, NEW v \in Threads, pc[u] = "write", pc[v] = "write", buffer[u] < buffer[v]
        PROVE  EventEnd(u) <= EventStart(v)
    <3>1. base[buffer[u]] + size[buffer[u]] - final[buffer[u]] <= base[buffer[v]]
      BY <1>2, <2>1, <2>2, BuffersInOrder
    <3> QED
      BY <2>1, <2>2, <3>1 DEF EventEnd, EventStart
  <2>3. ASSUME NEW u \in Threads \ {t}, pc[u] = "write"
        PROVE  EventEnd(t) <= EventStart(u) \/ EventEnd(u) <= EventStart(t)
    <3>1. CASE buffer[u] = buffer[t]
      BY <1>2, <2>1, <2>3, <3>1 DEF BufferInv, ApartInv, EventEnd, EventStart
    <3>2. CASE buffer[u] # buffer[t]
      <4>1. buffer[t] \in Nat /\ buffer[u] \in Nat /\ pc[t] = "write"
        BY <2>1, <2>3
      <4>2. CASE buffer[t] < buffer[u]
        BY <2>2, <2>3, <4>2
      <4>3. CASE buffer[u] < buffer[t]
        BY <2>2, <2>3, <4>3
      <4> QED
        BY <3>2, <4>1, <4>2, <4>3
    <3> QED
      BY <3>1, <3>2
  <2> QED
    BY <2>1, <2>3
<1> QED
  BY <1>1, <1>2, BufferInvariant, PTL DEF ClaimInv

\* The worker sends the important events of all threads once and in the order in which
\* space was claimed, and none before it is complete.
THEOREM EventsSentWhole == Spec => []SentInv
<1>1. ASSUME BufferInv PROVE SentWhole
  <2> SUFFICES ASSUME NEW t \in Threads, pc[t] = "write" PROVE sent <= EventStart(t)
    BY DEF SentWhole
  <2> USE <1>1 DEF BufferInv
  <2>1. /\ buffer[t] \in Buffers /\ tail <= buffer[t] /\ buffer[t] <= created /\ tail \in Buffers
        /\ buffer[t] \in Nat /\ tail \in Nat /\ region[t] \in Int /\ region[t] <= size[buffer[t]]
        /\ size \in [Buffers -> Nat] /\ base \in [Buffers -> Nat] /\ final \in [Buffers -> Nat]
        /\ created \in Buffers /\ preSent \in Nat
    BY DEF TypeInv, ThreadInv, Claims
  <2>2. CASE buffer[t] = tail
    BY <2>1, <2>2 DEF WorkerInv, Claims, SentInOrder, EventStart
  <2>3. CASE buffer[t] > tail
    <3>1. base[tail] + size[tail] - final[tail] <= base[buffer[t]]
      BY <2>1, <2>3, BuffersInOrder
    <3>2. preSent <= size[tail] - final[tail] /\ sent = base[tail] + preSent
      BY DEF WorkerInv, SentInOrder
    <3> QED
      BY <2>1, <3>1, <3>2 DEF EventStart
  <2> QED
    BY <2>1, <2>2, <2>3
<1>2. BufferInv => SentInv
  BY <1>1 DEF BufferInv, SentInv
<1> QED
  BY <1>2, BufferInvariant, PTL

(***************************************************************************)
(* Descriptions of events                                                  *)
(***************************************************************************)
NodeTypes ==
  /\ newList \in Events \union {NoEvent} /\ listHead \in Events \union {NoEvent}
  /\ inner \in Events \union {NoEvent} /\ listTail \in Events \union {NoEvent}
  /\ nextEvent \in [Events -> Events \union {NoEvent}]
  /\ reg \in [Events -> {"unused", "load", "push", "listed"}]
  /\ npc \in {"idle", "onconnect", "read", "describe", "tail", "announce", "drain"}
  /\ stage \in {"connect", "announce"} /\ connected \in BOOLEAN
  /\ described \in [Events -> Nat]

\* Links lead to events in the lists, and the worker describes events that it knows.
NodeLinkInv ==
  /\ \A e \in Events : nextEvent[e] \in Listed \union {NoEvent}
  /\ npc = "describe" => inner \in EventsFrom(listHead)

\* Of the events it knows, those that the worker has taken and not described yet.
ToDescribe == IF npc = "describe" THEN EventsFrom(inner) ELSE {}

\* The client has been told of the events that the worker knows and is done with, once,
\* and of no others.
ToldInv ==
  /\ \A e \in Events : described[e] # 0 => described[e] = 1 /\ e \in EventsFrom(listHead) \ ToDescribe
  /\ npc = "onconnect" => received = {} /\ \A e \in Events : described[e] = 0
  /\ connected /\ npc # "onconnect" => \A e \in EventsFrom(listHead) \ ToDescribe : described[e] = 1

\* Events that were traced are listed, and the worker knows those in the tail when it is
\* to send it.
HeldInv ==
  /\ buffered \subseteq Listed /\ tailed \subseteq Listed /\ received \subseteq Listed
  /\ npc = "tail" \/ (npc = "describe" /\ stage = "connect") => tailed \subseteq EventsFrom(listHead)

ListsInv == NodeTypes /\ NodeLinkInv /\ EveryEventListed
NodeInv  == ListsInv /\ ToldInv /\ HeldInv

\* What walks over events meet.
LEMMA EventWalks ==
  ASSUME ListsInv, NEW p \in Events \union {NoEvent}
  PROVE  /\ EventsFrom(p) \subseteq Events
         /\ p # NoEvent => p \in EventsFrom(p)
         /\ p = NoEvent => EventsFrom(p) = {}
         /\ \A d \in EventsFrom(p) : nextEvent[d] = NoEvent \/ nextEvent[d] \in EventsFrom(p)
         /\ p \in Events => EventsFrom(p) = {p} \union EventsFrom(nextEvent[p])
         /\ p \in Listed \union {NoEvent} => EventsFrom(p) \subseteq Listed
<1>1. nextEvent \in [Events -> Events \union {NoEvent}] /\ NoEvent \notin Events
  BY EventAssumption DEF ListsInv, NodeTypes
<1>2. p \in Listed \union {NoEvent} => EventsFrom(p) \subseteq Listed
  <2>1. /\ Listed \in SUBSET Events
        /\ \A d \in Listed : nextEvent[d] = NoEvent \/ nextEvent[d] \in Listed
    BY DEF ListsInv, NodeLinkInv, Listed
  <2> QED
    BY <1>1, <2>1, ReachLeast DEF EventsFrom
<1>3. p \in Events => EventsFrom(p) = {p} \union EventsFrom(nextEvent[p])
  BY <1>1, ReachStep DEF EventsFrom
<1> QED
  BY <1>1, <1>2, <1>3, ReachFacts DEF EventsFrom

\* An event that is not listed is met by no walk from the lists.
LEMMA LoadNewListKept ==
  ASSUME NodeInv, NEW e \in Events, LoadNewList(e)
  PROVE  NodeInv'
<1>1. /\ reg[e] \in {"unused", "load"} /\ reg' = [reg EXCEPT ![e] = "push"]
      /\ nextEvent' = [nextEvent EXCEPT ![e] = newList]
      /\ UNCHANGED <<newList, listHead, listTail, buffered, tailed, npc, stage, inner, connected,
                     described, received>>
  BY DEF LoadNewList, toldVars
<1>2. ListsInv /\ NodeTypes /\ e \notin Listed /\ Listed' = Listed
  BY <1>1 DEF NodeInv, ListsInv, NodeTypes, Listed
<1>3. /\ NodeTypes' /\ nextEvent'[e] = newList
      /\ \A d \in Events : d # e => nextEvent'[d] = nextEvent[d]
  BY <1>1, <1>2 DEF NodeTypes
<1>4. newList \in Listed \union {NoEvent} /\ listHead \in Listed \union {NoEvent}
  BY <1>2, EventWalks DEF ListsInv, EveryEventListed, NodeTypes
<1>5. ASSUME NEW p \in Listed \union {NoEvent} PROVE Reach(nextEvent', p) = EventsFrom(p)
  <2>1. p \in Events \union {NoEvent} /\ EventsFrom(p) \subseteq Listed
    BY <1>2, EventWalks DEF Listed
  <2>2. \A d \in Reach(nextEvent, p) : nextEvent'[d] = nextEvent[d]
    BY <1>2, <1>3, <2>1 DEF EventsFrom, Listed
  <2> QED
    BY <1>2, <1>3, <2>1, <2>2, ReachAgree, EventAssumption DEF EventsFrom, NodeTypes
<1>6. EventsFrom(newList)' = EventsFrom(newList) /\ EventsFrom(listHead)' = EventsFrom(listHead)
  BY <1>1, <1>4, <1>5 DEF EventsFrom
<1>7. npc = "describe" => EventsFrom(inner)' = EventsFrom(inner)
  <2>1. npc = "describe" => inner \in Listed
    BY <1>2 DEF ListsInv, NodeLinkInv, EveryEventListed
  <2> QED
    BY <1>1, <1>5, <2>1 DEF EventsFrom
<1>8. ASSUME NEW d \in Events PROVE d \notin EventsFrom(nextEvent[d])'
  <2>1. CASE d = e
    BY <1>2, <1>3, <1>4, <1>5, <2>1, EventWalks DEF EventsFrom, NodeTypes
  <2>2. CASE d # e
    BY <1>2, <1>3, <1>5, <2>2 DEF EventsFrom, ListsInv, NodeLinkInv, EveryEventListed
  <2> QED
    BY <2>1, <2>2
<1>9. listHead # NoEvent /\ npc # "describe" =>
        listTail \in EventsFrom(listHead) /\ nextEvent'[listTail] = NoEvent
  BY <1>2, <1>3 DEF ListsInv, EveryEventListed, NodeTypes, Listed
<1>10. NodeLinkInv' /\ EveryEventListed'
  BY <1>1, <1>2, <1>3, <1>4, <1>6, <1>8, <1>9 DEF ListsInv, NodeLinkInv, EveryEventListed
<1>11. ToDescribe' = ToDescribe
  BY <1>1, <1>7 DEF ToDescribe
<1>12. ToldInv' /\ HeldInv'
  BY <1>1, <1>2, <1>6, <1>11 DEF NodeInv, ToldInv, HeldInv
<1> QED
  BY <1>3, <1>10, <1>12 DEF NodeInv, ListsInv

\* An event that is pushed comes first in the list of new events.
LEMMA PublishKept ==
  ASSUME NodeInv, NEW e \in Events, Publish(e)
  PROVE  NodeInv'
<1>1. /\ reg[e] = "push"
      /\ UNCHANGED <<nextEvent, listHead, listTail, buffered, tailed, npc, stage, inner, connected,
                     described, received>>
  BY DEF Publish, toldVars
<1>2. ListsInv /\ NodeTypes /\ e \notin Listed
  BY <1>1 DEF NodeInv, ListsInv, NodeTypes, Listed
<1>3. \A p : Reach(nextEvent', p) = EventsFrom(p)
  BY <1>1 DEF EventsFrom
<1>4. EventsFrom(listHead)' = EventsFrom(listHead) /\ ToDescribe' = ToDescribe
  BY <1>1 DEF EventsFrom, ToDescribe
<1>5. CASE newList # nextEvent[e]
  <2>1. newList' = newList /\ reg' = [reg EXCEPT ![e] = "load"]
    BY <1>5 DEF Publish
  <2>2. Listed' = Listed /\ NodeTypes'
    BY <1>1, <1>2, <2>1 DEF Listed, NodeTypes
  <2>3. EventsFrom(newList)' = EventsFrom(newList)
    BY <1>1, <2>1 DEF EventsFrom
  <2>4. NodeLinkInv' /\ EveryEventListed'
    BY <1>1, <1>2, <1>3, <1>4, <2>2, <2>3 DEF ListsInv, NodeLinkInv, EveryEventListed, EventsFrom
  <2>5. ToldInv' /\ HeldInv'
    BY <1>1, <1>4, <2>2 DEF NodeInv, ToldInv, HeldInv
  <2> QED
    BY <2>2, <2>4, <2>5 DEF NodeInv, ListsInv
<1>6. CASE newList = nextEvent[e]
  <2>1. newList' = e /\ reg' = [reg EXCEPT ![e] = "listed"]
    BY <1>6 DEF Publish
  <2>2. Listed' = Listed \union {e} /\ NodeTypes'
    BY <1>1, <1>2, <2>1 DEF Listed, NodeTypes
  <2>3. EventsFrom(newList)' = {e} \union EventsFrom(newList)
    BY <1>1, <1>2, <1>6, <2>1, EventWalks DEF EventsFrom
  <2>4. NodeLinkInv' /\ EveryEventListed'
    BY <1>1, <1>2, <1>3, <1>4, <2>2, <2>3 DEF ListsInv, NodeLinkInv, EveryEventListed, EventsFrom
  <2>5. ToldInv' /\ HeldInv'
    BY <1>1, <1>4, <2>2 DEF NodeInv, ToldInv, HeldInv
  <2> QED
    BY <2>2, <2>4, <2>5 DEF NodeInv, ListsInv
<1> QED
  BY <1>5, <1>6

\* The list of new events is linked to the end of the events that the worker knows, by
\* ReadNew and by OnConnect.
LEMMA Appended ==
  ASSUME ListsInv, listHead # NoEvent, npc # "describe",
         nextEvent' = [nextEvent EXCEPT ![listTail] = newList]
  PROVE  /\ nextEvent' \in [Events -> Events \union {NoEvent}]
         /\ Reach(nextEvent', listHead) = EventsFrom(listHead) \union EventsFrom(newList)
         /\ Reach(nextEvent', newList) = EventsFrom(newList)
         /\ \A e \in Events : /\ nextEvent'[e] \in Listed \union {NoEvent}
                              /\ e \notin Reach(nextEvent', nextEvent'[e])
<1>1. /\ nextEvent \in [Events -> Events \union {NoEvent}] /\ NoEvent \notin Events
      /\ newList \in Events \union {NoEvent} /\ listHead \in Events \union {NoEvent}
      /\ \A e \in Events : nextEvent[e] \in Events \union {NoEvent}
  BY EventAssumption DEF ListsInv, NodeTypes
<1>2. /\ listTail \in EventsFrom(listHead) /\ listTail \in Events /\ nextEvent[listTail] = NoEvent
      /\ listTail \notin EventsFrom(newList)
  BY <1>1, EventWalks DEF ListsInv, EveryEventListed
<1>3. /\ nextEvent' \in [Events -> Events \union {NoEvent}] /\ nextEvent'[listTail] = newList
      /\ \A e \in Events : e # listTail => nextEvent'[e] = nextEvent[e]
  BY <1>1, <1>2
<1>4. ASSUME NEW p \in Events \union {NoEvent}
      PROVE  /\ listTail \notin EventsFrom(p) => Reach(nextEvent', p) = EventsFrom(p)
             /\ listTail \in EventsFrom(p)
                  => Reach(nextEvent', p) = EventsFrom(p) \union EventsFrom(newList)
  <2> DEFINE g == nextEvent'
  <2>1. g \in [Events -> Events \union {NoEvent}] /\ g[listTail] = newList
        /\ \A d \in Events : d # listTail => g[d] = nextEvent[d]
    BY <1>3
  <2>2. listTail \notin Reach(nextEvent, newList)
    BY <1>2 DEF EventsFrom
  <2> HIDE DEF g
  <2>3. /\ listTail \notin Reach(nextEvent, p) => Reach(g, p) = Reach(nextEvent, p)
        /\ listTail \in Reach(nextEvent, p)
             => Reach(g, p) = Reach(nextEvent, p) \union Reach(nextEvent, newList)
    BY <1>1, <1>2, <2>1, <2>2, ReachAppended
  <2> QED
    BY <2>3 DEF EventsFrom, g
<1>5. /\ Reach(nextEvent', listHead) = EventsFrom(listHead) \union EventsFrom(newList)
      /\ Reach(nextEvent', newList) = EventsFrom(newList)
  BY <1>1, <1>2, <1>4
<1>6. ASSUME NEW e \in Events PROVE nextEvent'[e] \in Listed \union {NoEvent}
  <2>1. newList \in Listed \union {NoEvent}
    BY <1>1, EventWalks DEF ListsInv, EveryEventListed
  <2> QED
    BY <1>3, <2>1 DEF ListsInv, NodeLinkInv
<1>7. ASSUME NEW e \in Events PROVE e \notin Reach(nextEvent', nextEvent'[e])
  <2>1. CASE e = listTail
    BY <1>2, <1>3, <1>5, <2>1
  <2>2. CASE e # listTail
    <3>1. e \notin EventsFrom(nextEvent[e])
      BY DEF ListsInv, EveryEventListed
    <3>2. ASSUME e \in EventsFrom(newList) PROVE listTail \notin EventsFrom(nextEvent[e])
      <4>1. nextEvent[e] = NoEvent \/ nextEvent[e] \in EventsFrom(newList)
        BY <1>1, <3>2, EventWalks
      <4>2. CASE nextEvent[e] = NoEvent
        BY <1>1, <4>2, EventWalks
      <4>3. CASE nextEvent[e] \in EventsFrom(newList)
        <5>1. EventsFrom(nextEvent[e]) \subseteq EventsFrom(newList)
          BY <1>1, <4>3, ReachInside DEF EventsFrom
        <5> QED
          BY <1>2, <5>1
      <4> QED
        BY <4>1, <4>2, <4>3
    <3> QED
      BY <1>1, <1>3, <1>4, <2>2, <3>1, <3>2
  <2> QED
    BY <2>1, <2>2
<1> QED
  BY <1>3, <1>5, <1>6, <1>7

\* Once a connection is made, the events that the worker knew are new ones.
LEMMA OnConnectKept ==
  ASSUME NodeInv, OnConnect
  PROVE  NodeInv'
<1>1. /\ npc = "onconnect" /\ npc' = "read" /\ listHead' = NoEvent /\ stage' = "connect"
      /\ listTail' = (IF listHead = NoEvent THEN listTail ELSE NoEvent)
      /\ UNCHANGED <<reg, buffered, tailed, inner, connected, described, received>>
  BY DEF OnConnect, toldVars
<1>2. ListsInv /\ NodeTypes /\ Listed' = Listed /\ NoEvent \notin Events
      /\ newList \in Events \union {NoEvent} /\ listHead \in Events \union {NoEvent}
  BY <1>1, EventAssumption DEF NodeInv, ListsInv, NodeTypes, Listed
<1>3. /\ nextEvent' \in [Events -> Events \union {NoEvent}] /\ newList' \in Events \union {NoEvent}
      /\ EventsFrom(newList)' = EventsFrom(listHead) \union EventsFrom(newList)
      /\ \A e \in Events : /\ nextEvent'[e] \in Listed \union {NoEvent}
                           /\ e \notin EventsFrom(nextEvent[e])'
  <2>1. CASE listHead = NoEvent
    <3>1. nextEvent' = nextEvent /\ newList' = newList
      BY <2>1 DEF OnConnect
    <3>2. EventsFrom(listHead) = {}
      BY <1>2, <2>1, EventWalks
    <3> QED
      BY <1>2, <3>1, <3>2 DEF EventsFrom, ListsInv, NodeTypes, NodeLinkInv, EveryEventListed
  <2>2. CASE listHead # NoEvent
    <3>1. nextEvent' = [nextEvent EXCEPT ![listTail] = newList] /\ newList' = listHead
      BY <2>2 DEF OnConnect
    <3> QED
      BY <1>1, <1>2, <2>2, <3>1, Appended DEF EventsFrom
  <2> QED
    BY <2>1, <2>2
<1>4. EventsFrom(listHead)' = {}
  <2>1. Reach(nextEvent', NoEvent) = {}
    BY <1>2, <1>3, ReachFacts
  <2> QED
    BY <1>1, <2>1 DEF EventsFrom
<1>5. NodeTypes'
  BY <1>1, <1>2, <1>3 DEF NodeTypes
<1>6. NodeLinkInv' /\ EveryEventListed'
  BY <1>1, <1>2, <1>3, <1>4 DEF ListsInv, NodeLinkInv, EveryEventListed
<1>7. ToldInv' /\ HeldInv'
  BY <1>1, <1>2, <1>4 DEF NodeInv, ToldInv, HeldInv
<1> QED
  BY <1>5, <1>6, <1>7 DEF NodeInv, ListsInv

\* What the worker takes, it knows, and is to describe.
LEMMA ReadNewKept ==
  ASSUME NodeInv, ReadNew
  PROVE  NodeInv'
<1>1. /\ npc = "read" /\ newList' = NoEvent /\ inner' = newList
      /\ listHead' = (IF listHead = NoEvent THEN newList ELSE listHead)
      /\ npc' = (IF newList = NoEvent THEN AfterDescribing ELSE "describe")
      /\ nextEvent' = (IF newList # NoEvent /\ listHead # NoEvent
                       THEN [nextEvent EXCEPT ![listTail] = newList] ELSE nextEvent)
      /\ UNCHANGED <<listTail, reg, buffered, tailed, stage, connected, described, received>>
  BY DEF ReadNew, toldVars
<1>2. ListsInv /\ NodeTypes /\ Listed' = Listed /\ NoEvent \notin Events
      /\ newList \in Events \union {NoEvent} /\ listHead \in Events \union {NoEvent}
  BY <1>1, EventAssumption DEF NodeInv, ListsInv, NodeTypes, Listed
<1>3. /\ newList = NoEvent => EventsFrom(newList) = {}
      /\ listHead = NoEvent => EventsFrom(listHead) = {}
      /\ EventsFrom(newList) \intersect EventsFrom(listHead) = {}
      /\ EventsFrom(newList) \union EventsFrom(listHead) = Listed
      /\ newList # NoEvent => newList \in EventsFrom(newList)
  BY <1>2, EventWalks DEF ListsInv, EveryEventListed
<1>4. /\ nextEvent' \in [Events -> Events \union {NoEvent}]
      /\ EventsFrom(listHead)' = Listed /\ EventsFrom(inner)' = EventsFrom(newList)
      /\ \A e \in Events : /\ nextEvent'[e] \in Listed \union {NoEvent}
                           /\ e \notin EventsFrom(nextEvent[e])'
  <2>1. CASE newList = NoEvent \/ listHead = NoEvent
    <3>1. /\ nextEvent' = nextEvent
          /\ (newList = NoEvent /\ listHead' = listHead) \/ (listHead = NoEvent /\ listHead' = newList)
      BY <1>1, <2>1
    <3>2. EventsFrom(inner)' = EventsFrom(newList) /\ EventsFrom(listHead)' = Listed
      BY <1>1, <1>3, <3>1 DEF EventsFrom
    <3> QED
      BY <1>2, <3>1, <3>2 DEF EventsFrom, ListsInv, NodeTypes, NodeLinkInv, EveryEventListed
  <2>2. CASE newList # NoEvent /\ listHead # NoEvent
    <3>1. nextEvent' = [nextEvent EXCEPT ![listTail] = newList] /\ listHead' = listHead
      BY <1>1, <2>2
    <3> QED
      BY <1>1, <1>2, <1>3, <2>2, <3>1, Appended DEF EventsFrom
  <2> QED
    BY <2>1, <2>2
<1>5. EventsFrom(newList)' = {}
  <2>1. Reach(nextEvent', NoEvent) = {}
    BY <1>2, <1>4, ReachFacts
  <2> QED
    BY <1>1, <2>1 DEF EventsFrom
<1>6. AfterDescribing \in {"tail", "drain"}
  BY DEF AfterDescribing
<1>7. NodeTypes'
  BY <1>1, <1>2, <1>4, <1>6 DEF NodeTypes
<1>8. ASSUME listHead' # NoEvent, npc' # "describe"
      PROVE  listTail' \in EventsFrom(listHead)' /\ nextEvent'[listTail'] = NoEvent
  <2>1. newList = NoEvent /\ listHead' = listHead /\ nextEvent' = nextEvent /\ listHead # NoEvent
    BY <1>1, <1>8
  <2> QED
    BY <1>1, <1>2, <2>1 DEF ListsInv, EveryEventListed, EventsFrom
<1>9. NodeLinkInv' /\ EveryEventListed'
  <2>1. npc' = "describe" => newList # NoEvent
    BY <1>1, <1>6
  <2>2. NodeLinkInv'
    BY <1>1, <1>2, <1>3, <1>4, <2>1 DEF NodeLinkInv
  <2> QED
    BY <1>2, <1>4, <1>5, <1>8, <2>2 DEF EveryEventListed
<1>10. EventsFrom(listHead)' \ ToDescribe' = EventsFrom(listHead)
  <2>1. CASE newList = NoEvent
    BY <1>1, <1>3, <1>4, <1>6, <2>1 DEF ToDescribe
  <2>2. CASE newList # NoEvent
    BY <1>1, <1>3, <1>4, <2>2 DEF ToDescribe
  <2> QED
    BY <2>1, <2>2
<1>11. ToldInv'
  <2>1. npc' # "onconnect"
    BY <1>1, <1>6
  <2>2. ToDescribe = {}
    BY <1>1 DEF ToDescribe
  <2> QED
    BY <1>1, <1>10, <2>1, <2>2 DEF NodeInv, ToldInv
<1>12. HeldInv'
  BY <1>1, <1>2, <1>4 DEF NodeInv, HeldInv
<1> QED
  BY <1>7, <1>9, <1>11, <1>12 DEF NodeInv, ListsInv

\* One more event is described, and the last of them is the end of the list.
LEMMA DescribeNextKept ==
  ASSUME NodeInv, DescribeNext
  PROVE  NodeInv'
<1>1. /\ npc = "describe" /\ inner' = nextEvent[inner]
      /\ listTail' = (IF nextEvent[inner] = NoEvent THEN inner ELSE listTail)
      /\ npc' = (IF nextEvent[inner] = NoEvent THEN AfterDescribing ELSE "describe")
      /\ described' = (IF connected THEN [described EXCEPT ![inner] = @ + 1] ELSE described)
      /\ UNCHANGED <<newList, listHead, nextEvent, reg, buffered, tailed, stage, connected, received>>
  BY DEF DescribeNext, eventVars
<1>2. /\ ListsInv /\ NodeTypes /\ Listed' = Listed /\ NoEvent \notin Events
      /\ inner \in EventsFrom(listHead) /\ inner \in Events
      /\ nextEvent[inner] \in Events \union {NoEvent} /\ described[inner] \in Nat
  <2>1. ListsInv /\ NodeTypes /\ Listed' = Listed /\ NoEvent \notin Events
        /\ listHead \in Events \union {NoEvent}
    BY <1>1, EventAssumption DEF NodeInv, ListsInv, NodeTypes, Listed
  <2>2. inner \in EventsFrom(listHead) /\ inner \in Events
    BY <1>1, <2>1, EventWalks DEF ListsInv, NodeLinkInv
  <2> QED
    BY <2>1, <2>2 DEF NodeTypes
<1>3. /\ EventsFrom(inner) = {inner} \union EventsFrom(nextEvent[inner])
      /\ inner \notin EventsFrom(nextEvent[inner])
      /\ nextEvent[inner] = NoEvent => EventsFrom(nextEvent[inner]) = {}
      /\ nextEvent[inner] = NoEvent \/ nextEvent[inner] \in EventsFrom(listHead)
  BY <1>2, EventWalks DEF ListsInv, EveryEventListed, NodeTypes
<1>4. /\ EventsFrom(listHead)' = EventsFrom(listHead) /\ EventsFrom(newList)' = EventsFrom(newList)
      /\ EventsFrom(inner)' = EventsFrom(nextEvent[inner])
      /\ \A e \in Events : EventsFrom(nextEvent[e])' = EventsFrom(nextEvent[e])
  BY <1>1 DEF EventsFrom
<1>5. AfterDescribing \in {"tail", "drain"} /\ (AfterDescribing = "tail" => stage = "connect")
  BY DEF AfterDescribing
<1>6. NodeTypes'
  BY <1>1, <1>2, <1>5 DEF NodeTypes
<1>7. NodeLinkInv'
  BY <1>1, <1>2, <1>3, <1>4, <1>5 DEF ListsInv, NodeLinkInv
<1>8. EveryEventListed'
  <2>1. npc' # "describe" => listTail' = inner /\ nextEvent[inner] = NoEvent
    BY <1>1
  <2> QED
    BY <1>1, <1>2, <1>4, <2>1 DEF ListsInv, EveryEventListed
<1>9. ToDescribe = {inner} \union ToDescribe' /\ inner \notin ToDescribe'
      /\ inner \in EventsFrom(listHead)' \ ToDescribe'
  <2>1. ToDescribe' = EventsFrom(nextEvent[inner])
    BY <1>1, <1>3, <1>4, <1>5 DEF ToDescribe
  <2> QED
    BY <1>1, <1>2, <1>3, <1>4, <2>1 DEF ToDescribe
<1>10. ToldInv'
  <2>1. described[inner] = 0 /\ npc' # "onconnect"
    BY <1>1, <1>2, <1>5, <1>9 DEF NodeInv, ToldInv
  <2>2. CASE ~connected
    BY <1>1, <1>4, <1>9, <2>1, <2>2 DEF NodeInv, ToldInv
  <2>3. CASE connected
    <3>1. described'[inner] = 1 /\ \A e \in Events : e # inner => described'[e] = described[e]
      BY <1>1, <1>2, <2>1, <2>3 DEF NodeTypes
    <3>2. EventsFrom(listHead) \subseteq Events /\ \A e \in EventsFrom(listHead) \ ToDescribe : described[e] = 1
      BY <1>1, <1>2, <2>3, EventWalks DEF NodeInv, ToldInv, NodeTypes
    <3>3. \A e \in Events : described[e] # 0 => described[e] = 1 /\ e \in EventsFrom(listHead) \ ToDescribe
      BY DEF NodeInv, ToldInv
    <3> QED
      BY <1>4, <1>9, <2>1, <3>1, <3>2, <3>3 DEF ToldInv
  <2> QED
    BY <2>2, <2>3
<1>11. HeldInv'
  BY <1>1, <1>2, <1>4, <1>5 DEF NodeInv, HeldInv
<1> QED
  BY <1>6, <1>7, <1>8, <1>10, <1>11 DEF NodeInv, ListsInv

\* The other steps leave the lists alone, and tell of no event.
LEMMA ListsRest ==
  ASSUME ListsInv, UNCHANGED <<newList, listHead, listTail, nextEvent, reg, inner>>,
         (npc # "describe" /\ npc' # "describe") \/ npc' = npc,
         npc' \in {"idle", "onconnect", "read", "describe", "tail", "announce", "drain"},
         stage' \in {"connect", "announce"}, connected' \in BOOLEAN,
         described' \in [Events -> Nat]
  PROVE  /\ ListsInv' /\ Listed' = Listed /\ EventsFrom(listHead)' = EventsFrom(listHead)
         /\ ToDescribe' = ToDescribe
<1>1. NodeTypes' /\ Listed' = Listed
  BY DEF ListsInv, NodeTypes, Listed
<1>2. /\ EventsFrom(listHead)' = EventsFrom(listHead) /\ EventsFrom(newList)' = EventsFrom(newList)
      /\ EventsFrom(inner)' = EventsFrom(inner)
      /\ \A e \in Events : EventsFrom(nextEvent[e])' = EventsFrom(nextEvent[e])
  BY DEF EventsFrom
<1>3. NodeLinkInv' /\ EveryEventListed' /\ ToDescribe' = ToDescribe
  BY <1>1, <1>2 DEF ListsInv, NodeLinkInv, EveryEventListed, ToDescribe
<1> QED
  BY <1>1, <1>2, <1>3 DEF ListsInv

\* A new client has been told of nothing.
LEMMA AcceptConnectionKept ==
  ASSUME NodeInv, AcceptConnection
  PROVE  NodeInv'
<1>1. /\ npc = "idle" /\ npc' = "onconnect" /\ connected' = TRUE
      /\ described' = [e \in Events |-> 0] /\ received' = {}
      /\ UNCHANGED <<newList, listHead, listTail, nextEvent, reg, buffered, tailed, stage, inner>>
  BY DEF AcceptConnection, eventVars
<1>2. ListsInv /\ stage \in {"connect", "announce"}
  BY DEF NodeInv, ListsInv, NodeTypes
<1>3. ListsInv' /\ Listed' = Listed
  BY <1>1, <1>2, ListsRest
<1> QED
  BY <1>1, <1>3 DEF NodeInv, ToldInv, HeldInv

\* Steps of an update that are neither about the lists nor about descriptions.
LEMMA UpdateKept ==
  ASSUME NodeInv, NoConnection \/ SendTail \/ DescribeAnnounce \/ DrainBuffers
  PROVE  NodeInv'
<1>1. /\ npc \in {"idle", "tail", "announce", "drain"} /\ npc' \in {"announce", "read", "drain", "idle"}
      /\ stage' \in {"connect", "announce"} /\ connected' \in BOOLEAN /\ described' \in [Events -> Nat]
      /\ UNCHANGED <<newList, listHead, listTail, nextEvent, reg, inner, connected, described>>
  BY DEF NoConnection, SendTail, DescribeAnnounce, DrainBuffers, NodeInv, ListsInv, NodeTypes,
         eventVars, toldVars
<1>2. ListsInv' /\ Listed' = Listed /\ EventsFrom(listHead)' = EventsFrom(listHead)
      /\ ToDescribe' = ToDescribe
  BY <1>1, ListsRest DEF NodeInv
<1>3. ToldInv'
  BY <1>1, <1>2 DEF NodeInv, ToldInv
<1>4. buffered' \subseteq Listed /\ tailed' \subseteq Listed /\ received' \subseteq Listed
  BY DEF NoConnection, SendTail, DescribeAnnounce, DrainBuffers, NodeInv, HeldInv, eventVars, toldVars
<1> QED
  BY <1>1, <1>2, <1>3, <1>4 DEF NodeInv, HeldInv

\* Only events that are listed are traced.
LEMMA TraceKept ==
  ASSUME NodeInv, NEW e \in Events, Trace(e)
  PROVE  NodeInv'
<1>1. /\ e \in Listed /\ buffered' = buffered \union {e}
      /\ UNCHANGED <<newList, listHead, listTail, nextEvent, reg, tailed, npc, stage, inner, connected,
                     described, received>>
  BY DEF Trace, toldVars, Listed
<1>2. ListsInv' /\ Listed' = Listed /\ EventsFrom(listHead)' = EventsFrom(listHead)
      /\ ToDescribe' = ToDescribe
  BY <1>1, ListsRest DEF NodeInv, ListsInv, NodeTypes
<1> QED
  BY <1>1, <1>2 DEF NodeInv, ToldInv, HeldInv

\* Without a client, nobody has been told of anything.
LEMMA LoseClientKept ==
  ASSUME NodeInv, LoseClient
  PROVE  NodeInv'
<1>1. /\ connected' = FALSE
      /\ UNCHANGED <<newList, listHead, listTail, nextEvent, reg, buffered, tailed, npc, stage, inner,
                     described, received>>
  BY DEF LoseClient, eventVars
<1>2. ListsInv' /\ Listed' = Listed /\ EventsFrom(listHead)' = EventsFrom(listHead)
      /\ ToDescribe' = ToDescribe
  BY <1>1, ListsRest DEF NodeInv, ListsInv, NodeTypes
<1> QED
  BY <1>1, <1>2 DEF NodeInv, ToldInv, HeldInv

\* The inductive invariant: at first no event is listed, and every step keeps it.
THEOREM NodeInvariant == EventSpec => []NodeInv
<1>1. ASSUME EventInit PROVE NodeInv
  <2>1. /\ NodeTypes /\ Listed = {} /\ NoEvent \notin Events
    BY <1>1, EventAssumption DEF EventInit, NodeTypes, Listed
  <2>2. /\ newList = NoEvent /\ listHead = NoEvent /\ npc = "idle" /\ ~connected
        /\ \A e \in Events : nextEvent[e] = NoEvent /\ described[e] = 0
        /\ buffered = {} /\ tailed = {} /\ received = {}
    BY <1>1 DEF EventInit
  <2>3. Reach(nextEvent, NoEvent) = {}
    BY <2>1, ReachFacts DEF NodeTypes
  <2> QED
    BY <2>1, <2>2, <2>3 DEF NodeInv, ListsInv, NodeLinkInv, EveryEventListed, ToldInv, HeldInv,
                            ToDescribe, EventsFrom
<1>2. ASSUME NodeInv, [EventNext]_nodeVars PROVE NodeInv'
  <2>1. CASE \E e \in Events : LoadNewList(e) \/ Publish(e) \/ Trace(e)
    BY <1>2, <2>1, LoadNewListKept, PublishKept, TraceKept
  <2>2. CASE NodeUpdate
    BY <1>2, <2>2, AcceptConnectionKept, OnConnectKept, ReadNewKept, DescribeNextKept, UpdateKept
       DEF NodeUpdate
  <2>3. CASE LoseClient
    BY <1>2, <2>3, LoseClientKept
  <2>4. CASE UNCHANGED nodeVars
    <3>1. UNCHANGED <<newList, listHead, listTail, nextEvent, reg, inner, npc, stage, connected,
                      buffered, tailed, described, received>>
      BY <2>4 DEF nodeVars, eventVars, toldVars
    <3>2. ListsInv' /\ Listed' = Listed /\ EventsFrom(listHead)' = EventsFrom(listHead)
          /\ ToDescribe' = ToDescribe
      BY <1>2, <3>1, ListsRest DEF NodeInv, ListsInv, NodeTypes
    <3> QED
      BY <1>2, <3>1, <3>2 DEF NodeInv, ToldInv, HeldInv
  <2> QED
    BY <1>2, <2>1, <2>2, <2>3, <2>4 DEF EventNext
<1> QED
  BY <1>1, <1>2, PTL DEF EventSpec

\* Every event that a thread has registered is in one of the two lists, once, whatever
\* threads push while the worker takes, splices and gives back lists, and a session tells
\* of no event twice.
THEOREM EventsListed == EventSpec => []ListInv
<1>1. ASSUME NodeInv PROVE ListInv
  BY <1>1 DEF NodeInv, ListsInv, NodeTypes, ToldInv, ListInv, DescribedOnce
<1> QED
  BY <1>1, NodeInvariant, PTL

\* The tail is sent after what its events are, and an event that overtakes its own
\* description is in a list that is still to be described.
THEOREM EventsDescribed == EventSpec => []DescriptionInv
<1>1. ASSUME NodeInv PROVE DescriptionInv
  <2>1. /\ HeldInv /\ ToldInv /\ EventsFrom(newList) \union EventsFrom(listHead) = Listed
    BY <1>1 DEF NodeInv, ListsInv, EveryEventListed
  <2>2. ASSUME NEW e \in EventsFrom(listHead), connected, npc # "onconnect", described[e] = 0
        PROVE  npc = "describe" /\ e \in EventsFrom(inner)
    BY <2>1, <2>2 DEF ToldInv, ToDescribe
  <2>3. DescribedBeforeTail
    <3> SUFFICES ASSUME connected, npc = "tail", NEW e \in tailed PROVE described[e] > 0
      BY DEF DescribedBeforeTail
    <3>1. described[e] = 1
      BY <2>1 DEF HeldInv, ToldInv, ToDescribe
    <3> QED
      BY <3>1
  <2>4. StillDescribed
    BY <2>1, <2>2 DEF HeldInv, ToldInv, StillDescribed
  <2> QED
    BY <2>3, <2>4 DEF DescriptionInv
<1> QED
  BY <1>1, NodeInvariant, PTL
=============================================================================
