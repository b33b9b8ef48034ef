---------------------------- MODULE ProducerProofs ----------------------------
(***************************************************************************)
(* What the CPU profiler, the memory tags and the call-stack tracer        *)
(* promise for any number of threads, scopes, names and stacks: what a     *)
(* thread refers to has been described, for that thing and no other, and   *)
(* the set of call stacks that is read without a lock loses none.          *)
(***************************************************************************)
EXTENDS CallstackTracer, CpuProfiler, MemoryTags, LinkProofs, FiniteSetTheorems, SequenceTheorems

(***************************************************************************)
(* CPU profiler                                                            *)
(***************************************************************************)
CpuTypes ==
  /\ cpuChannel \in BOOLEAN /\ switches \in Nat /\ specId \in Nat
  /\ declared \in [Scopes -> Nat] /\ nameIds \in [CpuThreads -> [Names -> Nat]]
  /\ at \in [CpuThreads -> {"idle", "enter", "spec", "write"}] /\ scopeId \in [CpuThreads -> Nat]
  /\ scope \in [CpuThreads -> Scopes \union Names \union {NoScope}]
  /\ \A b \in begun : b = <<b[1], b[2]>>

\* The spec of an id has been logged for this scope, or met a disabled channel.
Described(i, s) == <<i, s>> \in eventSpecs \/ i \in unlogged

\* An id is taken once, and by the thread that is to log its spec.
IdInv ==
  /\ \A p \in eventSpecs : p[1] \in 1 .. specId
  /\ \A p, q \in eventSpecs : p[1] = q[1] => p = q
  /\ \A t \in CpuThreads : at[t] = "spec" =>
       /\ scopeId[t] \in 1 .. specId /\ scope[t] \in Scopes \union Names
       /\ \A p \in eventSpecs : p[1] # scopeId[t]
       /\ \A u \in CpuThreads : at[u] = "spec" /\ scopeId[u] = scopeId[t] => u = t

\* An id that is kept, for a static scope or in a thread's map, is described.
KeptInv ==
  /\ \A s \in Scopes : declared[s] # 0 => Described(declared[s], s)
  /\ \A t \in CpuThreads : \A n \in Names : nameIds[t][n] # 0 => Described(nameIds[t][n], n)

\* What a thread that begins a scope will refer to, and what has been referred to.
BeginInv ==
  /\ \A t \in CpuThreads :
       /\ at[t] = "enter" => /\ scope[t] \in Scopes
                             /\ declared[scope[t]] = 0 => ~cpuChannel \/ switches > 0
       /\ at[t] = "write" => \/ Described(scopeId[t], scope[t])
                             \/ scopeId[t] = 0 /\ scope[t] \in Scopes /\ switches > 0
  /\ \A b \in begun : Described(b[1], b[2]) \/ (b[1] = 0 /\ b[2] \in Scopes /\ switches > 0)

CpuInv == CpuTypes /\ IdInv /\ KeptInv /\ BeginInv

\* The cycle that the distance of the i-th event counts from.
Before(h, i) == IF i = 1 THEN 0 ELSE h[i - 1].n

CpuEvent == [n : Nat, begin : BOOLEAN, id : Nat]

\* Events and what they tell of: the same begins and ends, each at its distance from the one before.
Tells(e, h) ==
  /\ e \in Seq(CpuEvent) /\ h \in Seq(CpuEvent) /\ Len(e) = Len(h)
  /\ \A i \in 1 .. Len(h) :
       h[i] = [n |-> Before(h, i) + e[i].n, begin |-> e[i].begin, id |-> e[i].id]

\* The buffers tell of what happened, up to LastCycle, and are empty when no scope is open.
BatchInv ==
  /\ clock \in Nat /\ misled = FALSE
  /\ depth \in [CpuThreads -> Nat] /\ size \in [CpuThreads -> Nat]
  /\ encoded \in [CpuThreads -> Seq(CpuEvent)] /\ happened \in [CpuThreads -> Seq(CpuEvent)]
  /\ lastCycle \in [CpuThreads -> Nat]
  /\ \A t \in CpuThreads :
       /\ Tells(encoded[t], happened[t])
       /\ lastCycle[t] = Before(happened[t], Len(happened[t]) + 1) /\ lastCycle[t] <= clock
       /\ size[t] + MaxEncodedEventSize <= MaxBufferSize
       /\ depth[t] = 0 => encoded[t] = <<>>
       /\ at[t] = "write" \/ (at[t] = "spec" /\ scope[t] \in Names) => depth[t] > 0

(***************************************************************************)
(* Memory tags                                                             *)
(***************************************************************************)
AnyTag  == TagNames \union {NoTag, NoName}
TagStep == {"idle", "name", "undefined", "find", "announce", "activate"}

TagTypes ==
  /\ memAlloc \in BOOLEAN /\ announced \subseteq TagNames /\ unheard \subseteq TagNames
  /\ tagSpecs \in [TagNames -> Nat]
  /\ tagPc \in [TagThreads -> TagStep]
  /\ naming \in [TagThreads -> Seq(TagNames)] /\ opening \in [TagThreads -> AnyTag]

TagScope == [active : BOOLEAN, tag : TagNames \union {NoName}, prev : AnyTag]

ScopeTypes ==
  /\ memScopes \in [TagThreads -> Seq(TagScope)]
  /\ activeTag \in [TagThreads -> AnyTag]

\* The places of the names that a thread is to describe, among those it announces.
Describing(t) ==
  {i \in 1 .. Len(naming[t]) : i < Len(naming[t]) \/ tagPc[t] = "announce"}

\* A thread announces the name of the scope it opens, and then parents of it.
Announcing(t) ==
  /\ naming[t] = <<>> <=> tagPc[t] \notin {"find", "announce"}
  /\ naming[t] # <<>> => naming[t][1] = opening[t]
  /\ tagPc[t] = "name" => opening[t] \in TagNames
  /\ tagPc[t] = "activate" => opening[t] \in announced \union {NoName}
  /\ \A i \in 1 .. Len(naming[t]) - 1 : naming[t][i + 1] = ParentName[naming[t][i]]
  /\ tagPc[t] = "announce" => ParentName[naming[t][Len(naming[t])]] \in announced \union {NoName}

\* A tag that is in use, and the parent of one that is described, are announced.
NamingInv ==
  /\ \A t \in TagThreads : Announcing(t)
  /\ tagged \subseteq announced \union {NoName}
  /\ \A n \in TagNames : tagSpecs[n] > 0 => ParentName[n] \in announced \union {NoName}

\* One thread describes a name that was new, and nobody does before or after it.
DescribeInv ==
  /\ \A t \in TagThreads : \A i \in Describing(t) :
       naming[t][i] \in announced /\ tagSpecs[naming[t][i]] = 0 /\ naming[t][i] \notin unheard
  /\ \A t, u \in TagThreads : \A i \in Describing(t), j \in Describing(u) :
       naming[t][i] = naming[u][j] => t = u /\ i = j
  /\ \A n \in announced : \/ tagSpecs[n] = 1 \/ n \in unheard
                          \/ \E t \in TagThreads : \E i \in Describing(t) : naming[t][i] = n
  /\ \A n \in TagNames : tagSpecs[n] <= 1 /\ (n \notin announced => tagSpecs[n] = 0 /\ n \notin unheard)

\* A traced scope keeps the tag that was active before it.
NestInv ==
  \A t \in TagThreads : \A k \in 1 .. Len(memScopes[t]) :
    memScopes[t][k].active => Innermost(memScopes[t], k - 1, memScopes[t][k].prev)

NamesInv == TagTypes /\ NamingInv /\ DescribeInv
ScopesInv == ScopeTypes /\ NestInv /\ ActiveTagIsInnermost

TagInv == NamesInv /\ ScopesInv

(***************************************************************************)
(* The invariant of the CPU profiler                                       *)
(***************************************************************************)
\* Before any scope nothing is referred to.
LEMMA CpuInitStep == CpuInit => CpuInv
<1> SUFFICES ASSUME CpuInit PROVE CpuInv
  OBVIOUS
<1> USE DEF CpuInit, OfEach
<1>1. CpuTypes
  BY DEF CpuTypes, NoIds
<1>2. IdInv /\ BeginInv
  BY DEF IdInv, BeginInv
<1>3. KeptInv
  BY DEF KeptInv, NoIds
<1> QED
  BY <1>1, <1>2, <1>3 DEF CpuInv

\* The names that a static scope and a dynamic one have differ.
LEMMA ScopeKinds == Scopes \intersect Names = {}
BY CpuAssumption

\* A thread takes an id that nobody has had.
LEMMA TakeSpecIdStep ==
  ASSUME CpuInv, NEW t \in CpuThreads, NEW s \in Scopes \union Names, at[t] = "idle",
         TakeSpecId(t, s), scope' = [scope EXCEPT ![t] = s],
         UNCHANGED <<cpuChannel, switches, begun>>
  PROVE  CpuInv'
<1> USE DEF TakeSpecId, Leave, CpuInv
<1>1. CpuTypes'
  BY DEF CpuTypes
<1>2. IdInv'
  <2>1. \A p \in eventSpecs : p[1] \in 1 .. specId' /\ p[1] # specId + 1
    BY DEF IdInv, CpuTypes
  <2>2. \A u \in CpuThreads : at[u] = "spec" => scopeId[u] \in 1 .. specId' /\ scopeId[u] # specId + 1
    BY DEF IdInv, CpuTypes
  <2>3. scopeId'[t] = specId + 1 /\ scopeId'[t] \in 1 .. specId' /\ scope'[t] = s
    BY DEF CpuTypes
  <2>4. \A u \in CpuThreads : u # t => at'[u] = at[u] /\ scopeId'[u] = scopeId[u] /\ scope'[u] = scope[u]
    BY DEF CpuTypes
  <2> QED
    BY <2>1, <2>2, <2>3, <2>4 DEF IdInv
<1>3. KeptInv'
  BY DEF KeptInv, Described
<1>4. BeginInv'
  BY DEF BeginInv, CpuTypes, Described
<1> QED
  BY <1>1, <1>2, <1>3, <1>4

\* It logs the spec of its id, unless the channel is disabled, and keeps the id.
LEMMA LogEventSpecStep ==
  ASSUME CpuInv, NEW t \in CpuThreads, LogEventSpec(t)
  PROVE  CpuInv'
<1> USE DEF LogEventSpec, Leave, CpuInv, cpuOutputVars
<1>1. CpuTypes'
  <2>1. declared' \in [Scopes -> Nat]
    BY DEF CpuTypes
  <2>2. nameIds' \in [CpuThreads -> [Names -> Nat]]
    <3>1. nameIds[t] \in [Names -> Nat] /\ scopeId[t] \in Nat
      BY DEF CpuTypes
    <3>2. CASE nameIds' = nameIds
      BY <3>2 DEF CpuTypes
    <3>3. CASE nameIds' # nameIds
      <4>1. nameIds' = [nameIds EXCEPT ![t] = [nameIds[t] EXCEPT ![scope[t]] = scopeId[t]]]
        BY <3>3
      <4> QED
        BY <3>1, <4>1 DEF CpuTypes
    <3> QED
      BY <3>2, <3>3
  <2>3. at' \in [CpuThreads -> {"idle", "enter", "spec", "write"}]
    BY DEF CpuTypes
  <2> QED
    BY <2>1, <2>2, <2>3 DEF CpuTypes
<1>2. /\ eventSpecs \subseteq eventSpecs' /\ unlogged \subseteq unlogged'
      /\ eventSpecs' \subseteq eventSpecs \union {<<scopeId[t], scope[t]>>}
      /\ <<scopeId[t], scope[t]>> \in eventSpecs' \/ scopeId[t] \in unlogged'
  OBVIOUS
<1>3. \A i, s : Described(i, s) => Described(i, s)'
  BY <1>2 DEF Described
<1>4. Described(scopeId[t], scope[t])'
  BY <1>2 DEF Described
<1>5. at[t] = "spec" /\ at'[t] # "spec" /\ \A u \in CpuThreads : u # t => at'[u] = at[u]
  BY DEF CpuTypes
<1>6. IdInv'
  <2>1. \A p \in eventSpecs' : p[1] \in 1 .. specId'
    BY <1>2, <1>5 DEF IdInv
  <2>2. \A p, q \in eventSpecs' : p[1] = q[1] => p = q
    BY <1>2, <1>5 DEF IdInv
  <2>3. ASSUME NEW u \in CpuThreads, at'[u] = "spec"
        PROVE  u # t /\ at[u] = "spec" /\ \A p \in eventSpecs' : p[1] # scopeId[u]
    BY <1>2, <1>5, <2>3 DEF IdInv
  <2> QED
    BY <2>1, <2>2, <2>3 DEF IdInv
<1>7. KeptInv'
  <2>1. ASSUME NEW s \in Scopes, declared'[s] # 0 PROVE Described(declared[s], s)'
    BY <1>3, <1>4, <2>1 DEF KeptInv, CpuTypes
  <2>2. ASSUME NEW u \in CpuThreads, NEW n \in Names, nameIds'[u][n] # 0 PROVE Described(nameIds[u][n], n)'
    BY <1>3, <1>4, <2>2 DEF KeptInv, CpuTypes
  <2> QED
    BY <2>1, <2>2 DEF KeptInv
<1>8. BeginInv'
  <2>1. at'[t] = "enter" => scope[t] \in Scopes /\ declared'[scope[t]] # 0
    BY <1>5, ScopeKinds DEF CpuTypes, IdInv
  <2>2. at'[t] = "write" => Described(scopeId[t], scope[t])'
    BY <1>4
  <2>3. ASSUME NEW u \in CpuThreads, at'[u] = "write"
        PROVE  \/ Described(scopeId[u], scope[u])'
               \/ scopeId[u] = 0 /\ scope[u] \in Scopes /\ switches > 0
    BY <1>3, <1>5, <2>2, <2>3 DEF BeginInv
  <2>4. ASSUME NEW u \in CpuThreads, at'[u] = "enter"
        PROVE  scope[u] \in Scopes /\ (declared'[scope[u]] = 0 => ~cpuChannel \/ switches > 0)
    <3>1. u # t => scope[u] \in Scopes /\ (declared[scope[u]] = 0 => ~cpuChannel \/ switches > 0)
      BY <1>5, <2>4 DEF BeginInv
    <3>2. \A s \in Scopes : declared[s] # 0 => declared'[s] # 0
      BY <1>5 DEF CpuTypes, IdInv
    <3> QED
      BY <2>1, <2>4, <3>1, <3>2
  <2>5. \A b \in begun : Described(b[1], b[2])' \/ (b[1] = 0 /\ b[2] \in Scopes /\ switches > 0)
    BY <1>3 DEF BeginInv
  <2> QED
    BY <2>3, <2>4, <2>5 DEF BeginInv
<1> QED
  BY <1>1, <1>6, <1>7, <1>8

\* A static scope is met: its id is taken, unless it has one or the channel is disabled.
LEMMA DeclareScopeStep ==
  ASSUME CpuInv, NEW t \in CpuThreads, NEW s \in Scopes, DeclareScope(t, s)
  PROVE  CpuInv'
<1>1. CASE cpuChannel /\ declared[s] = 0
  BY <1>1, TakeSpecIdStep DEF DeclareScope, cpuOutputVars
<1>2. CASE ~(cpuChannel /\ declared[s] = 0)
  <2> USE DEF CpuInv
  <2>1. /\ at' = [at EXCEPT ![t] = "enter"] /\ scope' = [scope EXCEPT ![t] = s]
        /\ UNCHANGED <<cpuChannel, switches, specId, declared, nameIds, eventSpecs, unlogged, scopeId, begun>>
    BY <1>2 DEF DeclareScope, Leave, specVars, cpuOutputVars
  <2>2. CpuTypes'
    BY <2>1 DEF CpuTypes
  <2>3. IdInv' /\ KeptInv'
    BY <2>1 DEF CpuTypes, IdInv, KeptInv, Described
  <2>4. BeginInv'
    BY <1>2, <2>1 DEF CpuTypes, BeginInv, Described
  <2> QED
    BY <2>2, <2>3, <2>4
<1> QED
  BY <1>1, <1>2

\* It is begun, if the channel is enabled by now, with the id that the scope has by now.
LEMMA EnterScopeStep ==
  ASSUME CpuInv, NEW t \in CpuThreads, EnterScope(t)
  PROVE  CpuInv'
<1> USE DEF CpuInv, EnterScope, Leave, specVars, cpuOutputVars
<1>1. CpuTypes'
  BY DEF CpuTypes, BeginInv
<1>2. IdInv' /\ KeptInv'
  BY DEF CpuTypes, IdInv, KeptInv, Described
<1>3. BeginInv'
  <2>1. scope[t] \in Scopes /\ (declared[scope[t]] = 0 => ~cpuChannel \/ switches > 0)
        /\ (declared[scope[t]] # 0 => Described(declared[scope[t]], scope[t]))
    BY DEF BeginInv, KeptInv
  <2> QED
    BY <2>1 DEF CpuTypes, BeginInv, Described
<1> QED
  BY <1>1, <1>2, <1>3

\* A dynamic scope is begun: its name's id is taken, unless the thread's map has one.
LEMMA BeginDynamicStep ==
  ASSUME CpuInv, NEW t \in CpuThreads, NEW n \in Names, BeginDynamic(t, n)
  PROVE  CpuInv'
<1>1. CASE nameIds[t][n] = 0
  BY <1>1, TakeSpecIdStep DEF BeginDynamic, cpuOutputVars
<1>2. CASE nameIds[t][n] # 0
  <2> USE DEF CpuInv
  <2>1. /\ at[t] = "idle" /\ at' = [at EXCEPT ![t] = "write"] /\ scope' = [scope EXCEPT ![t] = n]
        /\ scopeId' = [scopeId EXCEPT ![t] = nameIds[t][n]]
        /\ UNCHANGED <<cpuChannel, switches, specId, declared, nameIds, eventSpecs, unlogged, begun>>
    BY <1>2 DEF BeginDynamic, Leave, specVars, cpuOutputVars
  <2>2. CpuTypes'
    BY <2>1 DEF CpuTypes
  <2>3. IdInv' /\ KeptInv'
    BY <2>1 DEF CpuTypes, IdInv, KeptInv, Described
  <2>4. BeginInv'
    BY <1>2, <2>1 DEF CpuTypes, BeginInv, KeptInv, Described
  <2> QED
    BY <2>2, <2>3, <2>4
<1> QED
  BY <1>1, <1>2

\* The begin of a scope refers to what the thread had found to be described.
LEMMA WriteBeginStep ==
  ASSUME CpuInv, NEW t \in CpuThreads, WriteBegin(t)
  PROVE  CpuInv'
<1> USE DEF CpuInv
<1>1. /\ at[t] = "write" /\ at' = [at EXCEPT ![t] = "idle"] /\ scope' = [scope EXCEPT ![t] = NoScope]
      /\ scopeId' = [scopeId EXCEPT ![t] = 0] /\ begun' = begun \union {<<scopeId[t], scope[t]>>}
      /\ UNCHANGED <<cpuChannel, switches, specId, declared, nameIds, eventSpecs, unlogged>>
  BY DEF WriteBegin, AddEvent, Leave, specVars
<1>2. CpuTypes'
  BY <1>1 DEF CpuTypes
<1>3. IdInv' /\ KeptInv'
  BY <1>1 DEF CpuTypes, IdInv, KeptInv, Described
<1>4. BeginInv'
  BY <1>1 DEF CpuTypes, BeginInv, Described
<1> QED
  BY <1>2, <1>3, <1>4

\* Ends of scopes refer to nothing, and the map of a thread that exits goes with it.
LEMMA OtherCpuSteps ==
  ASSUME CpuInv, SwitchCpuChannel \/ \E t \in CpuThreads : EndScope(t) \/ ExitThread(t)
  PROVE  CpuInv'
<1> USE DEF CpuInv
<1>1. /\ (cpuChannel' = cpuChannel /\ switches' = switches)
         \/ (cpuChannel' = ~cpuChannel /\ switches' = switches + 1)
      /\ UNCHANGED <<specId, declared, eventSpecs, unlogged, begun, at, scope, scopeId>>
  BY DEF SwitchCpuChannel, EndScope, ExitThread, AddEvent, specVars, beginVars, cpuOutputVars
<1>2. nameIds' = nameIds \/ \E t \in CpuThreads : nameIds' = [nameIds EXCEPT ![t] = NoIds]
  BY DEF SwitchCpuChannel, EndScope, ExitThread, specVars
<1>3. /\ nameIds' \in [CpuThreads -> [Names -> Nat]]
      /\ \A t \in CpuThreads : nameIds'[t] = nameIds[t] \/ nameIds'[t] = NoIds
  <2>1. NoIds \in [Names -> Nat] /\ nameIds \in [CpuThreads -> [Names -> Nat]]
    BY DEF CpuTypes, NoIds
  <2> HIDE DEF CpuInv
  <2> QED
    BY <1>2, <2>1
<1>4. CpuTypes'
  <2>1. cpuChannel \in BOOLEAN /\ switches \in Nat
    BY DEF CpuTypes
  <2>2. cpuChannel' \in BOOLEAN
    <3> HIDE DEF CpuInv
    <3>1. cpuChannel' = cpuChannel \/ cpuChannel' = ~cpuChannel
      BY <1>1
    <3> QED
      BY <2>1, <3>1
  <2>3. switches' \in Nat
    BY <1>1, <2>1
  <2> QED
    BY <1>1, <1>3, <2>2, <2>3 DEF CpuTypes
<1>5. IdInv' /\ BeginInv'
  BY <1>1 DEF CpuTypes, IdInv, BeginInv, Described
<1>6. KeptInv'
  BY <1>1, <1>3 DEF KeptInv, Described, NoIds
<1> QED
  BY <1>4, <1>5, <1>6

\* The invariant is inductive.
LEMMA StepPreservesCpuInv == CpuInv /\ [CpuNext]_cpuVars => CpuInv'
<1> SUFFICES ASSUME CpuInv, [CpuNext]_cpuVars PROVE CpuInv'
  OBVIOUS
<1>1. CASE UNCHANGED cpuVars
  BY <1>1 DEF cpuVars, specVars, beginVars, cpuOutputVars, CpuInv, CpuTypes, IdInv, KeptInv, BeginInv, Described
<1>2. CASE CpuNext
  BY <1>2, DeclareScopeStep, BeginDynamicStep, EnterScopeStep, LogEventSpecStep, WriteBeginStep,
     OtherCpuSteps DEF CpuNext
<1> QED
  BY <1>1, <1>2

\* The inductive invariant holds of every reachable state.
THEOREM CpuInvariant == CpuSpec => []CpuInv
BY CpuInitStep, StepPreservesCpuInv, PTL DEF CpuSpec

\* However threads meet the same scopes first, and however the channel is switched, what a
\* begin refers to has been described under this id and no other, but for the named exceptions.
THEOREM ScopesDescribed == CpuSpec => []BeginsDescribed
<1>1. CpuInv => BeginsDescribed
  BY DEF CpuInv, CpuTypes, IdInv, BeginInv, Described, BeginsDescribed
<1> QED
  BY <1>1, CpuInvariant, PTL

(***************************************************************************)
(* The batches of the CPU profiler                                         *)
(***************************************************************************)
\* A loop that divides its value until nothing is left takes some number of turns.
LEMMA EncodedLengthFacts ==
  ASSUME NEW value \in Nat
  PROVE  /\ EncodedLength(value) \in Nat
         /\ EncodedLength(value) = IF value < Digit THEN 1 ELSE EncodedLength(value \div Digit) + 1
<1> DEFINE Loop(f, m) == f = [v \in 0 .. m |-> IF v < Digit THEN 1 ELSE f[v \div Digit] + 1]
<1>1. Digit \in Nat /\ Digit > 1
  BY CpuAssumption
<1>2. \A v \in Nat : v >= Digit => v \div Digit \in 0 .. v - 1
  BY <1>1
<1>3. ASSUME NEW m \in Nat, NEW f, Loop(f, m), NEW v \in 0 .. m
      PROVE  f[v] = IF v < Digit THEN 1 ELSE f[v \div Digit] + 1
  BY <1>3
<1>4. ASSUME NEW m \in Nat, NEW f, DOMAIN f = 0 .. m, f = [v \in 0 .. m |-> f[v]],
             \A v \in 0 .. m : f[v] = IF v < Digit THEN 1 ELSE f[v \div Digit] + 1
      PROVE  Loop(f, m)
  BY <1>4
<1>5. ASSUME NEW m \in Nat, NEW f, Loop(f, m) PROVE f = [v \in 0 .. m |-> f[v]]
  BY <1>5
<1> HIDE DEF Loop
<1>6. \A m \in Nat : \E f : Loop(f, m)
  <2> DEFINE Bad == {m \in Nat : ~ \E f : Loop(f, m)}
  <2> SUFFICES ASSUME Bad # {} PROVE FALSE
    OBVIOUS
  <2>1. PICK m \in Bad : \A l \in Bad : m <= l
    BY Smallest
  <2>2. m \in Nat /\ ~ \E f : Loop(f, m)
    BY <2>1
  <2> HIDE DEF Bad
  <2>3. m # 0
    <3> DEFINE f == [v \in 0 .. 0 |-> 1]
    <3>1. \A v \in 0 .. 0 : f[v] = IF v < Digit THEN 1 ELSE f[v \div Digit] + 1
      BY <1>1
    <3>2. DOMAIN f = 0 .. 0 /\ f = [v \in 0 .. 0 |-> f[v]]
      OBVIOUS
    <3> HIDE DEF f
    <3> QED
      BY <1>4, <2>2, <3>1, <3>2
  <2>4. m - 1 \in Nat /\ ~ (m <= m - 1)
    BY <2>2, <2>3
  <2>5. PICK f : Loop(f, m - 1)
    BY <2>1, <2>4 DEF Bad
  <2> DEFINE g == [v \in 0 .. m |-> IF v < Digit THEN 1 ELSE f[v \div Digit] + 1]
  <2>6. DOMAIN g = 0 .. m /\ g = [v \in 0 .. m |-> g[v]]
        /\ \A v \in 0 .. m : g[v] = IF v < Digit THEN 1 ELSE f[v \div Digit] + 1
    OBVIOUS
  <2> HIDE DEF g
  <2>7. \A v \in 0 .. m - 1 : v \in 0 .. m /\ g[v] = f[v]
    BY <1>3, <2>2, <2>4, <2>5, <2>6
  <2>8. \A v \in 0 .. m : g[v] = IF v < Digit THEN 1 ELSE g[v \div Digit] + 1
    <3> SUFFICES ASSUME NEW v \in 0 .. m, ~ (v < Digit) PROVE g[v] = g[v \div Digit] + 1
      BY <2>6
    <3>1. v \in Nat /\ v >= Digit /\ v \div Digit \in 0 .. m - 1
      BY <1>1, <1>2, <2>2
    <3> QED
      BY <2>6, <2>7, <3>1
  <2>9. Loop(g, m)
    BY <1>4, <2>2, <2>6, <2>8
  <2> QED
    BY <2>2, <2>9
<1> DEFINE L(m) == CHOOSE f : Loop(f, m)
<1>7. \A m \in Nat : Loop(L(m), m)
  BY <1>6
<1>8. \A m : EncodedLength(m) = L(m)[m]
  BY DEF EncodedLength, Loop
<1> HIDE DEF L
\* However long a function is defined, it counts the same turns.
<1>9. ASSUME NEW m \in Nat, NEW l \in 0 .. m
      PROVE  L(l)[l] = L(m)[l] /\ L(m)[l] \in Nat
  <2> DEFINE Bad == {v \in 0 .. l : ~ (L(l)[v] = L(m)[v] /\ L(m)[v] \in Nat)}
  <2>1. ASSUME Bad # {} PROVE FALSE
    <3>1. PICK v \in Bad : \A w \in Bad : v <= w
      <4>1. Bad \in SUBSET Nat
        OBVIOUS
      <4> HIDE DEF Bad
      <4> QED
        BY <2>1, <4>1, Smallest
    <3>2. v \in 0 .. l /\ v \in 0 .. m /\ v \in Nat /\ l \in Nat
      OBVIOUS
    <3>3. /\ L(l)[v] = IF v < Digit THEN 1 ELSE L(l)[v \div Digit] + 1
          /\ L(m)[v] = IF v < Digit THEN 1 ELSE L(m)[v \div Digit] + 1
      BY <1>3, <1>7, <3>2
    <3>4. ~ (v < Digit) => v \div Digit \in 0 .. l /\ ~ (v <= v \div Digit)
      BY <1>1, <1>2, <3>2
    <3>5. ~ (v < Digit) => L(l)[v \div Digit] = L(m)[v \div Digit] /\ L(m)[v \div Digit] \in Nat
      BY <3>1, <3>4
    <3> QED
      BY <3>1, <3>3, <3>5
  <2> QED
    BY <2>1
<1>10. value \in 0 .. value
  OBVIOUS
<1>11. EncodedLength(value) = L(value)[value] /\ L(value)[value] \in Nat
  BY <1>8, <1>9, <1>10
<1>12. CASE value < Digit
  BY <1>3, <1>7, <1>10, <1>11, <1>12
<1>13. CASE ~ (value < Digit)
  <2>1. value \div Digit \in 0 .. value /\ value \div Digit \in Nat
    BY <1>1, <1>2, <1>13
  <2>2. EncodedLength(value \div Digit) = L(value)[value \div Digit]
    BY <1>8, <1>9, <2>1
  <2> QED
    BY <1>3, <1>7, <1>10, <1>11, <1>13, <2>2
<1> QED
  BY <1>11, <1>12, <1>13

\* A larger value is not shorter.
LEMMA EncodedMonotone ==
  ASSUME NEW v \in Nat, NEW w \in Nat, v <= w
  PROVE  EncodedLength(v) <= EncodedLength(w)
<1> DEFINE Bad == {x \in Nat : \E y \in Nat : x <= y /\ ~ (EncodedLength(x) <= EncodedLength(y))}
<1> SUFFICES ASSUME Bad # {} PROVE FALSE
  OBVIOUS
<1>1. PICK x \in Bad : \A z \in Bad : x <= z
  BY Smallest
<1>2. PICK y \in Nat : x \in Nat /\ x <= y /\ ~ (EncodedLength(x) <= EncodedLength(y))
  BY <1>1
<1>3. Digit \in Nat /\ Digit > 1
  BY CpuAssumption
<1>4. \A z \in Nat : EncodedLength(z) \in Nat
  BY EncodedLengthFacts
<1>5. /\ EncodedLength(x) = IF x < Digit THEN 1 ELSE EncodedLength(x \div Digit) + 1
      /\ EncodedLength(y) = IF y < Digit THEN 1 ELSE EncodedLength(y \div Digit) + 1
  BY <1>2, EncodedLengthFacts
<1>6. CASE x < Digit
  <2>1. \A z \in Nat : z >= Digit => z \div Digit \in Nat
    BY <1>3
  <2>2. y >= Digit => EncodedLength(y \div Digit) \in Nat
    BY <1>4, <2>1
  <2>3. 1 <= EncodedLength(y)
    <3>1. CASE y < Digit
      BY <1>5, <3>1
    <3>2. CASE ~ (y < Digit)
      BY <1>2, <1>3, <1>5, <2>2, <3>2
    <3> QED
      BY <3>1, <3>2
  <2> QED
    BY <1>2, <1>5, <1>6, <2>3
<1>7. CASE ~ (x < Digit)
  <2>1. /\ x \div Digit \in Nat /\ y \div Digit \in Nat /\ x \div Digit <= y \div Digit
        /\ ~ (x <= x \div Digit) /\ ~ (y < Digit)
    BY <1>2, <1>3, <1>7
  <2>2. x \div Digit \notin Bad
    BY <1>1, <2>1
  <2>3. EncodedLength(x \div Digit) <= EncodedLength(y \div Digit)
    BY <2>1, <2>2
  <2>4. EncodedLength(x \div Digit) \in Nat /\ EncodedLength(y \div Digit) \in Nat
    BY <1>4, <2>1
  <2> QED
    BY <1>2, <1>5, <1>7, <2>1, <2>3, <2>4
<1> QED
  BY <1>6, <1>7

\* No event is longer than what the buffer keeps free for one.
LEMMA EventsFit ==
  ASSUME NEW diff \in 0 .. MaxCycle, NEW i \in 0 .. MaxSpecId
  PROVE  EncodedLength(2 * diff + 1) + EncodedLength(i) <= MaxEncodedEventSize
<1>1. /\ MaxCycle \in Nat /\ MaxSpecId \in Nat /\ MaxEncodedEventSize \in Nat
      /\ EncodedLength(2 * MaxCycle + 1) + EncodedLength(MaxSpecId) <= MaxEncodedEventSize
  BY CpuAssumption
<1>2. 2 * diff + 1 \in Nat /\ 2 * MaxCycle + 1 \in Nat /\ 2 * diff + 1 <= 2 * MaxCycle + 1 /\ i \in Nat
  BY <1>1
<1>3. /\ EncodedLength(2 * diff + 1) \in Nat /\ EncodedLength(i) \in Nat
      /\ EncodedLength(2 * MaxCycle + 1) \in Nat /\ EncodedLength(MaxSpecId) \in Nat
  BY <1>1, <1>2, EncodedLengthFacts
<1>4. EncodedLength(2 * diff + 1) <= EncodedLength(2 * MaxCycle + 1) /\ EncodedLength(i) <= EncodedLength(MaxSpecId)
  BY <1>1, <1>2, EncodedMonotone
<1> QED
  BY <1>1, <1>3, <1>4

\* A reader of a batch makes of it what it tells of.
LEMMA DecodedTells ==
  ASSUME NEW e, NEW h, Tells(e, h)
  PROVE  Decoded(e) = h
<1> DEFINE n == Len(e)
           R(f) == f = [i \in 0 .. n |-> IF i = 0 THEN 0 ELSE f[i - 1] + e[i].n]
           c == [i \in 0 .. n |-> IF i = 0 THEN 0 ELSE h[i].n]
           g == CHOOSE f : R(f)
<1>1. /\ n \in Nat /\ Len(h) = n /\ DOMAIN e = 1 .. n /\ e \in Seq(CpuEvent) /\ h \in Seq(CpuEvent)
      /\ \A i \in 1 .. n : e[i] \in CpuEvent /\ h[i] \in CpuEvent
      /\ \A i \in 1 .. n : h[i] = [n |-> Before(h, i) + e[i].n, begin |-> e[i].begin, id |-> e[i].id]
  BY DEF Tells
<1>2. Decoded(e) = [i \in DOMAIN e |-> [e[i] EXCEPT !.n = g[i]]]
  BY DEF Decoded
<1> HIDE DEF n
<1>3. R(c)
  <2>1. \A i \in 1 .. n : h[i].n = (IF i = 1 THEN 0 ELSE h[i - 1].n) + e[i].n
    BY <1>1 DEF Before
  <2>2. \A i \in 0 .. n : i # 0 => i \in 1 .. n /\ i - 1 \in 0 .. n
    BY <1>1
  <2>3. \A i \in 0 .. n : i # 0 => c[i] = c[i - 1] + e[i].n
    <3> SUFFICES ASSUME NEW i \in 0 .. n, i # 0 PROVE c[i] = c[i - 1] + e[i].n
      OBVIOUS
    <3>1. c[i] = h[i].n /\ c[i - 1] = IF i - 1 = 0 THEN 0 ELSE h[i - 1].n
      BY <2>2
    <3>2. i - 1 = 0 <=> i = 1
      BY <2>2
    <3> QED
      BY <2>1, <2>2, <3>1, <3>2
  <2>4. c = [i \in 0 .. n |-> c[i]] /\ c[0] = 0
    BY <1>1
  <2> QED
    BY <2>3, <2>4
<1>4. R(g)
  BY <1>3
<1>5. \A i \in 0 .. n : i # 0 => g[i] = g[i - 1] + e[i].n /\ c[i] = c[i - 1] + e[i].n
  BY <1>3, <1>4
<1>6. 0 \in 0 .. n /\ g[0] = 0 /\ c[0] = 0
  <2>1. 0 \in 0 .. n
    BY <1>1
  <2> QED
    BY <1>3, <1>4, <2>1
<1>7. \A i \in 1 .. n : c[i] = h[i].n
  OBVIOUS
<1> HIDE DEF c, g, R
<1>8. \A i \in 0 .. n : g[i] = c[i]
  <2> DEFINE Bad == {i \in 0 .. n : g[i] # c[i]}
  <2> SUFFICES ASSUME Bad # {} PROVE FALSE
    OBVIOUS
  <2>1. PICK i \in Bad : \A j \in Bad : i <= j
    <3>1. Bad \in SUBSET Nat
      BY <1>1
    <3> HIDE DEF Bad
    <3> QED
      BY <3>1, Smallest
  <2>2. i \in 0 .. n /\ i # 0 /\ i - 1 \in 0 .. n /\ ~ (i <= i - 1) /\ g[i] # c[i]
    BY <1>1, <1>6, <2>1
  <2>3. g[i - 1] = c[i - 1]
    BY <2>1, <2>2
  <2> QED
    BY <1>5, <2>2, <2>3
<1>9. \A i \in 1 .. n : [e[i] EXCEPT !.n = g[i]] = h[i]
  <2> SUFFICES ASSUME NEW i \in 1 .. n PROVE [e[i] EXCEPT !.n = g[i]] = h[i]
    OBVIOUS
  <2>1. g[i] = h[i].n /\ e[i] \in CpuEvent /\ h[i] \in CpuEvent
    BY <1>1, <1>7, <1>8
  <2>2. h[i].begin = e[i].begin /\ h[i].id = e[i].id
    BY <1>1
  <2> QED
    BY <2>1, <2>2 DEF CpuEvent
<1>10. h = [i \in 1 .. n |-> h[i]]
  BY <1>1
<1> QED
  BY <1>1, <1>2, <1>9, <1>10

\* One more event, at its distance from the one before.
LEMMA OneMoreTells ==
  ASSUME NEW e, NEW h, Tells(e, h), NEW cycle \in Nat, Before(h, Len(h) + 1) <= cycle,
         NEW begin \in BOOLEAN, NEW i \in Nat, NEW diff, diff = cycle - Before(h, Len(h) + 1)
  PROVE  /\ Tells(Append(e, [n |-> diff, begin |-> begin, id |-> i]),
                  Append(h, [n |-> cycle, begin |-> begin, id |-> i]))
         /\ Before(Append(h, [n |-> cycle, begin |-> begin, id |-> i]), Len(h) + 2) = cycle
<1> DEFINE last == Before(h, Len(h) + 1)
           x == [n |-> diff, begin |-> begin, id |-> i]
           y == [n |-> cycle, begin |-> begin, id |-> i]
           e2 == Append(e, x)
           h2 == Append(h, y)
           m == Len(h)
<1>1. /\ e \in Seq(CpuEvent) /\ h \in Seq(CpuEvent) /\ Len(e) = m /\ m \in Nat
      /\ \A j \in 1 .. m : h[j] = [n |-> Before(h, j) + e[j].n, begin |-> e[j].begin, id |-> e[j].id]
  BY DEF Tells
<1>2. last \in Nat
  <2>1. m # 0 => h[m] \in CpuEvent
    BY <1>1
  <2> QED
    BY <1>1, <2>1 DEF Before, CpuEvent
<1>3. x \in CpuEvent /\ y \in CpuEvent
  BY <1>2 DEF CpuEvent
<1> DEFINE X == x  Y == y
<1>4. last + X.n = cycle /\ X.begin = begin /\ X.id = i
  BY <1>2
<1> HIDE DEF x, last
<1>5. /\ e2 \in Seq(CpuEvent) /\ h2 \in Seq(CpuEvent) /\ Len(e2) = m + 1 /\ Len(h2) = m + 1
      /\ e2[m + 1] = x /\ h2[m + 1] = y
      /\ \A j \in 1 .. m : e2[j] = e[j] /\ h2[j] = h[j]
  BY <1>1, <1>3
<1> HIDE DEF e2, h2, m
<1>6. Before(h2, m + 1) = last
  <2>1. m = 0 \/ m \in 1 .. m
    BY <1>1
  <2> QED
    BY <1>1, <1>5, <2>1 DEF Before, last, m
<1>7. \A j \in 1 .. m : Before(h2, j) = Before(h, j)
  <2> SUFFICES ASSUME NEW j \in 1 .. m PROVE Before(h2, j) = Before(h, j)
    OBVIOUS
  <2>1. j = 1 \/ j - 1 \in 1 .. m
    BY <1>1
  <2> QED
    BY <1>5, <2>1 DEF Before
<1>8. \A j \in 1 .. m + 1 : h2[j] = [n |-> Before(h2, j) + e2[j].n, begin |-> e2[j].begin, id |-> e2[j].id]
  <2> SUFFICES ASSUME NEW j \in 1 .. m + 1
               PROVE  h2[j] = [n |-> Before(h2, j) + e2[j].n, begin |-> e2[j].begin, id |-> e2[j].id]
    OBVIOUS
  <2>1. CASE j = m + 1
    BY <1>4, <1>5, <1>6, <2>1
  <2>2. CASE j # m + 1
    <3>1. j \in 1 .. m
      BY <1>1, <2>2
    <3> QED
      BY <1>1, <1>5, <1>7, <3>1
  <2> QED
    BY <2>1, <2>2
<1>9. Before(h2, m + 2) = cycle
  BY <1>1, <1>5 DEF Before
<1> QED
  BY <1>5, <1>8, <1>9 DEF Tells, e2, h2, x, last, m

\* Before any event nothing is to be told.
LEMMA NothingTells == Tells(<<>>, <<>>) /\ Before(<<>>, 1) = 0
BY DEF Tells, Before

\* Before any scope nothing has happened.
LEMMA BatchInitStep == CpuInit => BatchInv
<1> SUFFICES ASSUME CpuInit PROVE BatchInv
  OBVIOUS
<1>1. MaxBufferSize \in Nat /\ MaxEncodedEventSize \in Nat /\ MaxEncodedEventSize <= MaxBufferSize
  BY CpuAssumption
<1>2. /\ encoded = [t \in CpuThreads |-> <<>>] /\ happened = [t \in CpuThreads |-> <<>>]
      /\ <<>> \in Seq(CpuEvent) /\ Len(<<>>) = 0
  BY DEF CpuInit, OfEach
<1>3. /\ encoded \in [CpuThreads -> Seq(CpuEvent)] /\ happened \in [CpuThreads -> Seq(CpuEvent)]
      /\ \A t \in CpuThreads : encoded[t] = <<>> /\ happened[t] = <<>>
  BY <1>2
<1>4. \A t \in CpuThreads : Tells(encoded[t], happened[t]) /\ Before(happened[t], Len(happened[t]) + 1) = 0
  BY <1>2, <1>3, NothingTells
<1>5. /\ clock = 0 /\ misled = FALSE
      /\ depth \in [CpuThreads -> Nat] /\ size \in [CpuThreads -> Nat] /\ lastCycle \in [CpuThreads -> Nat]
      /\ \A t \in CpuThreads : size[t] = 0 /\ lastCycle[t] = 0 /\ at[t] = "idle"
  BY DEF CpuInit, OfEach
<1> QED
  BY <1>1, <1>3, <1>4, <1>5 DEF BatchInv

\* The event that a thread adds is in its buffer or in the batch that it logs.
LEMMA AddEventStep ==
  ASSUME CpuTypes, BatchInv, NEW t \in CpuThreads, NEW begin \in BOOLEAN, NEW flush \in BOOLEAN,
         AddEvent(t, begin, flush)
  PROVE  /\ clock' \in Nat /\ clock <= clock' /\ misled' = FALSE
         /\ size' \in [CpuThreads -> Nat] /\ encoded' \in [CpuThreads -> Seq(CpuEvent)]
         /\ happened' \in [CpuThreads -> Seq(CpuEvent)] /\ lastCycle' \in [CpuThreads -> Nat]
         /\ \A u \in CpuThreads \ {t} : /\ size'[u] = size[u] /\ encoded'[u] = encoded[u]
                                        /\ happened'[u] = happened[u] /\ lastCycle'[u] = lastCycle[u]
         /\ Tells(encoded'[t], happened'[t])
         /\ lastCycle'[t] = Before(happened'[t], Len(happened'[t]) + 1) /\ lastCycle'[t] <= clock'
         /\ size'[t] + MaxEncodedEventSize <= MaxBufferSize
         /\ flush => encoded'[t] = <<>>
<1>1. PICK step \in Steps :
        LET cycle  == clock + step
            i      == IF begin THEN scopeId[t] ELSE 0
            diff   == cycle - lastCycle[t]
            length == IF begin THEN EncodedLength(2 * diff + 1) + EncodedLength(i)
                      ELSE EncodedLength(2 * diff)
            events == Append(encoded[t], [n |-> diff, begin |-> begin, id |-> i])
            since  == Append(happened[t], [n |-> cycle, begin |-> begin, id |-> i])
        IN  /\ clock' = cycle
            /\ IF flush \/ size[t] + length >= FullBufferThreshold
               THEN /\ misled' = (misled \/ Decoded(events) # since)
                    /\ happened' = [happened EXCEPT ![t] = <<>>]
                    /\ Flushed(t)
               ELSE /\ size' = [size EXCEPT ![t] = @ + length]
                    /\ encoded' = [encoded EXCEPT ![t] = events]
                    /\ lastCycle' = [lastCycle EXCEPT ![t] = cycle]
                    /\ happened' = [happened EXCEPT ![t] = since]
                    /\ UNCHANGED misled
  BY DEF AddEvent
<1> DEFINE cycle  == clock + step
           i      == IF begin THEN scopeId[t] ELSE 0
           diff   == cycle - lastCycle[t]
           length == IF begin THEN EncodedLength(2 * diff + 1) + EncodedLength(i)
                     ELSE EncodedLength(2 * diff)
           events == Append(encoded[t], [n |-> diff, begin |-> begin, id |-> i])
           since  == Append(happened[t], [n |-> cycle, begin |-> begin, id |-> i])
<1>2. /\ clock \in Nat /\ misled = FALSE /\ size \in [CpuThreads -> Nat]
      /\ encoded \in [CpuThreads -> Seq(CpuEvent)] /\ happened \in [CpuThreads -> Seq(CpuEvent)]
      /\ lastCycle \in [CpuThreads -> Nat]
      /\ Tells(encoded[t], happened[t])
      /\ lastCycle[t] = Before(happened[t], Len(happened[t]) + 1) /\ lastCycle[t] <= clock
      /\ lastCycle[t] \in Nat /\ size[t] \in Nat
  BY DEF BatchInv
<1>3. /\ step \in Nat \ {0} /\ MaxBufferSize \in Nat /\ MaxEncodedEventSize \in Nat
      /\ MaxEncodedEventSize <= MaxBufferSize
  BY CpuAssumption
<1>4. cycle \in Nat /\ clock <= cycle /\ lastCycle[t] <= cycle /\ diff \in Nat /\ i \in Nat
  BY <1>2, <1>3 DEF CpuTypes
<1>5. length \in Nat
  <2>1. 2 * diff \in Nat /\ 2 * diff + 1 \in Nat
    BY <1>4
  <2> HIDE DEF diff, i
  <2>2. EncodedLength(2 * diff) \in Nat /\ EncodedLength(2 * diff + 1) \in Nat /\ EncodedLength(i) \in Nat
    BY <1>4, <2>1, EncodedLengthFacts
  <2> QED
    BY <2>2
<1>6. Tells(events, since) /\ Before(since, Len(since) + 1) = cycle
  <2>1. /\ Before(happened[t], Len(happened[t]) + 1) <= cycle
        /\ diff = cycle - Before(happened[t], Len(happened[t]) + 1)
        /\ Tells(encoded[t], happened[t]) /\ cycle \in Nat /\ i \in Nat /\ begin \in BOOLEAN
    BY <1>2, <1>4
  <2>2. Len(since) + 1 = Len(happened[t]) + 2
    BY <1>2
  <2> HIDE DEF cycle, i, diff
  <2>3. Tells(events, since) /\ Before(since, Len(happened[t]) + 2) = cycle
    BY ONLY <2>1, OneMoreTells
  <2> QED
    BY <2>2, <2>3
<1>7. events \in Seq(CpuEvent) /\ since \in Seq(CpuEvent) /\ Decoded(events) = since
  BY <1>6, DecodedTells DEF Tells
<1>8. /\ clock' = cycle
      /\ \/ /\ misled' = (misled \/ Decoded(events) # since)
            /\ happened' = [happened EXCEPT ![t] = <<>>]
            /\ Flushed(t)
         \/ /\ ~ flush /\ ~ (size[t] + length >= FullBufferThreshold)
            /\ size' = [size EXCEPT ![t] = size[t] + length]
            /\ encoded' = [encoded EXCEPT ![t] = events]
            /\ lastCycle' = [lastCycle EXCEPT ![t] = cycle]
            /\ happened' = [happened EXCEPT ![t] = since]
            /\ UNCHANGED misled
  BY <1>1
<1> HIDE DEF cycle, i, diff, length, events, since
<1>9. CASE /\ misled' = (misled \/ Decoded(events) # since)
           /\ happened' = [happened EXCEPT ![t] = <<>>]
           /\ Flushed(t)
  <2>1. <<>> \in Seq(CpuEvent) /\ Len(<<>>) = 0
    OBVIOUS
  <2>2. /\ size'[t] = 0 /\ encoded'[t] = <<>> /\ lastCycle'[t] = 0 /\ happened'[t] = <<>>
        /\ size' \in [CpuThreads -> Nat] /\ encoded' \in [CpuThreads -> Seq(CpuEvent)]
        /\ happened' \in [CpuThreads -> Seq(CpuEvent)] /\ lastCycle' \in [CpuThreads -> Nat]
        /\ \A u \in CpuThreads \ {t} : /\ size'[u] = size[u] /\ encoded'[u] = encoded[u]
                                       /\ happened'[u] = happened[u] /\ lastCycle'[u] = lastCycle[u]
    BY <1>2, <1>9, <2>1 DEF Flushed
  <2>3. misled' = FALSE
    BY <1>2, <1>7, <1>9
  <2> QED
    BY <1>3, <1>4, <1>8, <2>1, <2>2, <2>3, NothingTells
<1>10. CASE /\ ~ flush /\ ~ (size[t] + length >= FullBufferThreshold)
            /\ size' = [size EXCEPT ![t] = size[t] + length]
            /\ encoded' = [encoded EXCEPT ![t] = events]
            /\ lastCycle' = [lastCycle EXCEPT ![t] = cycle]
            /\ happened' = [happened EXCEPT ![t] = since]
            /\ UNCHANGED misled
  <2>1. /\ size'[t] = size[t] + length /\ encoded'[t] = events /\ lastCycle'[t] = cycle
        /\ happened'[t] = since
        /\ size' \in [CpuThreads -> Nat] /\ encoded' \in [CpuThreads -> Seq(CpuEvent)]
        /\ happened' \in [CpuThreads -> Seq(CpuEvent)] /\ lastCycle' \in [CpuThreads -> Nat]
        /\ \A u \in CpuThreads \ {t} : /\ size'[u] = size[u] /\ encoded'[u] = encoded[u]
                                       /\ happened'[u] = happened[u] /\ lastCycle'[u] = lastCycle[u]
    BY <1>2, <1>4, <1>5, <1>7, <1>10
  <2>2. size[t] + length + MaxEncodedEventSize <= MaxBufferSize
    BY <1>2, <1>3, <1>5, <1>10 DEF FullBufferThreshold
  <2> QED
    BY <1>2, <1>4, <1>6, <1>8, <1>10, <2>1, <2>2
<1> QED
  BY <1>8, <1>9, <1>10

\* What a step that logs no event has to keep.
LEMMA NoEventStep ==
  ASSUME BatchInv, UNCHANGED <<clock, misled, size, encoded, happened, lastCycle>>,
         depth' \in [CpuThreads -> Nat], \A t \in CpuThreads : depth[t] <= depth'[t],
         \A t \in CpuThreads :
           at'[t] = "write" \/ (at'[t] = "spec" /\ scope'[t] \in Names) => depth'[t] > 0
  PROVE  BatchInv'
<1>1. \A t \in CpuThreads : depth'[t] = 0 => depth[t] = 0
  BY DEF BatchInv
<1> QED
  BY <1>1 DEF BatchInv

\* Begins of scopes raise the depth before they log an event.
LEMMA BeginSteps ==
  ASSUME CpuTypes, BatchInv, NEW t \in CpuThreads,
         \/ \E s \in Scopes : DeclareScope(t, s)
         \/ \E n \in Names : BeginDynamic(t, n)
         \/ EnterScope(t) \/ LogEventSpec(t)
  PROVE  BatchInv'
<1>1. /\ depth \in [CpuThreads -> Nat] /\ at \in [CpuThreads -> {"idle", "enter", "spec", "write"}]
      /\ scope \in [CpuThreads -> Scopes \union Names \union {NoScope}]
      /\ \A u \in CpuThreads :
           at[u] = "write" \/ (at[u] = "spec" /\ scope[u] \in Names) => depth[u] > 0
  BY DEF CpuTypes, BatchInv
<1>2. /\ UNCHANGED <<clock, misled, size, encoded, happened, lastCycle>>
      /\ depth' = depth \/ depth' = [depth EXCEPT ![t] = depth[t] + 1]
  BY DEF DeclareScope, BeginDynamic, EnterScope, LogEventSpec, Prologue, bufferVars, cpuOutputVars
<1>3. depth' \in [CpuThreads -> Nat] /\ \A u \in CpuThreads : depth[u] <= depth'[u]
  BY <1>1, <1>2
<1>4. \A u \in CpuThreads \ {t} : at'[u] = at[u] /\ scope'[u] = scope[u]
  BY <1>1 DEF DeclareScope, BeginDynamic, EnterScope, LogEventSpec, TakeSpecId, Leave
<1>5. at'[t] = "write" \/ (at'[t] = "spec" /\ scope'[t] \in Names) => depth'[t] > 0
  <2>1. ASSUME NEW s \in Scopes, DeclareScope(t, s)
        PROVE  at'[t] # "write" /\ scope'[t] \notin Names
    BY <1>1, <2>1, ScopeKinds DEF DeclareScope, TakeSpecId, Leave
  <2>2. ASSUME NEW n \in Names, BeginDynamic(t, n) PROVE depth'[t] > 0
    BY <1>1, <2>2 DEF BeginDynamic, Prologue
  <2>3. CASE EnterScope(t)
    BY <1>1, <2>3 DEF EnterScope, Prologue, Leave
  <2>4. CASE LogEventSpec(t)
    BY <1>1, <2>4 DEF LogEventSpec, Leave
  <2> QED
    BY <2>1, <2>2, <2>3, <2>4
<1>6. \A u \in CpuThreads :
        at'[u] = "write" \/ (at'[u] = "spec" /\ scope'[u] \in Names) => depth'[u] > 0
  BY <1>1, <1>3, <1>4, <1>5
<1> QED
  BY <1>2, <1>3, <1>6, NoEventStep

\* The event of a begin or of an end.
LEMMA EventSteps ==
  ASSUME CpuTypes, BatchInv, NEW t \in CpuThreads, WriteBegin(t) \/ EndScope(t)
  PROVE  BatchInv'
<1>1. PICK begin \in BOOLEAN, flush \in BOOLEAN :
        /\ AddEvent(t, begin, flush)
        /\ \/ /\ begin /\ at[t] = "write" /\ at' = [at EXCEPT ![t] = "idle"]
              /\ scope' = [scope EXCEPT ![t] = NoScope] /\ depth' = depth
           \/ /\ ~ begin /\ at[t] = "idle" /\ depth[t] > 0 /\ depth' = [depth EXCEPT ![t] = depth[t] - 1]
              /\ flush = (depth[t] = 1) /\ UNCHANGED <<at, scope>>
  <2>1. CASE WriteBegin(t)
    BY <2>1 DEF WriteBegin, Leave
  <2>2. CASE EndScope(t)
    <3>1. (depth[t] = 1) \in BOOLEAN
      OBVIOUS
    <3> QED
      BY <2>2, <3>1 DEF EndScope, beginVars
  <2> QED
    BY <2>1, <2>2
<1>2. /\ clock' \in Nat /\ clock <= clock' /\ misled' = FALSE
      /\ size' \in [CpuThreads -> Nat] /\ encoded' \in [CpuThreads -> Seq(CpuEvent)]
      /\ happened' \in [CpuThreads -> Seq(CpuEvent)] /\ lastCycle' \in [CpuThreads -> Nat]
      /\ \A u \in CpuThreads \ {t} : /\ size'[u] = size[u] /\ encoded'[u] = encoded[u]
                                     /\ happened'[u] = happened[u] /\ lastCycle'[u] = lastCycle[u]
      /\ Tells(encoded'[t], happened'[t])
      /\ lastCycle'[t] = Before(happened'[t], Len(happened'[t]) + 1) /\ lastCycle'[t] <= clock'
      /\ size'[t] + MaxEncodedEventSize <= MaxBufferSize
      /\ flush => encoded'[t] = <<>>
  BY <1>1, AddEventStep
<1>3. /\ depth \in [CpuThreads -> Nat] /\ at \in [CpuThreads -> {"idle", "enter", "spec", "write"}]
      /\ scope \in [CpuThreads -> Scopes \union Names \union {NoScope}]
      /\ clock \in Nat /\ lastCycle \in [CpuThreads -> Nat]
      /\ \A u \in CpuThreads :
           /\ Tells(encoded[u], happened[u])
           /\ lastCycle[u] = Before(happened[u], Len(happened[u]) + 1) /\ lastCycle[u] <= clock
           /\ size[u] + MaxEncodedEventSize <= MaxBufferSize
           /\ depth[u] = 0 => encoded[u] = <<>>
           /\ at[u] = "write" \/ (at[u] = "spec" /\ scope[u] \in Names) => depth[u] > 0
  BY DEF CpuTypes, BatchInv
<1>4. /\ depth' \in [CpuThreads -> Nat] /\ at'[t] = "idle"
      /\ \A u \in CpuThreads \ {t} : depth'[u] = depth[u] /\ at'[u] = at[u] /\ scope'[u] = scope[u]
      /\ depth'[t] = 0 => flush
  <2>1. CASE /\ begin /\ at[t] = "write" /\ at' = [at EXCEPT ![t] = "idle"]
             /\ scope' = [scope EXCEPT ![t] = NoScope] /\ depth' = depth
    BY <1>3, <2>1
  <2>2. CASE /\ ~ begin /\ at[t] = "idle" /\ depth[t] > 0 /\ depth' = [depth EXCEPT ![t] = depth[t] - 1]
             /\ flush = (depth[t] = 1) /\ UNCHANGED <<at, scope>>
    <3>1. /\ depth' \in [CpuThreads -> Nat] /\ at'[t] = "idle"
          /\ \A u \in CpuThreads \ {t} : depth'[u] = depth[u] /\ at'[u] = at[u] /\ scope'[u] = scope[u]
          /\ depth'[t] = 0 => depth[t] = 1
      BY <1>3, <2>2
    <3> QED
      BY <2>2, <3>1, Zenon
  <2> QED
    BY <1>1, <2>1, <2>2
<1>5. ASSUME NEW u \in CpuThreads \ {t}
      PROVE  /\ Tells(encoded'[u], happened'[u])
             /\ lastCycle'[u] = Before(happened'[u], Len(happened'[u]) + 1) /\ lastCycle'[u] <= clock'
             /\ size'[u] + MaxEncodedEventSize <= MaxBufferSize
             /\ depth'[u] = 0 => encoded'[u] = <<>>
             /\ at'[u] = "write" \/ (at'[u] = "spec" /\ scope'[u] \in Names) => depth'[u] > 0
  <2>1. lastCycle[u] \in Nat /\ lastCycle[u] <= clock
    BY <1>3
  <2>2. lastCycle[u] <= clock'
    BY <1>2, <1>3, <2>1
  <2> QED
    BY <1>2, <1>3, <1>4, <2>2
<1> QED
  BY <1>2, <1>4, <1>5 DEF BatchInv

\* What was in the buffer of a thread that exits is gone, and told of by nobody.
LEMMA ExitStep ==
  ASSUME CpuTypes, BatchInv, NEW t \in CpuThreads, ExitThread(t)
  PROVE  BatchInv'
<1>1. /\ clock \in Nat /\ misled = FALSE
      /\ size \in [CpuThreads -> Nat] /\ encoded \in [CpuThreads -> Seq(CpuEvent)]
      /\ happened \in [CpuThreads -> Seq(CpuEvent)] /\ lastCycle \in [CpuThreads -> Nat]
  BY DEF BatchInv
<1>2. <<>> \in Seq(CpuEvent) /\ Len(<<>>) = 0
  OBVIOUS
<1>3. /\ size'[t] = 0 /\ encoded'[t] = <<>> /\ lastCycle'[t] = 0 /\ happened'[t] = <<>>
      /\ size' \in [CpuThreads -> Nat] /\ encoded' \in [CpuThreads -> Seq(CpuEvent)]
      /\ happened' \in [CpuThreads -> Seq(CpuEvent)] /\ lastCycle' \in [CpuThreads -> Nat]
      /\ \A u \in CpuThreads \ {t} : /\ size'[u] = size[u] /\ encoded'[u] = encoded[u]
                                     /\ happened'[u] = happened[u] /\ lastCycle'[u] = lastCycle[u]
      /\ UNCHANGED <<clock, misled, depth, at, scope>>
  BY <1>1, <1>2 DEF ExitThread, Flushed, beginVars
<1>4. Tells(encoded'[t], happened'[t]) /\ lastCycle'[t] = Before(happened'[t], Len(happened'[t]) + 1)
  BY <1>2, <1>3, NothingTells
<1>5. size'[t] + MaxEncodedEventSize <= MaxBufferSize
  BY <1>3, CpuAssumption
<1>6. ASSUME NEW u \in CpuThreads
      PROVE  /\ Tells(encoded'[u], happened'[u])
             /\ lastCycle'[u] = Before(happened'[u], Len(happened'[u]) + 1) /\ lastCycle'[u] <= clock'
             /\ size'[u] + MaxEncodedEventSize <= MaxBufferSize
             /\ depth'[u] = 0 => encoded'[u] = <<>>
             /\ at'[u] = "write" \/ (at'[u] = "spec" /\ scope'[u] \in Names) => depth'[u] > 0
  <2>1. CASE u = t
    BY <1>1, <1>3, <1>4, <1>5, <2>1 DEF BatchInv
  <2>2. CASE u # t
    BY <1>3, <2>2 DEF BatchInv
  <2> QED
    BY <2>1, <2>2
<1>7. depth \in [CpuThreads -> Nat]
  BY DEF BatchInv
<1> QED
  BY <1>1, <1>3, <1>6, <1>7 DEF BatchInv

\* The invariant of the buffers is kept by every step, given the types.
LEMMA StepPreservesBatchInv == CpuTypes /\ BatchInv /\ [CpuNext]_cpuVars => BatchInv'
<1> SUFFICES ASSUME CpuTypes, BatchInv, [CpuNext]_cpuVars PROVE BatchInv'
  OBVIOUS
<1>1. CASE UNCHANGED cpuVars
  BY <1>1 DEF cpuVars, bufferVars, beginVars, cpuOutputVars, BatchInv
<1>2. CASE SwitchCpuChannel
  BY <1>2 DEF SwitchCpuChannel, bufferVars, beginVars, cpuOutputVars, BatchInv
<1>3. ASSUME NEW t \in CpuThreads,
             \/ \E s \in Scopes : DeclareScope(t, s)
             \/ \E n \in Names : BeginDynamic(t, n)
             \/ EnterScope(t) \/ LogEventSpec(t)
      PROVE  BatchInv'
  BY <1>3, BeginSteps
<1>4. ASSUME NEW t \in CpuThreads, WriteBegin(t) \/ EndScope(t) PROVE BatchInv'
  BY <1>4, EventSteps
<1>5. ASSUME NEW t \in CpuThreads, ExitThread(t) PROVE BatchInv'
  BY <1>5, ExitStep
<1> QED
  BY <1>1, <1>2, <1>3, <1>4, <1>5 DEF CpuNext

\* Batches and buffers tell of every begin and end of a thread, in order and at its cycle, however
\* they are cut; none is held back when no scope is open, and the next event always fits.
THEOREM BatchesInOrder == CpuSpec => []BatchesTell
<1>1. CpuInit => BatchInv
  BY BatchInitStep
<1>2. CpuInv /\ BatchInv /\ [CpuNext]_cpuVars => BatchInv'
  BY StepPreservesBatchInv DEF CpuInv
<1>3. BatchInv => BatchesTell
  <2> SUFFICES ASSUME BatchInv PROVE BatchesTell
    OBVIOUS
  <2>1. \A t \in CpuThreads : Tells(encoded[t], happened[t])
    BY DEF BatchInv
  <2>2. \A t \in CpuThreads : Decoded(encoded[t]) = happened[t]
    BY <2>1, DecodedTells
  <2>3. ~ misled
    BY DEF BatchInv
  <2>4. \A t \in CpuThreads : /\ size[t] + MaxEncodedEventSize <= MaxBufferSize
                              /\ depth[t] = 0 => encoded[t] = <<>>
    BY DEF BatchInv
  <2>5. \A t \in CpuThreads : /\ Decoded(encoded[t]) = happened[t]
                              /\ depth[t] = 0 => encoded[t] = <<>>
                              /\ size[t] + MaxEncodedEventSize <= MaxBufferSize
    BY <2>2, <2>4
  <2> QED
    BY <2>3, <2>5 DEF BatchesTell
<1> QED
  BY <1>1, <1>2, <1>3, CpuInvariant, PTL DEF CpuSpec

(***************************************************************************)
(* The scopes of a thread                                                  *)
(***************************************************************************)
\* A sequence without its last element.
LEMMA FrontOf ==
  ASSUME NEW S, NEW q \in Seq(S), q # <<>>
  PROVE  /\ Len(q) \in Nat \ {0} /\ Front(q) \in Seq(S) /\ Len(Front(q)) = Len(q) - 1
         /\ \A i \in 1 .. Len(q) - 1 : Front(q)[i] = q[i]
         /\ Last(q) = q[Len(q)] /\ Last(q) \in S
<1>1. Len(q) \in Nat \ {0} /\ \A i \in 1 .. Len(q) : q[i] \in S
  OBVIOUS
<1> DEFINE n == Len(q) - 1
<1>2. n \in Nat /\ \A i \in 1 .. n : i \in 1 .. Len(q)
  BY <1>1
<1> HIDE DEF n
<1>3. \A i \in 1 .. n : q[i] \in S
  BY <1>1, <1>2
<1>4. /\ SubSeq(q, 1, n) \in Seq(S) /\ Len(SubSeq(q, 1, n)) = IF 1 <= n THEN n - 1 + 1 ELSE 0
      /\ \A i \in 1 .. n - 1 + 1 : SubSeq(q, 1, n)[i] = q[1 + i - 1]
  BY <1>2, <1>3, SubSeqProperties
<1>5. SubSeq(q, 1, n) \in Seq(S) /\ Len(SubSeq(q, 1, n)) = n
  BY <1>2, <1>4
<1>6. \A i \in 1 .. n : SubSeq(q, 1, n)[i] = q[i]
  BY <1>2, <1>4
<1> QED
  BY <1>1, <1>5, <1>6 DEF Front, Last, n

\* The first k scopes decide which of them is the innermost.
LEMMA InnermostOfFirst ==
  ASSUME NEW p, NEW q, NEW k \in Nat, NEW tag, \A i \in 1 .. k : q[i] = p[i], Innermost(p, k, tag)
  PROVE  Innermost(q, k, tag)
<1>1. \A i \in 1 .. k : \A j \in i + 1 .. k : j \in 1 .. k
  OBVIOUS
<1> QED
  BY <1>1 DEF Innermost

\* The next scope is the innermost when it was traced, and makes no difference otherwise.
LEMMA InnermostOfNext ==
  ASSUME NEW q, NEW k \in Nat, NEW tag
  PROVE  /\ q[k + 1].active /\ q[k + 1].tag = tag => Innermost(q, k + 1, tag)
         /\ ~q[k + 1].active => (Innermost(q, k, tag) <=> Innermost(q, k + 1, tag))
<1>1. 1 .. k + 1 = 1 .. k \union {k + 1} /\ k + 1 \notin 1 .. k
  OBVIOUS
<1>2. \A j \in k + 1 + 1 .. k + 1 : FALSE
  OBVIOUS
<1>3. \A i \in 1 .. k : i + 1 .. k + 1 = i + 1 .. k \union {k + 1}
  OBVIOUS
<1>4. q[k + 1].active /\ q[k + 1].tag = tag => Innermost(q, k + 1, tag)
  BY <1>1, <1>2 DEF Innermost
<1>5. ~q[k + 1].active => (Innermost(q, k, tag) <=> Innermost(q, k + 1, tag))
  BY <1>1, <1>3, Zenon DEF Innermost
<1> QED
  BY <1>4, <1>5

\* A scope is opened in the scopes that a thread has.
LEMMA ScopeOpened ==
  ASSUME ScopesInv, NEW t \in TagThreads, NEW s \in TagScope, NEW tag \in AnyTag,
         memScopes' = [memScopes EXCEPT ![t] = Append(@, s)], activeTag' = [activeTag EXCEPT ![t] = tag],
         s.active => s.tag = tag /\ s.prev = activeTag[t], ~s.active => tag = activeTag[t]
  PROVE  ScopesInv'
<1> DEFINE q == memScopes[t]
           r == memScopes'[t]
<1>1. /\ q \in Seq(TagScope) /\ Len(q) \in Nat /\ r = Append(q, s) /\ activeTag'[t] = tag
      /\ \A u \in TagThreads : u # t => memScopes'[u] = memScopes[u] /\ activeTag'[u] = activeTag[u]
  BY DEF ScopesInv, ScopeTypes
<1>2. r \in Seq(TagScope) /\ Len(r) = Len(q) + 1 /\ r[Len(q) + 1] = s /\ \A i \in 1 .. Len(q) : r[i] = q[i]
  BY <1>1
<1>3. Innermost(q, Len(q), activeTag[t])
  BY DEF ScopesInv, ActiveTagIsInnermost
<1>4. Innermost(r, Len(q), activeTag[t])
  BY <1>1, <1>2, <1>3, InnermostOfFirst
<1>5. Innermost(r, Len(r), tag)
  <2> HIDE DEF q, r
  <2>1. CASE s.active
    BY <1>1, <1>2, <2>1, InnermostOfNext
  <2>2. CASE ~s.active
    BY <1>1, <1>2, <1>4, <2>2, InnermostOfNext
  <2> QED
    BY <2>1, <2>2
<1>6. ScopeTypes'
  BY <1>1, <1>2 DEF ScopesInv, ScopeTypes
<1>7. NestInv'
  <2>1. ASSUME NEW k \in 1 .. Len(r), r[k].active PROVE Innermost(r, k - 1, r[k].prev)
    <3>1. CASE k = Len(q) + 1
      BY <1>1, <1>2, <1>4, <2>1, <3>1
    <3>2. CASE k \in 1 .. Len(q)
      <4>1. Innermost(q, k - 1, q[k].prev) /\ r[k] = q[k]
        BY <1>2, <2>1, <3>2 DEF ScopesInv, NestInv
      <4>2. k - 1 \in Nat /\ \A i \in 1 .. k - 1 : r[i] = q[i]
        BY <1>1, <1>2, <3>2
      <4> QED
        BY <4>1, <4>2, InnermostOfFirst
    <3> QED
      BY <1>1, <1>2, <3>1, <3>2
  <2> QED
    BY <1>1, <2>1 DEF ScopesInv, NestInv
<1>8. ActiveTagIsInnermost'
  BY <1>1, <1>5 DEF ScopesInv, ActiveTagIsInnermost
<1> QED
  BY <1>6, <1>7, <1>8 DEF ScopesInv

\* A traced scope that ends gives back the tag that was active before it.
LEMMA CloseMemScopeStep ==
  ASSUME ScopesInv, NEW t \in TagThreads, CloseMemScope(t)
  PROVE  ScopesInv'
<1> DEFINE q == memScopes[t]
           r == memScopes'[t]
           k == Len(q) - 1
<1>1. /\ q \in Seq(TagScope) /\ q # <<>> /\ r = Front(q)
      /\ activeTag'[t] = IF Last(q).active THEN Last(q).prev ELSE activeTag[t]
      /\ \A u \in TagThreads : u # t => memScopes'[u] = memScopes[u] /\ activeTag'[u] = activeTag[u]
      /\ memScopes' = [memScopes EXCEPT ![t] = r]
      /\ activeTag' = [activeTag EXCEPT ![t] = activeTag'[t]]
  BY DEF CloseMemScope, ScopesInv, ScopeTypes
<1>2. /\ k \in Nat /\ k + 1 = Len(q) /\ r \in Seq(TagScope) /\ Len(r) = k /\ Last(q) = q[k + 1]
      /\ Last(q) \in TagScope /\ \A i \in 1 .. k : r[i] = q[i]
  BY <1>1, FrontOf
<1>3. Innermost(q, k + 1, activeTag[t]) /\ (q[k + 1].active => Innermost(q, k, q[k + 1].prev))
  <2>1. k + 1 \in 1 .. Len(q) /\ k = (k + 1) - 1
    BY <1>2
  <2> HIDE DEF k
  <2> QED
    BY <1>2, <2>1 DEF ScopesInv, ActiveTagIsInnermost, NestInv
<1> HIDE DEF k
<1>4. Innermost(q, k, activeTag'[t])
  BY <1>1, <1>2, <1>3, InnermostOfNext
<1>5. Innermost(r, k, activeTag'[t])
  BY <1>2, <1>4, InnermostOfFirst
<1>6. ScopeTypes'
  <2>1. activeTag'[t] \in AnyTag
    BY <1>1, <1>2 DEF ScopesInv, ScopeTypes, TagScope
  <2> QED
    BY <1>1, <1>2, <2>1 DEF ScopesInv, ScopeTypes
<1>7. NestInv'
  <2>1. ASSUME NEW j \in 1 .. k, r[j].active PROVE Innermost(r, j - 1, r[j].prev)
    <3>1. j \in 1 .. Len(q) /\ r[j] = q[j] /\ j - 1 \in Nat /\ \A i \in 1 .. j - 1 : r[i] = q[i]
      BY <1>2
    <3>2. Innermost(q, j - 1, q[j].prev)
      BY <2>1, <3>1 DEF ScopesInv, NestInv
    <3> QED
      BY <3>1, <3>2, InnermostOfFirst
  <2> QED
    BY <1>1, <1>2, <2>1 DEF ScopesInv, NestInv
<1>8. ActiveTagIsInnermost'
  BY <1>1, <1>2, <1>5 DEF ScopesInv, ActiveTagIsInnermost
<1> QED
  BY <1>6, <1>7, <1>8 DEF ScopesInv

(***************************************************************************)
(* The names that threads announce                                         *)
(***************************************************************************)
\* A thread returns from the announcement of the last of its names, which is known.
LEMMA ReturnTagStep ==
  ASSUME NamesInv, NEW t \in TagThreads, naming[t] # <<>>, ReturnTag(t),
         UNCHANGED <<opening, announced>>, Last(naming[t]) \in announced
  PROVE  /\ naming' \in [TagThreads -> Seq(TagNames)]
         /\ tagPc' \in [TagThreads -> TagStep]
         /\ \A u \in TagThreads : u # t =>
              naming'[u] = naming[u] /\ tagPc'[u] = tagPc[u] /\ Describing(u)' = Describing(u)
         /\ Describing(t)' = 1 .. Len(naming[t]) - 1
         /\ \A i \in Describing(t)' : naming'[t][i] = naming[t][i]
         /\ Announcing(t)'
<1> DEFINE q == naming[t]
           r == naming'[t]
           k == Len(q) - 1
<1>1. /\ q \in Seq(TagNames) /\ q # <<>> /\ r = Front(q) /\ naming' = [naming EXCEPT ![t] = r]
      /\ tagPc'[t] = IF k = 0 THEN "activate" ELSE "announce"
      /\ tagPc' = [tagPc EXCEPT ![t] = tagPc'[t]]
      /\ \A u \in TagThreads : u # t => naming'[u] = naming[u] /\ tagPc'[u] = tagPc[u]
  <2>1. Len(q) = 1 <=> k = 0
    BY DEF NamesInv, TagTypes
  <2> HIDE DEF k
  <2> QED
    BY <2>1 DEF ReturnTag, Move, NamesInv, TagTypes
<1>2. /\ k \in Nat /\ k + 1 = Len(q) /\ r \in Seq(TagNames) /\ Len(r) = k /\ Last(q) = q[k + 1]
      /\ \A i \in 1 .. k : r[i] = q[i]
  BY <1>1, FrontOf
<1> HIDE DEF k, q, r
<1>3. /\ naming' \in [TagThreads -> Seq(TagNames)]
      /\ tagPc' \in [TagThreads -> TagStep]
  BY <1>1, <1>2 DEF NamesInv, TagTypes, TagStep
<1>4. \A u \in TagThreads : u # t => Describing(u)' = Describing(u)
  BY <1>1 DEF Describing
<1>5. Describing(t)' = 1 .. k
  <2>1. Describing(t)' = {i \in 1 .. Len(r) : i < Len(r) \/ tagPc'[t] = "announce"}
    BY DEF Describing, r
  <2>2. CASE k = 0
    BY <1>2, <2>1, <2>2
  <2>3. CASE k # 0
    BY <1>1, <1>2, <2>1, <2>3
  <2> QED
    BY <2>2, <2>3
<1>6. /\ r = <<>> <=> tagPc'[t] \notin {"find", "announce"}
      /\ r # <<>> => r[1] = opening[t]
      /\ tagPc'[t] = "activate" => opening[t] \in announced
      /\ \A i \in 1 .. Len(r) - 1 : r[i + 1] = ParentName[r[i]]
      /\ tagPc'[t] = "announce" => ParentName[r[Len(r)]] \in announced \union {NoName}
  <2>1. q[1] = opening[t] /\ \A i \in 1 .. Len(q) - 1 : q[i + 1] = ParentName[q[i]]
    BY <1>1 DEF NamesInv, NamingInv, Announcing, q
  <2>2. r = <<>> <=> k = 0
    BY <1>2
  <2>3. r # <<>> => r[1] = opening[t]
    BY <1>2, <2>1, <2>2
  <2>4. k = 0 => opening[t] \in announced
    BY <1>2, <2>1 DEF q
  <2>5. \A i \in 1 .. Len(r) - 1 : r[i + 1] = ParentName[r[i]]
    <3>1. ASSUME NEW i \in 1 .. k - 1 PROVE i \in 1 .. k /\ i + 1 \in 1 .. k /\ i \in 1 .. Len(q) - 1
      BY <1>2
    <3> QED
      BY <1>2, <2>1, <3>1
  <2>6. k # 0 => ParentName[r[Len(r)]] = Last(q)
    <3>1. k # 0 => k \in 1 .. k /\ k \in 1 .. Len(q) - 1
      BY <1>2
    <3> QED
      BY <1>2, <2>1, <3>1
  <2> QED
    BY <1>1, <2>2, <2>3, <2>4, <2>5, <2>6 DEF q
<1> QED
  BY <1>1, <1>2, <1>3, <1>4, <1>5, <1>6 DEF Announcing, k, q, r

\* What a thread announces is not affected by others.
LEMMA OthersAnnounce ==
  ASSUME NamesInv, NEW u \in TagThreads, announced \subseteq announced',
         naming'[u] = naming[u], tagPc'[u] = tagPc[u], opening'[u] = opening[u]
  PROVE  Announcing(u)'
<1>1. Announcing(u)
  BY DEF NamesInv, NamingInv
<1> QED
  BY <1>1 DEF Announcing

\* A thread that finds a name to be new is the one that is to describe it.
LEMMA NewNameStep ==
  ASSUME NamesInv, NEW t \in TagThreads, NEW k \in Nat, k \notin Describing(t),
         Describing(t)' = Describing(t) \union {k}, naming'[t][k] \in TagNames \ announced,
         announced' = announced \union {naming'[t][k]}, UNCHANGED <<tagSpecs, unheard>>,
         \A i \in Describing(t) : naming'[t][i] = naming[t][i],
         \A u \in TagThreads : u # t => naming'[u] = naming[u] /\ Describing(u)' = Describing(u)
  PROVE  DescribeInv'
<1> DEFINE n == naming'[t][k]
<1>1. n \in TagNames /\ n \notin announced /\ announced' = announced \union {n} /\ n = naming'[t][k]
  OBVIOUS
<1>2. tagSpecs[n] = 0 /\ n \notin unheard
  BY <1>1 DEF NamesInv, DescribeInv
<1> HIDE DEF n
<1>3. \A u \in TagThreads : \A i \in Describing(u)' :
        (i \in Describing(u) /\ naming'[u][i] = naming[u][i]) \/ (u = t /\ i = k /\ naming'[u][i] = n)
  BY <1>1
<1>4. \A u \in TagThreads : \A i \in Describing(u) : i \in Describing(u)' /\ naming'[u][i] = naming[u][i]
  OBVIOUS
<1>5. \A u \in TagThreads : \A i \in Describing(u) : naming[u][i] \in announced /\ naming[u][i] # n
  BY <1>1 DEF NamesInv, DescribeInv
<1>6. \A u \in TagThreads : \A i \in Describing(u)' :
        naming'[u][i] \in announced' /\ tagSpecs[naming'[u][i]] = 0 /\ naming'[u][i] \notin unheard
  BY <1>1, <1>2, <1>3, <1>5 DEF NamesInv, DescribeInv
<1>7. \A u, v \in TagThreads : \A i \in Describing(u)', j \in Describing(v)' :
        naming'[u][i] = naming'[v][j] => u = v /\ i = j
  BY <1>3, <1>5 DEF NamesInv, DescribeInv
<1>8. \A m \in announced' : \/ tagSpecs[m] = 1 \/ m \in unheard
                            \/ \E u \in TagThreads : \E i \in Describing(u)' : naming'[u][i] = m
  BY <1>1, <1>4 DEF NamesInv, DescribeInv
<1>9. \A m \in TagNames : tagSpecs[m] <= 1 /\ (m \notin announced' => tagSpecs[m] = 0 /\ m \notin unheard)
  BY <1>1 DEF NamesInv, DescribeInv
<1> QED
  BY <1>6, <1>7, <1>8, <1>9 DEF DescribeInv

\* Nothing changes for the names that threads are to describe.
LEMMA SameNamesStep ==
  ASSUME NamesInv, UNCHANGED <<announced, tagSpecs, unheard>>,
         \A u \in TagThreads : Describing(u)' = Describing(u) /\ \A i \in Describing(u) : naming'[u][i] = naming[u][i]
  PROVE  DescribeInv'
BY DEF NamesInv, DescribeInv

\* Whoever finds the name first is to describe it, its parent comes next.
LEMMA FindOrAddTagStep ==
  ASSUME NamesInv, NEW t \in TagThreads, FindOrAddTag(t)
  PROVE  NamesInv'
<1> DEFINE q == naming[t]
           k == Len(q)
           n == Last(q)
<1>1. /\ q \in Seq(TagNames) /\ q # <<>> /\ tagPc[t] = "find" /\ announced' = announced \union {n}
      /\ UNCHANGED <<memAlloc, tagSpecs, unheard, opening, tagged>>
  BY DEF FindOrAddTag, scopeVars, NamesInv, TagTypes, NamingInv, Announcing
<1>2. k \in Nat \ {0} /\ n = q[k] /\ n \in TagNames
  BY <1>1, FrontOf
<1>3. Describing(t) = 1 .. k - 1
  BY <1>1, <1>2 DEF Describing
<1>4. q[1] = opening[t] /\ \A i \in 1 .. k - 1 : q[i + 1] = ParentName[q[i]]
  BY <1>1 DEF NamesInv, NamingInv, Announcing
<1>5. CASE n \in announced
  <2>1. ReturnTag(t) /\ UNCHANGED announced
    BY <1>1, <1>5 DEF FindOrAddTag
  <2>2. /\ naming' \in [TagThreads -> Seq(TagNames)]
        /\ tagPc' \in [TagThreads -> TagStep]
        /\ \A u \in TagThreads : u # t =>
             naming'[u] = naming[u] /\ tagPc'[u] = tagPc[u] /\ Describing(u)' = Describing(u)
        /\ Describing(t)' = Describing(t) /\ \A i \in Describing(t) : naming'[t][i] = naming[t][i]
    BY <1>1, <1>3, <1>5, <2>1, ReturnTagStep
  <2>3. TagTypes'
    BY <1>1, <2>1, <2>2 DEF NamesInv, TagTypes
  <2>4. NamingInv'
    <3>1. Announcing(t)'
      BY <1>1, <1>5, <2>1, ReturnTagStep
    <3>2. \A u \in TagThreads : u # t => Announcing(u)'
      BY <1>1, <2>1, <2>2, OthersAnnounce
    <3> QED
      BY <1>1, <2>1, <3>1, <3>2 DEF NamesInv, NamingInv
  <2>5. DescribeInv'
    BY <1>1, <2>1, <2>2, SameNamesStep
  <2> QED
    BY <2>3, <2>4, <2>5 DEF NamesInv
<1>6. CASE n \notin announced /\ ParentName[n] # NoName
  <2> DEFINE r == naming'[t]
  <2>1. ParentName[n] \in TagNames
    BY <1>2, <1>6, TagAssumption
  <2>2. r = Append(q, ParentName[n]) /\ naming' = [naming EXCEPT ![t] = r] /\ UNCHANGED tagPc
    BY <1>6 DEF FindOrAddTag, NamesInv, TagTypes
  <2>3. /\ r \in Seq(TagNames) /\ Len(r) = k + 1 /\ r[k + 1] = ParentName[n]
        /\ \A i \in 1 .. k : r[i] = q[i]
    BY <1>1, <2>1, <2>2
  <2>4. \A u \in TagThreads : u # t => naming'[u] = naming[u] /\ Describing(u)' = Describing(u)
    BY <2>2 DEF Describing, NamesInv, TagTypes
  <2> HIDE DEF q, k, n, r
  <2>5. TagTypes'
    BY <1>1, <1>2, <2>2, <2>3 DEF NamesInv, TagTypes
  <2>6. Describing(t)' = 1 .. k
    BY <1>1, <1>2, <2>2, <2>3 DEF Describing, r
  <2>7. NamingInv'
    <3>1. r # <<>> /\ r[1] = opening[t]
      BY <1>2, <1>4, <2>3
    <3>2. ASSUME NEW i \in 1 .. Len(r) - 1 PROVE r[i + 1] = ParentName[r[i]]
      <4>1. CASE i = k
        BY <1>2, <2>3, <4>1
      <4>2. CASE i # k
        <5>1. i \in 1 .. k - 1 /\ i \in 1 .. k /\ i + 1 \in 1 .. k
          BY <1>2, <2>3, <4>2
        <5> QED
          BY <1>4, <2>3, <5>1
      <4> QED
        BY <4>1, <4>2
    <3> QED
      <4>1. Announcing(t)'
        BY <1>1, <2>2, <3>1, <3>2 DEF Announcing, r
      <4>2. \A u \in TagThreads : u # t => Announcing(u)'
        BY <1>1, <2>2, <2>4, OthersAnnounce
      <4> QED
        BY <1>1, <4>1, <4>2 DEF NamesInv, NamingInv
  <2>8. DescribeInv'
    <3>1. k \in Nat /\ k \notin Describing(t) /\ Describing(t)' = Describing(t) \union {k}
      BY <1>2, <1>3, <2>6
    <3>2. naming'[t][k] = n /\ \A i \in Describing(t) : naming'[t][i] = naming[t][i]
      <4>1. k \in 1 .. k /\ \A i \in 1 .. k - 1 : i \in 1 .. k
        BY <1>2
      <4> QED
        BY <1>2, <1>3, <2>3, <4>1 DEF q, r
    <3> QED
      BY <1>1, <1>2, <1>6, <2>4, <3>1, <3>2, NewNameStep
  <2> QED
    BY <2>5, <2>7, <2>8 DEF NamesInv
<1>7. CASE n \notin announced /\ ParentName[n] = NoName
  <2>1. UNCHANGED naming /\ tagPc' = [tagPc EXCEPT ![t] = "announce"]
    BY <1>7 DEF FindOrAddTag, Move
  <2>2. \A u \in TagThreads : u # t => Describing(u)' = Describing(u)
    BY <2>1 DEF Describing, NamesInv, TagTypes
  <2> HIDE DEF q, k, n
  <2>3. TagTypes' /\ tagPc'[t] = "announce"
    BY <1>1, <1>2, <2>1 DEF NamesInv, TagTypes, TagStep
  <2>4. Describing(t)' = 1 .. k
    BY <1>1, <1>2, <2>1, <2>3 DEF Describing, q, k
  <2>5. NamingInv'
    <3>1. \A u \in TagThreads : u # t => tagPc'[u] = tagPc[u]
      BY <2>1 DEF NamesInv, TagTypes
    <3>2. ParentName[naming'[t][Len(naming'[t])]] = NoName /\ naming'[t] # <<>>
      BY <1>1, <1>2, <1>7, <2>1 DEF q, k
    <3>3. Announcing(t)'
      BY <1>1, <2>1, <2>3, <3>2 DEF NamesInv, NamingInv, Announcing
    <3>4. \A u \in TagThreads : u # t => Announcing(u)'
      BY <1>1, <2>1, <3>1, OthersAnnounce
    <3> QED
      BY <1>1, <3>3, <3>4 DEF NamesInv, NamingInv
  <2>6. DescribeInv'
    <3>1. k \in Nat /\ k \notin Describing(t) /\ Describing(t)' = Describing(t) \union {k}
      BY <1>2, <1>3, <2>4
    <3>2. naming'[t][k] = n /\ \A i \in Describing(t) : naming'[t][i] = naming[t][i]
      BY <1>2, <2>1 DEF q
    <3> QED
      BY <1>1, <1>2, <1>7, <2>1, <2>2, <3>1, <3>2, NewNameStep
  <2> QED
    BY <2>3, <2>5, <2>6 DEF NamesInv
<1> QED
  BY <1>5, <1>6, <1>7

\* A name is described by the thread that found it to be new, when its parent is known.
LEMMA AnnounceTagStep ==
  ASSUME NamesInv, NEW t \in TagThreads, AnnounceTag(t)
  PROVE  NamesInv'
<1> DEFINE q == naming[t]
           k == Len(q)
           n == Last(q)
<1>1. /\ q \in Seq(TagNames) /\ q # <<>> /\ tagPc[t] = "announce" /\ ReturnTag(t)
      /\ UNCHANGED <<memAlloc, announced, opening, tagged>>
      /\ \/ tagSpecs' = [tagSpecs EXCEPT ![n] = @ + 1] /\ UNCHANGED unheard
         \/ unheard' = unheard \union {n} /\ UNCHANGED tagSpecs
  BY DEF AnnounceTag, scopeVars, NamesInv, TagTypes, NamingInv, Announcing
<1>2. k \in Nat \ {0} /\ n = q[k] /\ n \in TagNames
  BY <1>1, FrontOf
<1>3. Describing(t) = 1 .. k
  BY <1>1, <1>2 DEF Describing
<1>4. n \in announced /\ tagSpecs[n] = 0 /\ n \notin unheard /\ ParentName[n] \in announced \union {NoName}
  <2>1. k \in Describing(t)
    BY <1>2, <1>3
  <2> HIDE DEF k, n
  <2>2. n \in announced /\ tagSpecs[n] = 0 /\ n \notin unheard
    BY <1>2, <2>1 DEF NamesInv, DescribeInv
  <2> QED
    BY <1>1, <1>2, <2>2 DEF NamesInv, NamingInv, Announcing, k
<1> HIDE DEF k
<1>5. /\ naming' \in [TagThreads -> Seq(TagNames)]
      /\ tagPc' \in [TagThreads -> TagStep]
      /\ \A u \in TagThreads : u # t =>
           naming'[u] = naming[u] /\ tagPc'[u] = tagPc[u] /\ Describing(u)' = Describing(u)
      /\ Describing(t)' = 1 .. k - 1 /\ \A i \in Describing(t)' : naming'[t][i] = naming[t][i]
  BY <1>1, <1>4, ReturnTagStep DEF k
<1>6. Announcing(t)'
  BY <1>1, <1>4, ReturnTagStep
<1> HIDE DEF q, n
<1>7. /\ \A m \in TagNames : m # n => tagSpecs'[m] = tagSpecs[m] /\ (m \in unheard' <=> m \in unheard)
      /\ tagSpecs'[n] = 1 \/ (tagSpecs'[n] = 0 /\ n \in unheard')
      /\ tagSpecs' \in [TagNames -> Nat] /\ unheard' \subseteq TagNames
  <2>1. CASE tagSpecs' = [tagSpecs EXCEPT ![n] = @ + 1] /\ UNCHANGED unheard
    BY <1>2, <1>4, <2>1 DEF NamesInv, TagTypes
  <2>2. CASE unheard' = unheard \union {n} /\ UNCHANGED tagSpecs
    BY <1>2, <1>4, <2>2 DEF NamesInv, TagTypes
  <2> QED
    BY <1>1, <2>1, <2>2
<1>8. TagTypes'
  BY <1>1, <1>5, <1>7 DEF NamesInv, TagTypes
<1>9. NamingInv'
  <2>1. \A u \in TagThreads : u # t => Announcing(u)'
    BY <1>1, <1>5, OthersAnnounce
  <2>2. \A m \in TagNames : tagSpecs'[m] > 0 => ParentName[m] \in announced \union {NoName}
    BY <1>4, <1>7 DEF NamesInv, NamingInv
  <2> QED
    BY <1>1, <1>6, <2>1, <2>2 DEF NamesInv, NamingInv
<1>10. DescribeInv'
  <2>1. \A u \in TagThreads : \A i \in Describing(u)' :
          i \in Describing(u) /\ naming'[u][i] = naming[u][i] /\ naming[u][i] # n
    <3>1. \A i \in Describing(t)' : i \in Describing(t) /\ i # k
      BY <1>2, <1>3, <1>5
    <3>2. k \in Describing(t) /\ naming[t][k] = n
      BY <1>2, <1>3 DEF q
    <3> QED
      <4>1. \A i \in Describing(t) : i # k => naming[t][i] # n
        BY <3>2 DEF NamesInv, DescribeInv
      <4>2. \A u \in TagThreads : u # t => \A i \in Describing(u) : naming[u][i] # n
        BY <3>2 DEF NamesInv, DescribeInv
      <4> QED
        BY <1>5, <3>1, <4>1, <4>2
  <2>2. \A u \in TagThreads : \A i \in Describing(u) :
          (i \in Describing(u)' /\ naming'[u][i] = naming[u][i]) \/ naming[u][i] = n
    <3>1. \A i \in Describing(t) : i \in Describing(t)' \/ i = k
      BY <1>2, <1>3, <1>5
    <3>2. naming[t][k] = n
      BY <1>2 DEF q
    <3> QED
      BY <1>5, <3>1, <3>2
  <2>3. \A u \in TagThreads : \A i \in Describing(u) : naming[u][i] \in announced /\ naming[u][i] \in TagNames
    BY DEF NamesInv, TagTypes, DescribeInv
  <2>4. \A u \in TagThreads : \A i \in Describing(u)' :
          naming'[u][i] \in announced' /\ tagSpecs'[naming'[u][i]] = 0 /\ naming'[u][i] \notin unheard'
    BY <1>1, <1>7, <2>1, <2>3 DEF NamesInv, DescribeInv
  <2>5. \A u, v \in TagThreads : \A i \in Describing(u)', j \in Describing(v)' :
          naming'[u][i] = naming'[v][j] => u = v /\ i = j
    BY <2>1 DEF NamesInv, DescribeInv
  <2>6. \A m \in announced' : \/ tagSpecs'[m] = 1 \/ m \in unheard'
                              \/ \E u \in TagThreads : \E i \in Describing(u)' : naming'[u][i] = m
    <3>1. ASSUME NEW m \in announced, m # n
          PROVE  \/ tagSpecs'[m] = 1 \/ m \in unheard'
                 \/ \E u \in TagThreads : \E i \in Describing(u)' : naming'[u][i] = m
      <4>1. m \in TagNames /\ tagSpecs'[m] = tagSpecs[m] /\ (m \in unheard' <=> m \in unheard)
        BY <1>7, <3>1 DEF NamesInv, TagTypes
      <4> QED
        BY <2>2, <3>1, <4>1 DEF NamesInv, DescribeInv
    <3> QED
      BY <1>1, <1>7, <3>1
  <2>7. \A m \in TagNames : tagSpecs'[m] <= 1 /\ (m \notin announced' => tagSpecs'[m] = 0 /\ m \notin unheard')
    BY <1>1, <1>4, <1>7 DEF NamesInv, TagTypes, DescribeInv
  <2> QED
    BY <2>4, <2>5, <2>6, <2>7 DEF DescribeInv
<1> QED
  BY <1>8, <1>9, <1>10 DEF NamesInv

\* A thread opens a scope: it announces its name first, if it is to be traced.
LEMMA OpenMemScopeStep ==
  ASSUME TagInv, NEW t \in TagThreads, NEW n \in TagNames, NEW should \in BOOLEAN,
         OpenMemScope(t, n, should)
  PROVE  TagInv'
<1> USE DEF TagInv
<1>1. /\ tagPc[t] = "idle" /\ naming[t] = <<>>
      /\ UNCHANGED <<memAlloc, naming, announced, tagSpecs, unheard, activeTag, tagged>>
  BY DEF OpenMemScope, announceVars, NamesInv, NamingInv, Announcing
<1>2. CASE memAlloc /\ should
  <2>1. /\ opening' = [opening EXCEPT ![t] = n] /\ tagPc' = [tagPc EXCEPT ![t] = "name"]
        /\ UNCHANGED memScopes
    BY <1>2 DEF OpenMemScope, Move
  <2>2. TagTypes' /\ naming'[t] = <<>> /\ opening'[t] = n /\ tagPc'[t] = "name"
    BY <1>1, <2>1 DEF NamesInv, TagTypes, AnyTag, TagStep
  <2>3. \A u \in TagThreads : u # t =>
          naming'[u] = naming[u] /\ opening'[u] = opening[u] /\ tagPc'[u] = tagPc[u]
    BY <1>1, <2>1 DEF NamesInv, TagTypes
  <2>4. Describing(t)' = {} /\ Describing(t) = {}
    BY <1>1, <2>2 DEF Describing
  <2>5. \A u \in TagThreads : u # t => Describing(u)' = Describing(u)
    BY <2>3 DEF Describing
  <2>6. DescribeInv'
    BY <1>1, <2>3, <2>4, <2>5, SameNamesStep
  <2>7. NamingInv'
    <3>1. Announcing(t)'
      BY <2>2 DEF Announcing
    <3>2. \A u \in TagThreads : u # t => Announcing(u)'
      BY <1>1, <2>3, OthersAnnounce
    <3> QED
      BY <1>1, <3>1, <3>2 DEF NamesInv, NamingInv
  <2>8. ScopesInv'
    BY <1>1, <2>1 DEF ScopesInv, ScopeTypes, NestInv, ActiveTagIsInnermost
  <2> QED
    BY <2>2, <2>6, <2>7, <2>8 DEF NamesInv
<1>3. CASE ~(memAlloc /\ should)
  <2> DEFINE s == [active |-> FALSE, tag |-> n, prev |-> NoTag]
  <2>1. memScopes' = [memScopes EXCEPT ![t] = Append(@, s)] /\ UNCHANGED <<naming, opening, tagPc>>
    BY <1>3 DEF OpenMemScope
  <2>2. s \in TagScope /\ s.active = FALSE
    BY DEF TagScope, AnyTag
  <2>3. activeTag[t] \in AnyTag /\ activeTag' = [activeTag EXCEPT ![t] = activeTag[t]]
    BY <1>1 DEF ScopesInv, ScopeTypes
  <2> HIDE DEF s
  <2>4. ScopesInv'
    BY <2>1, <2>2, <2>3, ScopeOpened
  <2>5. NamesInv'
    <3>1. TagTypes'
      BY <1>1, <2>1 DEF NamesInv, TagTypes
    <3>2. NamingInv'
      BY <1>1, <2>1, OthersAnnounce DEF NamesInv, NamingInv
    <3>3. DescribeInv'
      BY <1>1, <2>1, SameNamesStep DEF Describing
    <3> QED
      BY <3>1, <3>2, <3>3 DEF NamesInv
  <2> QED
    BY <2>4, <2>5
<1> QED
  BY <1>2, <1>3

\* The name is announced if there is a tag trace, and otherwise the scope has no name.
LEMMA NameTagStep ==
  ASSUME TagInv, NEW t \in TagThreads, NameTag(t)
  PROVE  TagInv'
<1> USE DEF TagInv
<1>1. /\ tagPc[t] = "name" /\ naming[t] = <<>> /\ opening[t] \in TagNames
      /\ UNCHANGED <<memAlloc, announced, tagSpecs, unheard, memScopes, activeTag, tagged>>
  BY DEF NameTag, announceVars, scopeVars, NamesInv, NamingInv, Announcing
<1>2. /\ tagPc'[t] \in TagStep /\ tagPc' = [tagPc EXCEPT ![t] = tagPc'[t]]
      /\ naming'[t] \in Seq(TagNames) /\ naming' = [naming EXCEPT ![t] = naming'[t]]
      /\ opening'[t] \in AnyTag /\ opening' = [opening EXCEPT ![t] = opening'[t]]
  <2>1. CASE tagTrace = "none"
    BY <1>1, <2>1 DEF NameTag, Move, NamesInv, TagTypes, TagStep, AnyTag
  <2>2. CASE tagTrace = "published"
    BY <1>1, <2>2 DEF NameTag, Move, NamesInv, TagTypes, TagStep, AnyTag
  <2>3. CASE tagTrace = "built"
    <3>1. <<opening[t]>> \in Seq(TagNames) /\ opening[t] \in AnyTag
      BY <1>1 DEF AnyTag
    <3> QED
      BY <1>1, <2>3, <3>1 DEF NameTag, Move, NamesInv, TagTypes, TagStep
  <2> QED
    BY <2>1, <2>2, <2>3 DEF NameTag
<1>3. \/ tagPc'[t] = "activate" /\ naming'[t] = <<>> /\ opening'[t] = NoName
      \/ tagPc'[t] = "undefined" /\ naming'[t] = <<>> /\ opening'[t] = opening[t]
      \/ tagPc'[t] = "find" /\ naming'[t] = <<opening[t]>> /\ opening'[t] = opening[t]
  BY <1>1 DEF NameTag, Move, NamesInv, TagTypes
<1>4. TagTypes'
  BY <1>1, <1>2 DEF NamesInv, TagTypes
<1>5. \A u \in TagThreads : u # t =>
        naming'[u] = naming[u] /\ opening'[u] = opening[u] /\ tagPc'[u] = tagPc[u]
  BY <1>2 DEF NamesInv, TagTypes
<1>6. Describing(t)' = {} /\ Describing(t) = {}
  <2>1. Describing(t) = {}
    BY <1>1 DEF Describing
  <2>2. CASE naming'[t] = <<>>
    BY <2>1, <2>2 DEF Describing
  <2>3. CASE naming'[t] = <<opening[t]>> /\ tagPc'[t] = "find"
    BY <2>1, <2>3 DEF Describing
  <2> QED
    BY <1>3, <2>2, <2>3
<1>7. \A u \in TagThreads : u # t => Describing(u)' = Describing(u)
  BY <1>5 DEF Describing
<1>8. DescribeInv'
  BY <1>1, <1>5, <1>6, <1>7, SameNamesStep
<1>9. NamingInv'
  <2>1. Announcing(t)'
    <3>1. CASE naming'[t] = <<>>
      BY <1>1, <1>3, <3>1 DEF Announcing
    <3>2. CASE naming'[t] = <<opening[t]>> /\ tagPc'[t] = "find" /\ opening'[t] = opening[t]
      BY <3>2 DEF Announcing
    <3> QED
      BY <1>3, <3>1, <3>2
  <2>2. \A u \in TagThreads : u # t => Announcing(u)'
    BY <1>1, <1>5, OthersAnnounce
  <2> QED
    BY <1>1, <2>1, <2>2 DEF NamesInv, NamingInv
<1>10. ScopesInv'
  BY <1>1 DEF ScopesInv, ScopeTypes, NestInv, ActiveTagIsInnermost
<1> QED
  BY <1>4, <1>8, <1>9, <1>10 DEF NamesInv

\* A scope whose tag is known becomes the innermost traced one.
LEMMA ActivateScopeStep ==
  ASSUME TagInv, NEW t \in TagThreads, ActivateScope(t)
  PROVE  TagInv'
<1> DEFINE n == opening[t]
           s == [active |-> TRUE, tag |-> n, prev |-> activeTag[t]]
<1> USE DEF TagInv
<1>1. /\ tagPc[t] = "activate" /\ tagged' = tagged \union {n}
      /\ memScopes' = [memScopes EXCEPT ![t] = Append(@, s)] /\ activeTag' = [activeTag EXCEPT ![t] = n]
      /\ opening' = [opening EXCEPT ![t] = NoTag] /\ tagPc' = [tagPc EXCEPT ![t] = "idle"]
      /\ UNCHANGED <<memAlloc, announced, tagSpecs, unheard, naming>>
  BY DEF ActivateScope, announceVars, Move
<1>2. naming[t] = <<>> /\ n \in announced \union {NoName} /\ n \in TagNames \union {NoName}
  BY <1>1 DEF NamesInv, TagTypes, NamingInv, Announcing
<1>3. ScopesInv'
  <2>1. s \in TagScope /\ s.active /\ s.tag = n /\ s.prev = activeTag[t]
    BY <1>2 DEF ScopesInv, ScopeTypes, TagScope
  <2>2. n \in AnyTag
    BY <1>2 DEF AnyTag
  <2> HIDE DEF s, n
  <2> QED
    BY <1>1, <2>1, <2>2, ScopeOpened
<1> HIDE DEF n, s
<1>4. /\ TagTypes' /\ tagPc'[t] = "idle" /\ naming'[t] = <<>>
      /\ \A u \in TagThreads : u # t => tagPc'[u] = tagPc[u] /\ opening'[u] = opening[u]
  BY <1>1, <1>2 DEF NamesInv, TagTypes, TagStep, AnyTag
<1>5. \A u \in TagThreads : Describing(u)' = Describing(u)
  <2>1. Describing(t)' = {} /\ Describing(t) = {}
    BY <1>2, <1>4 DEF Describing
  <2>2. \A u \in TagThreads : u # t => Describing(u)' = Describing(u)
    BY <1>1, <1>4 DEF Describing
  <2> QED
    BY <2>1, <2>2
<1>6. DescribeInv'
  BY <1>1, <1>5, SameNamesStep
<1>7. NamingInv'
  <2>1. Announcing(t)'
    BY <1>4 DEF Announcing
  <2>2. \A u \in TagThreads : u # t => Announcing(u)'
    BY <1>1, <1>4, OthersAnnounce
  <2> QED
    BY <1>1, <1>2, <2>1, <2>2 DEF NamesInv, NamingInv
<1> QED
  BY <1>3, <1>4, <1>6, <1>7 DEF NamesInv

\* Before any scope no name is announced.
LEMMA TagInitStep == TagInit => TagInv
<1> SUFFICES ASSUME TagInit PROVE TagInv
  OBVIOUS
<1> USE DEF TagInit
<1>1. TagTypes
  BY DEF TagTypes, AnyTag, TagStep
<1>2. NamingInv /\ DescribeInv
  <2>1. \A t \in TagThreads : Describing(t) = {} /\ Announcing(t)
    BY DEF Describing, Announcing
  <2> QED
    BY <2>1 DEF NamingInv, DescribeInv
<1>3. ScopesInv
  BY DEF ScopesInv, ScopeTypes, NestInv, ActiveTagIsInnermost, Innermost, AnyTag
<1> QED
  BY <1>1, <1>2, <1>3 DEF TagInv, NamesInv

\* The invariant is inductive.
LEMMA StepPreservesTagInv == TagInv /\ [TagNext]_tagVars => TagInv'
<1> SUFFICES ASSUME TagInv, [TagNext]_tagVars PROVE TagInv'
  OBVIOUS
<1>1. UNCHANGED <<memScopes, activeTag>> => ScopesInv'
  BY DEF TagInv, ScopesInv, ScopeTypes, NestInv, ActiveTagIsInnermost
<1>2. memAlloc' \in BOOLEAN /\ UNCHANGED <<announced, tagSpecs, unheard, tagPc, naming, opening, tagged>>
        => NamesInv'
  BY DEF TagInv, NamesInv, TagTypes, NamingInv, Announcing, DescribeInv, Describing
<1>3. memAlloc \in BOOLEAN
  BY DEF TagInv, NamesInv, TagTypes
<1>4. CASE UNCHANGED tagVars
  BY <1>1, <1>2, <1>3, <1>4 DEF tagVars, announceVars, scopeVars, TagInv
<1>5. CASE SwitchMemAlloc \/ PublishTagTrace \/ BuildTagTrace
  <2>1. memAlloc' \in BOOLEAN /\ UNCHANGED <<announceVars, tagPc, naming, opening, scopeVars>>
    BY <1>3, <1>5 DEF SwitchMemAlloc, PublishTagTrace, BuildTagTrace
  <2> QED
    BY <1>1, <1>2, <2>1 DEF announceVars, scopeVars, TagInv
<1>6. ASSUME NEW t \in TagThreads, FindOrAddTag(t) \/ AnnounceTag(t) PROVE TagInv'
  <2>1. UNCHANGED <<memScopes, activeTag>>
    BY <1>6 DEF FindOrAddTag, AnnounceTag, scopeVars
  <2> QED
    BY <1>1, <1>6, <2>1, FindOrAddTagStep, AnnounceTagStep DEF TagInv
<1>7. ASSUME NEW t \in TagThreads, CloseMemScope(t) PROVE TagInv'
  <2>1. UNCHANGED <<memAlloc, announced, tagSpecs, unheard, tagPc, naming, opening, tagged>>
    BY <1>7 DEF CloseMemScope, announceVars
  <2> QED
    BY <1>2, <1>3, <1>7, <2>1, CloseMemScopeStep DEF TagInv
<1> QED
  BY <1>4, <1>5, <1>6, <1>7, OpenMemScopeStep, NameTagStep, ActivateScopeStep DEF TagNext

\* The inductive invariant holds of every reachable state.
THEOREM TagInvariant == TagSpec => []TagInv
BY TagInitStep, StepPreservesTagInv, PTL DEF TagSpec

\* Whichever thread comes first with a name, its description is there, on its way, or was lost to
\* a disabled channel, for every tag in use and every parent of one; and it is never repeated.
THEOREM TagsAreDescribed == TagSpec => []TagsDescribed
<1>1. TagInv => TagsDescribed
  <2> SUFFICES ASSUME TagInv PROVE TagsDescribed
    OBVIOUS
  <2>1. \A n \in tagged \union {ParentName[m] : m \in {o \in TagNames : tagSpecs[o] > 0}} :
          n # NoName => n \in announced
    BY DEF TagInv, NamesInv, NamingInv
  <2>2. \A n : (\E t \in TagThreads : \E i \in Describing(t) : naming[t][i] = n) => ToBeDescribed(n)
    BY DEF TagInv, NamesInv, TagTypes, Describing, ToBeDescribed
  <2> QED
    BY <2>1, <2>2 DEF TagInv, NamesInv, DescribeInv, TagsDescribed
<1> QED
  BY <1>1, TagInvariant, PTL

\* However deep the scopes of a thread, and whichever of them were traced while the channel was
\* switched, what it allocates belongs to the innermost traced one.
THEOREM TagsNest == TagSpec => []ActiveTagIsInnermost
<1>1. TagInv => ActiveTagIsInnermost
  BY DEF TagInv, ScopesInv
<1> QED
  BY <1>1, TagInvariant, PTL

(***************************************************************************)
(* The set of call stacks                                                  *)
(***************************************************************************)
\* Tables of any size, with any keys and ids.
Slots(n) == [0 .. n - 1 -> [key : Nat, value : Nat]]
HashTables == [used : Nat, entry : UNION {Slots(n) : n \in Nat}]

\* Turn after turn, a search for the key meets other entries, and comes to this one.
Met(T, k, i) ==
  \E d \in 0 .. TableSize(T) - 1 :
    /\ i = Probe(T, k, d)
    /\ \A e \in 0 .. TableSize(T) - 1 : e < d => T.entry[Probe(T, k, e)].key # NoKey

HasKey(T, k) == \E i \in DOMAIN T.entry : T.entry[i].key = k

\* A key is in one entry, and a search comes to it.
Sound(T) ==
  /\ T \in HashTables /\ TableSize(T) > 1
  /\ \A i \in DOMAIN T.entry : T.entry[i].key # NoKey => Met(T, T.entry[i].key, i)
  /\ \A i, j \in DOMAIN T.entry : T.entry[i].key = T.entry[j].key /\ T.entry[i].key # NoKey => i = j

Filled(T) == {i \in DOMAIN T.entry : T.entry[i].key # NoKey}

\* A key and its value come together.
Complete(T, i) == T.entry[i].key # NoKey <=> T.entry[i].value # 0

States == {"idle", "get", "lock", "construct", "undefined", "find", "probe", "new", "reserve",
           "emplace", "insert", "key", "value", "spec", "trace"}
Inscribing == {"key", "value", "spec"}
Inserting == {"insert", "key", "value"}

TracerTypes ==
  /\ pc \in [Threads -> States] /\ key \in [Threads -> Nat] /\ id \in [Threads -> Nat]
  /\ seen \in [Threads -> Nat] /\ index \in [Threads -> Nat]
  /\ tables \in Seq(HashTables) /\ taken \in Seq(Nat)
  /\ late \in BOOLEAN /\ instance \in {"none", "published", "built"}
  /\ lock \in Threads \union {NoThread}
  /\ \A e \in specs \union allocs : e = <<e[1], e[2]>>

\* The id is that of this stack, and its frames are logged or will be, or could not be.
Settled(k, v) ==
  \/ <<k, v>> \in specs \/ v \in skipped
  \/ \E t \in Threads : id[t] = v /\ pc[t] \in Inscribing
Took(k, v) == v \in 1 .. Len(taken) /\ taken[v] = k

\* Tables are sound and not full, and hold no ids but those that were taken.
TablesInv ==
  \A m \in 1 .. Len(tables) :
    /\ Sound(tables[m]) /\ HasKey(tables[m], NoKey)
    /\ \A i \in DOMAIN tables[m].entry :
         tables[m].entry[i].key # NoKey /\ tables[m].entry[i].value # 0 =>
           Took(tables[m].entry[i].key, tables[m].entry[i].value)
             /\ Settled(tables[m].entry[i].key, tables[m].entry[i].value)

\* Where the thread that writes to the current table is.
Writer(t, T) ==
  /\ key[t] # NoKey /\ id[t] # 0 /\ T.used + 1 < TableSize(T)
  /\ pc[t] = "insert" =>
       /\ ~ HasKey(T, key[t]) /\ Cardinality(Filled(T)) <= T.used
       /\ \A i \in DOMAIN T.entry : Complete(T, i)
  /\ pc[t] # "insert" =>
       /\ index[t] \in DOMAIN T.entry
       /\ \A i \in DOMAIN T.entry : i # index[t] => Complete(T, i)
  /\ pc[t] = "key" =>
       /\ ~ HasKey(T, key[t]) /\ Cardinality(Filled(T)) <= T.used
       /\ T.entry[index[t]].key = NoKey /\ Met(T, key[t], index[t])
  /\ pc[t] = "value" =>
       /\ Cardinality(Filled(T)) <= T.used + 1
       /\ T.entry[index[t]] = [key |-> key[t], value |-> 0]

CurrentInv ==
  /\ \A t \in Threads : pc[t] \in Inserting <=> lock = t
  /\ tables = <<>> => lock = NoThread /\ known = {}
  /\ tables # <<>> /\ lock = NoThread =>
       /\ \A i \in DOMAIN HashTable.entry : Complete(HashTable, i)
       /\ Cardinality(Filled(HashTable)) <= HashTable.used
       /\ HashTable.used < TableSize(HashTable)
  /\ \A t \in Threads : lock = t => Writer(t, HashTable)

\* What a thread knows of its stack and of the id it was given.
Knows(t) ==
  /\ seen[t] <= Len(tables)
  /\ pc[t] # "idle" => key[t] # NoKey
  /\ pc[t] \in {"reserve", "emplace", "insert", "key", "value", "spec"} => Took(key[t], id[t])
  /\ pc[t] = "trace" /\ id[t] # 0 => Took(key[t], id[t]) /\ Settled(key[t], id[t])

ThreadInv == \A t \in Threads : Knows(t)

LogsInv ==
  /\ \A e \in specs \union allocs : e[2] # 0 => Took(e[1], e[2])
  /\ \A e \in allocs : e[2] # 0 => Settled(e[1], e[2])

KnownInv == \A k \in known : k # NoKey /\ (late \/ HasKey(HashTable, k))

TracerInv ==
  TracerTypes /\ TablesInv /\ CurrentInv /\ ThreadInv /\ LogsInv /\ KnownInv

(***************************************************************************)
(* What the operators of LockFreeHash find, add and copy                   *)
(***************************************************************************)
\* The least of a set of numbers, as the code's loops find it.
LEMMA LeastTurn ==
  ASSUME NEW D \in SUBSET Nat, D # {}
  PROVE  Min(D) \in D /\ \A e \in D : Min(D) <= e
BY Smallest DEF Min

\* What a table is made of.
LEMMA TableFacts ==
  ASSUME NEW T \in HashTables
  PROVE  /\ TableSize(T) \in Nat /\ DOMAIN T.entry = 0 .. TableSize(T) - 1
         /\ T.entry \in Slots(TableSize(T))
         /\ \A i \in DOMAIN T.entry : T.entry[i].key \in Nat /\ T.entry[i].value \in Nat
         /\ T.used \in Nat
<1>1. PICK n \in Nat : T.entry \in Slots(n)
  BY DEF HashTables
<1>2. DOMAIN T.entry = 0 .. n - 1
  BY <1>1 DEF Slots
<1>3. Cardinality(0 .. n - 1) = n
  <2>1. 0 \in Int /\ n - 1 \in Int
    OBVIOUS
  <2>2. Cardinality(0 .. n - 1) = IF 0 > n - 1 THEN 0 ELSE (n - 1) - 0 + 1
    BY ONLY <2>1, FS_Interval
  <2> QED
    BY <2>2
<1>4. TableSize(T) = n
  BY <1>2, <1>3 DEF TableSize
<1>5. \A i \in DOMAIN T.entry : T.entry[i] \in [key : Nat, value : Nat]
  BY <1>1, <1>2 DEF Slots
<1>6. T.used \in Nat
  BY DEF HashTables
<1> QED
  BY <1>1, <1>2, <1>4, <1>5, <1>6

\* Turn after turn a search goes around the whole table.
LEMMA AllMet ==
  ASSUME NEW n \in Nat, n > 0, NEW k \in Nat, NEW i \in 0 .. n - 1
  PROVE  \E d \in 0 .. n - 1 : (k + d) % n = i
<1> DEFINE r == k % n  q == k \div n
<1>1. r \in 0 .. n - 1 /\ q \in Nat /\ k = n * q + r
  OBVIOUS
<1> HIDE DEF r, q
<1>2. \A p \in Nat : n * p \in Nat /\ (n * p + i) % n = i
  OBVIOUS
<1>3. CASE i >= r
  <2>1. i - r \in 0 .. n - 1 /\ k + (i - r) = n * q + i
    BY <1>1, <1>2, <1>3
  <2> QED
    BY <1>1, <1>2, <2>1
<1>4. CASE i < r
  <2>1. i - r + n \in 0 .. n - 1 /\ k + (i - r + n) = n * (q + 1) + i
    BY <1>1, <1>2, <1>4
  <2> QED
    BY <1>1, <1>2, <2>1
<1> QED
  BY <1>1, <1>3, <1>4

\* A search stays in the table, and some turn of it comes to each entry.
LEMMA ProbeFacts ==
  ASSUME NEW T \in HashTables, NEW k \in Nat, TableSize(T) > 0
  PROVE  /\ \A d \in 0 .. TableSize(T) - 1 : Probe(T, k, d) \in DOMAIN T.entry
         /\ \A i \in DOMAIN T.entry : \E d \in 0 .. TableSize(T) - 1 : Probe(T, k, d) = i
<1>1. TableSize(T) \in Nat /\ DOMAIN T.entry = 0 .. TableSize(T) - 1
  BY TableFacts
<1> DEFINE n == TableSize(T)
<1>2. n \in Nat /\ n > 0
  BY <1>1
<1> HIDE DEF n
<1>3. \A d \in 0 .. n - 1 : (k + d) % n \in 0 .. n - 1
  BY <1>2
<1>4. \A i \in 0 .. n - 1 : \E d \in 0 .. n - 1 : (k + d) % n = i
  BY <1>2, AllMet
<1> QED
  BY <1>1, <1>3, <1>4 DEF Probe, n

\* Where a search stops: at an empty entry or at the key, and only other keys lie before it.
LEMMA StopFacts ==
  ASSUME NEW T \in HashTables, NEW k \in Nat, Stops(T, k) # {}
  PROVE  /\ Entry(T, k) \in DOMAIN T.entry /\ T.entry[Entry(T, k)].key \in {NoKey, k}
         /\ \A d \in 0 .. TableSize(T) - 1 :
              (\A e \in 0 .. TableSize(T) - 1 : e < d => T.entry[Probe(T, k, e)].key # NoKey)
              /\ T.entry[Probe(T, k, d)].key = k
                => T.entry[Entry(T, k)].key = k \/ k = NoKey
<1> DEFINE n == TableSize(T)
           D == Stops(T, k)
<1>1. n \in Nat /\ D \subseteq 0 .. n - 1 /\ D \subseteq Nat /\ n > 0
  <2>1. n \in Nat /\ D \subseteq 0 .. n - 1
    BY TableFacts DEF Stops
  <2> QED
    BY <2>1
<1> DEFINE m == Min(D)
<1>2. m \in D /\ \A e \in D : m <= e
  BY <1>1, LeastTurn
<1>3. m \in 0 .. n - 1 /\ T.entry[Probe(T, k, m)].key \in {NoKey, k} /\ Entry(T, k) = Probe(T, k, m)
  BY <1>2 DEF Stops, Entry
<1>4. Entry(T, k) \in DOMAIN T.entry
  BY <1>1, <1>3, ProbeFacts
<1>5. ASSUME NEW d \in 0 .. n - 1, T.entry[Probe(T, k, d)].key = k, T.entry[Entry(T, k)].key # k,
             \A e \in 0 .. n - 1 : e < d => T.entry[Probe(T, k, e)].key # NoKey
      PROVE  FALSE
  <2>1. d \in D
    BY <1>5 DEF Stops
  <2>2. T.entry[Probe(T, k, m)].key = NoKey /\ m # d
    BY <1>3, <1>5
  <2>3. m < d
    BY <1>1, <1>2, <1>3, <2>1, <2>2
  <2> QED
    BY <1>3, <1>5, <2>2, <2>3
<1> QED
  BY <1>3, <1>4, <1>5

\* In a sound table Find finds exactly the keys that are there, and the value next to them.
LEMMA FindFacts ==
  ASSUME NEW T, Sound(T), NEW k \in Nat, k # NoKey
  PROVE  /\ Holds(T, k) <=> HasKey(T, k)
         /\ Holds(T, k) => /\ Entry(T, k) \in DOMAIN T.entry /\ T.entry[Entry(T, k)].key = k
                           /\ ValueOf(T, k) = T.entry[Entry(T, k)].value
<1>1. T \in HashTables /\ TableSize(T) > 1 /\ TableSize(T) \in Nat
  BY TableFacts DEF Sound
<1>2. Holds(T, k) => Entry(T, k) \in DOMAIN T.entry /\ T.entry[Entry(T, k)].key = k
  BY <1>1, StopFacts DEF Holds
<1>3. ASSUME NEW i \in DOMAIN T.entry, T.entry[i].key = k
      PROVE  Holds(T, k)
  <2>1. PICK d \in 0 .. TableSize(T) - 1 :
               /\ i = Probe(T, k, d)
               /\ \A e \in 0 .. TableSize(T) - 1 : e < d => T.entry[Probe(T, k, e)].key # NoKey
    BY <1>3 DEF Sound, Met
  <2>2. Stops(T, k) # {}
    BY <1>3, <2>1 DEF Stops
  <2>3. T.entry[Entry(T, k)].key = k
    BY <1>1, <1>3, <2>1, <2>2, StopFacts
  <2> QED
    BY <2>2, <2>3 DEF Holds
<1> QED
  BY <1>2, <1>3 DEF HasKey, ValueOf

\* The slot that HashInsertInternal finds: empty, and where a search for the key will come.
LEMMA FreeFacts ==
  ASSUME NEW T, Sound(T), HasKey(T, NoKey), NEW k \in Nat
  PROVE  /\ FreeEntry(T, k) \in DOMAIN T.entry /\ T.entry[FreeEntry(T, k)].key = NoKey
         /\ Met(T, k, FreeEntry(T, k))
<1> DEFINE n == TableSize(T)
           D == {d \in 0 .. n - 1 : T.entry[Probe(T, k, d)].key = NoKey}
<1>1. T \in HashTables /\ n \in Nat /\ n > 0 /\ D \subseteq Nat /\ D \subseteq 0 .. n - 1
  BY TableFacts DEF Sound
<1>2. D # {}
  <2>1. PICK i \in DOMAIN T.entry : T.entry[i].key = NoKey
    BY DEF HasKey
  <2>2. PICK d \in 0 .. n - 1 : Probe(T, k, d) = i
    BY <1>1, ProbeFacts
  <2> QED
    BY <2>1, <2>2
<1> DEFINE m == Min(D)
<1>3. m \in D /\ \A e \in D : m <= e
  BY <1>1, <1>2, LeastTurn
<1>4. FreeEntry(T, k) = Probe(T, k, m)
  BY DEF FreeEntry
<1>5. m \in 0 .. n - 1 /\ T.entry[Probe(T, k, m)].key = NoKey
  BY <1>3
<1>6. Probe(T, k, m) \in DOMAIN T.entry
  BY <1>1, <1>5, ProbeFacts
<1>7. \A e \in 0 .. n - 1 : e < m => T.entry[Probe(T, k, e)].key # NoKey
  <2> SUFFICES ASSUME NEW e \in 0 .. n - 1, e < m, T.entry[Probe(T, k, e)].key = NoKey
               PROVE  FALSE
    OBVIOUS
  <2>1. e \in D
    OBVIOUS
  <2>2. m <= e
    BY <1>3, <2>1
  <2> QED
    BY <1>1, <1>5, <2>2
<1> HIDE DEF m, D
<1> QED
  BY <1>4, <1>5, <1>6, <1>7 DEF Met

\* The entries that are in use are finitely many, and while they are fewer than the entries
\* a search that goes around comes to an empty one.
LEMMA FilledFacts ==
  ASSUME NEW T \in HashTables
  PROVE  /\ IsFiniteSet(Filled(T)) /\ Cardinality(Filled(T)) \in Nat
         /\ Cardinality(Filled(T)) < TableSize(T) => HasKey(T, NoKey)
<1>1. TableSize(T) \in Nat /\ DOMAIN T.entry = 0 .. TableSize(T) - 1
  BY TableFacts
<1>2. IsFiniteSet(DOMAIN T.entry)
  <2>1. 0 \in Int /\ TableSize(T) - 1 \in Int
    BY <1>1
  <2> QED
    BY <1>1, <2>1, FS_Interval
<1>3. Filled(T) \in SUBSET DOMAIN T.entry
  BY DEF Filled
<1>4. IsFiniteSet(Filled(T))
  BY <1>2, <1>3, FS_Subset
<1>5. Cardinality(Filled(T)) \in Nat
  BY <1>4, FS_CardinalityType
<1>6. ~ HasKey(T, NoKey) => Filled(T) = DOMAIN T.entry
  BY DEF Filled, HasKey
<1> QED
  BY <1>1, <1>4, <1>5, <1>6 DEF TableSize

\* A change of values leaves what is found in the table as it was.
LEMMA ValueChanged ==
  ASSUME NEW T, Sound(T), NEW T2 \in HashTables, DOMAIN T2.entry = DOMAIN T.entry,
         \A i \in DOMAIN T.entry : T2.entry[i].key = T.entry[i].key
  PROVE  /\ Sound(T2) /\ TableSize(T2) = TableSize(T) /\ Filled(T2) = Filled(T)
         /\ \A k : HasKey(T2, k) <=> HasKey(T, k)
         /\ \A k \in Nat : \A i : Met(T, k, i) => Met(T2, k, i)
<1>1. T \in HashTables /\ TableSize(T) > 1 /\ TableSize(T) \in Nat
  BY TableFacts DEF Sound
<1>2. TableSize(T2) = TableSize(T) /\ Filled(T2) = Filled(T)
  BY DEF TableSize, Filled
<1>3. \A k : HasKey(T2, k) <=> HasKey(T, k)
  BY DEF HasKey
<1>4. ASSUME NEW k \in Nat, NEW i, Met(T, k, i)
      PROVE  Met(T2, k, i)
  <2>1. \A d : Probe(T2, k, d) = Probe(T, k, d)
    BY <1>2 DEF Probe
  <2>2. \A d \in 0 .. TableSize(T) - 1 : T2.entry[Probe(T, k, d)].key = T.entry[Probe(T, k, d)].key
    BY <1>1, ProbeFacts
  <2> QED
    BY <1>2, <1>4, <2>1, <2>2 DEF Met
<1>5. \A i \in DOMAIN T2.entry : T2.entry[i].key # NoKey => Met(T2, T2.entry[i].key, i)
  <2>1. \A i \in DOMAIN T.entry : T.entry[i].key \in Nat
    BY <1>1, TableFacts
  <2> QED
    BY <1>4, <2>1 DEF Sound
<1>6. \A i, j \in DOMAIN T2.entry :
        T2.entry[i].key = T2.entry[j].key /\ T2.entry[i].key # NoKey => i = j
  BY DEF Sound
<1>7. Sound(T2)
  BY <1>1, <1>2, <1>5, <1>6 DEF Sound
<1> QED
  BY <1>2, <1>3, <1>4, <1>7

\* A new key in the slot where a search for it will come.
LEMMA KeyPlaced ==
  ASSUME NEW T, Sound(T), NEW k \in Nat, k # NoKey, ~ HasKey(T, k),
         NEW e \in DOMAIN T.entry, T.entry[e].key = NoKey, Met(T, k, e),
         NEW T2 \in HashTables, DOMAIN T2.entry = DOMAIN T.entry, T2.entry[e].key = k,
         \A i \in DOMAIN T.entry : i # e => T2.entry[i].key = T.entry[i].key
  PROVE  /\ Sound(T2) /\ TableSize(T2) = TableSize(T)
         /\ Cardinality(Filled(T2)) = Cardinality(Filled(T)) + 1
         /\ \A x : x # NoKey => (HasKey(T2, x) <=> x = k \/ HasKey(T, x))
<1>1. /\ T \in HashTables /\ TableSize(T) > 1 /\ TableSize(T) \in Nat
      /\ \A i \in DOMAIN T.entry : T.entry[i].key \in Nat
  BY TableFacts DEF Sound
<1>2. TableSize(T2) = TableSize(T)
  BY DEF TableSize
<1>3. Cardinality(Filled(T2)) = Cardinality(Filled(T)) + 1
  <2>1. Filled(T2) = Filled(T) \cup {e} /\ e \notin Filled(T)
    BY DEF Filled
  <2>2. IsFiniteSet(Filled(T))
    BY <1>1, FilledFacts
  <2> QED
    BY <2>1, <2>2, FS_AddElement
<1>4. \A x : x # NoKey => (HasKey(T2, x) <=> x = k \/ HasKey(T, x))
  <2>1. \A x : x # NoKey /\ HasKey(T2, x) => x = k \/ HasKey(T, x)
    BY DEF HasKey
  <2>2. \A x : x # NoKey /\ HasKey(T, x) => HasKey(T2, x)
    BY DEF HasKey
  <2>3. HasKey(T2, k)
    BY DEF HasKey
  <2> QED
    BY <2>1, <2>2, <2>3
<1>5. ASSUME NEW x \in Nat, NEW i, Met(T, x, i)
      PROVE  Met(T2, x, i)
  <2>1. \A d : Probe(T2, x, d) = Probe(T, x, d)
    BY <1>2 DEF Probe
  <2>2. \A d \in 0 .. TableSize(T) - 1 :
          T.entry[Probe(T, x, d)].key # NoKey => T2.entry[Probe(T, x, d)].key # NoKey
    <3>1. \A j \in DOMAIN T.entry : T.entry[j].key # NoKey => T2.entry[j].key # NoKey
      OBVIOUS
    <3>2. \A d \in 0 .. TableSize(T) - 1 : Probe(T, x, d) \in DOMAIN T.entry
      BY <1>1, ProbeFacts
    <3> QED
      BY <3>1, <3>2
  <2> QED
    BY <1>2, <1>5, <2>1, <2>2 DEF Met
<1>6. \A i \in DOMAIN T2.entry : T2.entry[i].key # NoKey => Met(T2, T2.entry[i].key, i)
  <2>1. \A i \in DOMAIN T.entry : T.entry[i].key # NoKey => Met(T, T.entry[i].key, i)
    BY DEF Sound
  <2>2. \A i \in DOMAIN T.entry : i # e /\ T2.entry[i].key # NoKey => Met(T2, T2.entry[i].key, i)
    BY <1>1, <1>5, <2>1
  <2> QED
    BY <1>5, <2>2
<1>7. \A i, j \in DOMAIN T2.entry :
        T2.entry[i].key = T2.entry[j].key /\ T2.entry[i].key # NoKey => i = j
  BY DEF Sound, HasKey
<1> QED
  BY <1>1, <1>2, <1>3, <1>4, <1>6, <1>7 DEF Sound

\* A table that has just been made.
LEMMA EmptyFacts ==
  ASSUME NEW n \in Nat, n > 1
  PROVE  /\ Sound(EmptyTable(n)) /\ TableSize(EmptyTable(n)) = n /\ EmptyTable(n).used = 0
         /\ \A i \in DOMAIN EmptyTable(n).entry :
              EmptyTable(n).entry[i].key = NoKey /\ EmptyTable(n).entry[i].value = 0
         /\ Cardinality(Filled(EmptyTable(n))) = 0 /\ HasKey(EmptyTable(n), NoKey)
<1> DEFINE E == EmptyTable(n)
<1>1. E.used = 0 /\ DOMAIN E.entry = 0 .. n - 1
      /\ \A i \in 0 .. n - 1 : E.entry[i] = [key |-> 0, value |-> 0]
  BY DEF EmptyTable, NoKey
<1>2. E \in HashTables
  <2>1. E = [used |-> E.used, entry |-> E.entry]
    BY DEF EmptyTable
  <2>2. E.entry \in Slots(n)
    BY <1>1 DEF EmptyTable, Slots, NoKey
  <2> QED
    BY <1>1, <2>1, <2>2 DEF HashTables
<1> HIDE DEF E
<1>3. TableSize(E) = n
  <2>1. DOMAIN E.entry = 0 .. TableSize(E) - 1 /\ TableSize(E) \in Nat
    BY <1>2, TableFacts
  <2>2. n - 1 \in 0 .. TableSize(E) - 1 /\ TableSize(E) - 1 \in 0 .. n - 1
    BY <1>1, <2>1
  <2> QED
    BY <2>1, <2>2
<1>4. \A i \in DOMAIN E.entry : E.entry[i].key = NoKey /\ E.entry[i].value = 0
  BY <1>1 DEF NoKey
<1>5. Filled(E) = {} /\ HasKey(E, NoKey)
  <2>1. 0 \in DOMAIN E.entry
    BY <1>1
  <2> QED
    BY <1>4, <2>1 DEF Filled, HasKey
<1>6. Sound(E)
  BY <1>2, <1>3, <1>4 DEF Sound
<1> QED
  BY <1>1, <1>3, <1>4, <1>5, <1>6, FS_EmptySet DEF E

\* HashInsertInternal adds one entry, and touches no other.
LEMMA InsertFacts ==
  ASSUME NEW T, Sound(T), HasKey(T, NoKey), NEW k \in Nat, k # NoKey, ~ HasKey(T, k), NEW v \in Nat
  PROVE  LET N == HashInsert(T, k, v)  e == FreeEntry(T, k)
         IN /\ Sound(N) /\ TableSize(N) = TableSize(T) /\ N.used = T.used + 1
            /\ DOMAIN N.entry = DOMAIN T.entry /\ e \in DOMAIN T.entry /\ T.entry[e].key = NoKey
            /\ N.entry[e] = [key |-> k, value |-> v]
            /\ \A i \in DOMAIN T.entry : i # e => N.entry[i] = T.entry[i]
            /\ Cardinality(Filled(N)) = Cardinality(Filled(T)) + 1
            /\ \A x : x # NoKey => (HasKey(N, x) <=> x = k \/ HasKey(T, x))
<1> DEFINE N == HashInsert(T, k, v)
           e == FreeEntry(T, k)
<1>1. e \in DOMAIN T.entry /\ T.entry[e].key = NoKey /\ Met(T, k, e)
  BY FreeFacts
<1> HIDE DEF e
<1>2. T \in HashTables /\ T.used \in Nat /\ TableSize(T) \in Nat /\ T.entry \in Slots(TableSize(T))
  BY TableFacts DEF Sound
<1>3. N = [used |-> T.used + 1, entry |-> [T.entry EXCEPT ![e] = [key |-> k, value |-> v]]]
  BY DEF HashInsert, e
<1>4. /\ N.used = T.used + 1 /\ DOMAIN N.entry = DOMAIN T.entry
      /\ N.entry[e] = [key |-> k, value |-> v]
      /\ \A i \in DOMAIN T.entry : i # e => N.entry[i] = T.entry[i]
  BY <1>1, <1>3
<1>5. N \in HashTables
  <2>1. [T.entry EXCEPT ![e] = [key |-> k, value |-> v]] \in Slots(TableSize(T))
    BY <1>2 DEF Slots
  <2> QED
    BY <1>2, <1>3, <2>1 DEF HashTables
<1> HIDE DEF N
<1>6. N.entry[e].key = k
  BY <1>4
<1>7. /\ Sound(N) /\ TableSize(N) = TableSize(T)
      /\ Cardinality(Filled(N)) = Cardinality(Filled(T)) + 1
      /\ \A x : x # NoKey => (HasKey(N, x) <=> x = k \/ HasKey(T, x))
  BY <1>1, <1>4, <1>5, <1>6, KeyPlaced
<1> QED
  BY <1>1, <1>4, <1>7 DEF N, e

\* What a copy of the first m entries of a table is.
CopyOf(T, t, m) ==
  /\ Sound(t) /\ TableSize(t) = 2 * TableSize(T)
  /\ t.used <= m /\ Cardinality(Filled(t)) <= t.used
  /\ \A i \in DOMAIN t.entry : Complete(t, i)
  /\ \A x : x # NoKey => (HasKey(t, x) <=> \E i \in 1 .. m : T.entry[i - 1].key = x)
  /\ \A j \in DOMAIN t.entry : t.entry[j].key # NoKey =>
       \E i \in DOMAIN T.entry : t.entry[j] = T.entry[i]

\* One turn of the copying loop.
LEMMA EntryCopied ==
  ASSUME NEW T, Sound(T), NEW m \in 1 .. TableSize(T), NEW t, CopyOf(T, t, m - 1),
         NEW k \in Nat, NEW v \in Nat, k # NoKey, v # 0, T.entry[m - 1] = [key |-> k, value |-> v]
  PROVE  CopyOf(T, HashInsert(t, k, v), m)
<1> DEFINE n == TableSize(T)
           N == HashInsert(t, k, v)
           e == FreeEntry(t, k)
<1>1. n \in Nat /\ n > 1 /\ DOMAIN T.entry = 0 .. n - 1
  BY TableFacts DEF Sound
<1>2. m \in Nat /\ m - 1 \in Nat /\ m - 1 \in DOMAIN T.entry /\ T.entry[m - 1].key = k
  BY <1>1
<1>3. ~ HasKey(t, k)
  <2> SUFFICES ASSUME NEW i \in 1 .. m - 1, T.entry[i - 1].key = k PROVE FALSE
    BY DEF CopyOf
  <2>1. i - 1 # m - 1 /\ i - 1 \in DOMAIN T.entry
    BY <1>1, <1>2
  <2> QED
    BY <1>2, <2>1 DEF Sound
<1>4. /\ Sound(t) /\ t.used \in Nat /\ Cardinality(Filled(t)) \in Nat /\ TableSize(t) = 2 * n
      /\ t.used <= m - 1 /\ Cardinality(Filled(t)) <= t.used /\ t \in HashTables
  <2>1. Sound(t) /\ TableSize(t) = 2 * n /\ t.used <= m - 1 /\ Cardinality(Filled(t)) <= t.used
        /\ t \in HashTables
    BY DEF CopyOf, Sound
  <2> QED
    BY <2>1, TableFacts, FilledFacts
<1>5. HasKey(t, NoKey)
  <2> DEFINE c == Cardinality(Filled(t))  u == t.used  z == TableSize(t)
  <2>1. c \in Nat /\ u \in Nat /\ z = 2 * n /\ u <= m - 1 /\ c <= u
    BY <1>4
  <2>2. m <= n
    BY <1>1
  <2> HIDE DEF c, u, z, n
  <2>3. c < z
    BY <1>1, <1>2, <2>1, <2>2
  <2> QED
    BY <1>4, <2>3, FilledFacts DEF c, z
<1>6. /\ Sound(N) /\ TableSize(N) = TableSize(t) /\ N.used = t.used + 1
      /\ DOMAIN N.entry = DOMAIN t.entry /\ e \in DOMAIN t.entry /\ t.entry[e].key = NoKey
      /\ N.entry[e] = [key |-> k, value |-> v]
      /\ \A i \in DOMAIN t.entry : i # e => N.entry[i] = t.entry[i]
      /\ Cardinality(Filled(N)) = Cardinality(Filled(t)) + 1
      /\ \A x : x # NoKey => (HasKey(N, x) <=> x = k \/ HasKey(t, x))
  BY <1>3, <1>4, <1>5, InsertFacts
<1> HIDE DEF N, e, n
<1>7. N.used <= m /\ Cardinality(Filled(N)) <= N.used
  <2>1. N.used = t.used + 1 /\ Cardinality(Filled(N)) = Cardinality(Filled(t)) + 1
    BY <1>6
  <2> QED
    BY <1>2, <1>4, <2>1
<1>8. \A i \in DOMAIN N.entry : Complete(N, i)
  <2>1. \A i \in DOMAIN t.entry : Complete(t, i)
    BY DEF CopyOf
  <2>2. /\ DOMAIN N.entry = DOMAIN t.entry /\ N.entry[e] = [key |-> k, value |-> v]
        /\ \A i \in DOMAIN t.entry : i # e => N.entry[i] = t.entry[i]
    BY <1>6
  <2> QED
    BY <2>1, <2>2 DEF Complete
<1>9. \A x : x # NoKey => (HasKey(N, x) <=> \E i \in 1 .. m : T.entry[i - 1].key = x)
  <2> DEFINE K(i) == T.entry[i - 1].key
  <2>1. \A i : i \in 1 .. m <=> i = m \/ i \in 1 .. m - 1
    BY <1>2
  <2>2. m \in 1 .. m /\ K(m) = k
    BY <1>2
  <2>3. \A x : x # NoKey => (HasKey(t, x) <=> \E i \in 1 .. m - 1 : K(i) = x)
    BY DEF CopyOf
  <2>4. \A x : x # NoKey => (HasKey(N, x) <=> x = k \/ HasKey(t, x))
    BY <1>6
  <2> HIDE DEF K
  <2>5. \A x : x # NoKey => (HasKey(N, x) <=> \E i \in 1 .. m : K(i) = x)
    BY <2>1, <2>2, <2>3, <2>4
  <2> QED
    BY <2>5 DEF K
<1>10. \A j \in DOMAIN N.entry : N.entry[j].key # NoKey =>
         \E i \in DOMAIN T.entry : N.entry[j] = T.entry[i]
  <2>1. \A j \in DOMAIN t.entry : t.entry[j].key # NoKey =>
          \E i \in DOMAIN T.entry : t.entry[j] = T.entry[i]
    BY DEF CopyOf
  <2>2. /\ DOMAIN N.entry = DOMAIN t.entry /\ N.entry[e] = T.entry[m - 1]
        /\ \A i \in DOMAIN t.entry : i # e => N.entry[i] = t.entry[i]
    BY <1>6
  <2> QED
    BY <1>2, <2>1, <2>2
<1> QED
  BY <1>4, <1>6, <1>7, <1>8, <1>9, <1>10 DEF CopyOf, N, n

\* Emplace copies every entry of a full table, each with its value, and nothing else.
LEMMA GrownFacts ==
  ASSUME NEW T, Sound(T), \A i \in DOMAIN T.entry : Complete(T, i)
  PROVE  LET G == Grown(T)
         IN /\ Sound(G) /\ G.used + 1 < TableSize(G) /\ Cardinality(Filled(G)) <= G.used
            /\ HasKey(G, NoKey)
            /\ \A i \in DOMAIN G.entry : Complete(G, i)
            /\ \A x : x # NoKey => (HasKey(G, x) <=> HasKey(T, x))
            /\ \A j \in DOMAIN G.entry : G.entry[j].key # NoKey =>
                 \E i \in DOMAIN T.entry : G.entry[j] = T.entry[i]
<1> DEFINE n == TableSize(T)
           K(i) == T.entry[i - 1].key
           V(i) == T.entry[i - 1].value
           Step(t, i) == IF K(i) = NoKey THEN t ELSE HashInsert(t, K(i), V(i))
           Made(f, m) == /\ f = [i \in 0 .. m |-> f[i]] /\ f[0] = EmptyTable(2 * n)
                         /\ \A i \in 1 .. m : f[i] = Step(f[i - 1], i)
<1>1. /\ T \in HashTables /\ n \in Nat /\ n > 1 /\ DOMAIN T.entry = 0 .. n - 1
      /\ \A i \in 1 .. n : /\ i - 1 \in DOMAIN T.entry /\ K(i) \in Nat /\ V(i) \in Nat
                           /\ K(i) # NoKey <=> V(i) # 0
  BY TableFacts DEF Sound, Complete
<1>2. \A m \in 0 .. n : \E f : Made(f, m)
  <2> DEFINE Bad == {m \in 0 .. n : ~ \E f : Made(f, m)}
  <2> SUFFICES ASSUME Bad # {} PROVE FALSE
    OBVIOUS
  <2>1. PICK m \in Bad : \A l \in Bad : m <= l
    <3>1. Bad \in SUBSET Nat
      BY <1>1
    <3> HIDE DEF Bad
    <3> QED
      BY <3>1, Smallest
  <2>2. m # 0
    <3>1. Made([i \in 0 .. 0 |-> EmptyTable(2 * n)], 0)
      OBVIOUS
    <3> QED
      BY <2>1, <3>1
  <2>3. m - 1 \in 0 .. n /\ m - 1 \notin Bad
    <3>1. m - 1 \in 0 .. n /\ ~ (m <= m - 1)
      BY <1>1, <2>1, <2>2
    <3> QED
      BY <2>1, <3>1
  <2>4. PICK f : Made(f, m - 1)
    BY <2>3
  <2> DEFINE g == [i \in 0 .. m |-> IF i = m THEN Step(f[m - 1], m) ELSE f[i]]
  <2>5. m \in 1 .. n
    BY <1>1, <2>1, <2>2
  <2>6. /\ g = [i \in 0 .. m |-> g[i]]
        /\ g[m] = Step(f[m - 1], m) /\ \A i \in 0 .. m - 1 : g[i] = f[i]
    BY <2>5
  <2>7. g[0] = EmptyTable(2 * n)
    BY <2>4, <2>5, <2>6
  <2> HIDE DEF g
  <2>8. ASSUME NEW i \in 1 .. m
        PROVE  g[i] = Step(g[i - 1], i)
    <3> HIDE DEF Step
    <3>1. CASE i = m
      <4>1. m - 1 \in 0 .. m - 1
        BY <2>5
      <4>2. g[m - 1] = f[m - 1]
        BY <2>6, <4>1
      <4> QED
        BY <2>6, <3>1, <4>2
    <3>2. CASE i # m
      <4>1. i \in 1 .. m - 1 /\ i \in 0 .. m - 1 /\ i - 1 \in 0 .. m - 1
        BY <2>5, <3>2
      <4> QED
        BY <2>4, <2>6, <4>1
    <3> QED
      BY <3>1, <3>2
  <2>9. Made(g, m)
    BY <2>6, <2>7, <2>8
  <2> QED
    BY <2>1, <2>9
<1>3. PICK f : Made(f, n) /\ Grown(T) = f[n]
  <2> DEFINE R(h) == h = [i \in 0 .. n |->
                            IF i = 0 THEN EmptyTable(2 * n)
                            ELSE IF T.entry[i - 1].key = NoKey THEN h[i - 1]
                            ELSE HashInsert(h[i - 1], T.entry[i - 1].key, T.entry[i - 1].value)]
  <2>1. \A h : Made(h, n) => R(h)
    <3> SUFFICES ASSUME NEW h, Made(h, n) PROVE R(h)
      OBVIOUS
    <3>1. \A i \in 0 .. n : h[i] = IF i = 0 THEN EmptyTable(2 * n)
                            ELSE IF T.entry[i - 1].key = NoKey THEN h[i - 1]
                            ELSE HashInsert(h[i - 1], T.entry[i - 1].key, T.entry[i - 1].value)
      <4> SUFFICES ASSUME NEW i \in 0 .. n, i # 0
                   PROVE  h[i] = IF T.entry[i - 1].key = NoKey THEN h[i - 1]
                            ELSE HashInsert(h[i - 1], T.entry[i - 1].key, T.entry[i - 1].value)
        OBVIOUS
      <4>1. i \in 1 .. n
        BY <1>1
      <4>2. h[i] = Step(h[i - 1], i)
        BY <4>1
      <4> QED
        BY <4>2
    <3> QED
      BY <3>1
  <2>2. \A h : R(h) => Made(h, n)
    <3> SUFFICES ASSUME NEW h, R(h) PROVE Made(h, n)
      OBVIOUS
    <3>1. h = [i \in 0 .. n |-> h[i]]
      OBVIOUS
    <3>2. h[0] = EmptyTable(2 * n)
      BY <1>1
    <3>3. \A i \in 1 .. n : h[i] = Step(h[i - 1], i)
      BY <1>1
    <3> QED
      BY <3>1, <3>2, <3>3
  <2>3. Grown(T) = (CHOOSE h : R(h))[n]
    BY DEF Grown
  <2> HIDE DEF R, Made
  <2>4. \E h : R(h)
    <3>1. n \in 0 .. n
      BY <1>1
    <3> QED
      BY <1>2, <2>1, <3>1
  <2>5. R(CHOOSE h : R(h))
    BY <2>4
  <2> QED
    BY <2>2, <2>3, <2>5
<1>4. CopyOf(T, f[0], 0)
  <2> DEFINE E == EmptyTable(2 * n)
  <2>1. f[0] = E
    BY <1>3
  <2>2. 2 * n \in Nat /\ 2 * n > 1
    BY <1>1
  <2>3. /\ Sound(E) /\ TableSize(E) = 2 * n /\ E.used = 0
        /\ \A i \in DOMAIN E.entry : E.entry[i].key = NoKey /\ E.entry[i].value = 0
        /\ Cardinality(Filled(E)) = 0
    BY <2>2, EmptyFacts
  <2> HIDE DEF E
  <2>4. \A i \in DOMAIN E.entry : Complete(E, i)
    BY <2>3 DEF Complete
  <2>5. \A x : x # NoKey => (HasKey(E, x) <=> \E i \in 1 .. 0 : K(i) = x)
    BY <2>3 DEF HasKey
  <2> QED
    BY <2>1, <2>3, <2>4, <2>5 DEF CopyOf
<1>5. ASSUME NEW m \in 1 .. n, CopyOf(T, f[m - 1], m - 1)
      PROVE  CopyOf(T, f[m], m)
  <2>1. f[m] = Step(f[m - 1], m) /\ m - 1 \in Nat /\ m \in Nat
    <3>1. \A i \in 1 .. n : f[i] = Step(f[i - 1], i)
      BY ONLY <1>3
    <3> HIDE DEF Step
    <3> QED
      BY <1>1, <3>1
  <2>2. /\ m - 1 \in DOMAIN T.entry /\ K(m) \in Nat /\ V(m) \in Nat
        /\ K(m) # NoKey <=> V(m) # 0
    BY <1>1
  <2>3. T.entry[m - 1] = [key |-> K(m), value |-> V(m)]
    <3>1. T.entry[m - 1] \in [key : Nat, value : Nat]
      BY <1>1, <2>2, TableFacts DEF Slots
    <3> QED
      BY <3>1
  <2>4. CASE K(m) = NoKey
    <3> DEFINE t == f[m - 1]
    <3>1. f[m] = t
      BY <2>1, <2>4
    <3>2. t.used \in Nat
      BY <1>5, TableFacts DEF CopyOf, Sound
    <3>3. \A i : i \in 1 .. m <=> i = m \/ i \in 1 .. m - 1
      BY <2>1
    <3>4. t.used <= m - 1
      BY <1>5 DEF CopyOf
    <3>5. t.used <= m
      BY <2>1, <3>2, <3>4
    <3> HIDE DEF t
    <3>6. CopyOf(T, t, m - 1)
      BY <1>5 DEF t
    <3> HIDE DEF K
    <3>7. \A x : x # NoKey => (HasKey(t, x) <=> \E i \in 1 .. m : K(i) = x)
      BY <2>4, <3>3, <3>6 DEF CopyOf, K
    <3> QED
      BY <3>1, <3>5, <3>6, <3>7 DEF CopyOf, K
  <2>5. CASE K(m) # NoKey
    <3>1. f[m] = HashInsert(f[m - 1], K(m), V(m))
      BY <2>1, <2>5
    <3> HIDE DEF K, V
    <3>2. V(m) # 0
      BY <2>2, <2>5
    <3> QED
      BY <1>5, <2>2, <2>3, <2>5, <3>1, <3>2, EntryCopied
  <2> QED
    BY <2>4, <2>5
<1> HIDE DEF Made
<1>6. CopyOf(T, f[n], n)
  <2> DEFINE Bad == {m \in 0 .. n : ~ CopyOf(T, f[m], m)}
  <2> SUFFICES ASSUME Bad # {} PROVE FALSE
    BY <1>1
  <2>1. PICK m \in Bad : \A l \in Bad : m <= l
    <3>1. Bad \in SUBSET Nat
      BY <1>1
    <3> HIDE DEF Bad
    <3> QED
      BY <3>1, Smallest
  <2>2. m \in 1 .. n
    BY <1>1, <1>4, <2>1
  <2>3. m - 1 \in 0 .. n /\ ~ (m <= m - 1)
    BY <1>1, <2>2
  <2>4. CopyOf(T, f[m - 1], m - 1)
    BY <2>1, <2>3
  <2> QED
    BY <1>5, <2>1, <2>2, <2>4
<1> DEFINE G == Grown(T)
<1>7. CopyOf(T, G, n)
  BY <1>3, <1>6
<1> HIDE DEF G
<1>8. G \in HashTables /\ G.used \in Nat /\ Cardinality(Filled(G)) \in Nat /\ TableSize(G) = 2 * n
      /\ Sound(G) /\ G.used <= n /\ Cardinality(Filled(G)) <= G.used
  BY <1>7, TableFacts, FilledFacts DEF CopyOf, Sound
<1>9. G.used + 1 < TableSize(G)
  BY <1>1, <1>8
<1>10. HasKey(G, NoKey)
  <2>1. Cardinality(Filled(G)) < TableSize(G)
    <3>1. \A c, u, z \in Nat : c <= u /\ u + 1 < z => c < z
      OBVIOUS
    <3>2. TableSize(G) \in Nat
      BY <1>8, TableFacts
    <3> QED
      BY ONLY <1>8, <1>9, <3>1, <3>2
  <2> QED
    BY <1>8, <2>1, FilledFacts
<1>11. \A x : x # NoKey => (HasKey(G, x) <=> HasKey(T, x))
  <2>1. \A x : HasKey(T, x) <=> \E i \in 1 .. n : K(i) = x
    <3>1. \A i \in DOMAIN T.entry : i + 1 \in 1 .. n /\ K(i + 1) = T.entry[i].key
      BY <1>1
    <3>2. \A i \in 1 .. n : i - 1 \in DOMAIN T.entry
      BY <1>1
    <3> QED
      BY <3>1, <3>2 DEF HasKey
  <2> QED
    BY <1>7, <2>1 DEF CopyOf
<1>12. /\ \A i \in DOMAIN G.entry : Complete(G, i)
       /\ \A j \in DOMAIN G.entry : G.entry[j].key # NoKey =>
            \E i \in DOMAIN T.entry : G.entry[j] = T.entry[i]
  BY <1>7 DEF CopyOf
<1> QED
  BY <1>8, <1>9, <1>10, <1>11, <1>12 DEF G

(***************************************************************************)
(* Steps of the call-stack tracer                                          *)
(***************************************************************************)
\* Only this thread takes the step.
Alone(t) ==
  \A u \in Threads \ {t} : /\ pc'[u] = pc[u] /\ key'[u] = key[u] /\ id'[u] = id[u]
                           /\ seen'[u] = seen[u] /\ index'[u] = index[u]

\* A description that this thread owes stays owed or is logged, or cannot be.
StillOwed(t) ==
  pc[t] \in Inscribing =>
    \/ pc'[t] \in Inscribing /\ id'[t] = id[t]
    \/ <<key[t], id[t]>> \in specs' \/ id[t] \in skipped'

\* Ids are taken, tables made and stacks described, never the reverse.
Growing ==
  /\ taken' = taken \/ \E k \in Nat : taken' = Append(taken, k)
  /\ Len(tables) <= Len(tables')
  /\ specs \subseteq specs' /\ skipped \subseteq skipped'

\* What was taken and settled stays so.
LEMMA GrowthKeeps ==
  ASSUME TracerInv, NEW t \in Threads, Alone(t), StillOwed(t), Growing
  PROVE  /\ \A k, v : Took(k, v) => Took(k, v)'
         /\ \A k, v : Took(k, v) /\ Settled(k, v) => Settled(k, v)'
<1>1. \A k, v : Took(k, v) => Took(k, v)'
  <2>1. taken \in Seq(Nat)
    BY DEF TracerInv, TracerTypes
  <2>2. CASE taken' = taken
    BY <2>2 DEF Took
  <2>3. CASE \E k \in Nat : taken' = Append(taken, k)
    <3>1. PICK k \in Nat : taken' = Append(taken, k)
      BY <2>3
    <3>2. Len(taken') = Len(taken) + 1 /\ \A i \in 1 .. Len(taken) : taken'[i] = taken[i]
      BY <2>1, <3>1
    <3>3. Len(taken) \in Nat
      BY <2>1
    <3> QED
      BY <3>2, <3>3 DEF Took
  <2> QED
    BY <2>2, <2>3 DEF Growing
<1>2. ASSUME NEW k, NEW v, Took(k, v), Settled(k, v)
      PROVE  Settled(k, v)'
  <2>1. CASE <<k, v>> \in specs \/ v \in skipped
    BY <2>1 DEF Settled, Growing
  <2>2. CASE \E u \in Threads : id[u] = v /\ pc[u] \in Inscribing
    <3>1. PICK u \in Threads : id[u] = v /\ pc[u] \in Inscribing
      BY <2>2
    <3>2. CASE u # t
      BY <3>1, <3>2 DEF Alone, Settled
    <3>3. CASE u = t
      <4>1. Took(key[t], id[t])
        BY <3>1, <3>3 DEF TracerInv, ThreadInv, Knows, Inscribing
      <4>2. key[t] = k
        BY <1>2, <3>1, <3>3, <4>1 DEF Took
      <4> QED
        BY <3>1, <3>3, <4>2 DEF StillOwed, Settled
    <3> QED
      BY <3>2, <3>3
  <2> QED
    BY <1>2, <2>1, <2>2 DEF Settled
<1> QED
  BY <1>1, <1>2

\* What the other threads know, and what has been logged, stays true.
LEMMA OthersKnow ==
  ASSUME TracerInv, NEW t \in Threads, Alone(t), StillOwed(t), Growing
  PROVE  /\ \A u \in Threads \ {t} : Knows(u)'
         /\ \A e \in specs \union allocs : e[2] # 0 => Took(e[1], e[2])'
         /\ \A e \in allocs : e[2] # 0 => Settled(e[1], e[2])'
<1>1. /\ \A k, v : Took(k, v) => Took(k, v)'
      /\ \A k, v : Took(k, v) /\ Settled(k, v) => Settled(k, v)'
  BY GrowthKeeps
<1>2. ASSUME NEW u \in Threads \ {t}
      PROVE  Knows(u)'
  <2>1. /\ pc'[u] = pc[u] /\ key'[u] = key[u] /\ id'[u] = id[u] /\ seen'[u] = seen[u]
    BY DEF Alone
  <2>2. Knows(u)
    BY DEF TracerInv, ThreadInv
  <2>3. seen[u] \in Nat /\ Len(tables) \in Nat /\ Len(tables) <= Len(tables')
    BY DEF TracerInv, TracerTypes, Growing
  <2>4. Knows(u)!1'
    BY <2>1, <2>2, <2>3 DEF Knows
  <2> QED
    BY <1>1, <2>1, <2>2, <2>4 DEF Knows
<1> QED
  BY <1>1, <1>2 DEF TracerInv, LogsInv

\* A step that does not touch the tables leaves the set of stacks in order.
LEMMA SetKept ==
  ASSUME TracerInv, NEW t \in Threads, Alone(t), StillOwed(t), Growing,
         UNCHANGED <<tables, lock, late>>, pc[t] \notin Inserting, pc'[t] \notin Inserting,
         \A k \in known' : k \in known \/ (tables # <<>> /\ k # NoKey /\ HasKey(HashTable, k))
  PROVE  TablesInv' /\ CurrentInv' /\ KnownInv'
<1>2. /\ \A k, v : Took(k, v) => Took(k, v)'
      /\ \A k, v : Took(k, v) /\ Settled(k, v) => Settled(k, v)'
  BY GrowthKeeps
<1>3. TablesInv'
  BY <1>2 DEF TracerInv, TablesInv
<1>4. KnownInv'
  BY DEF TracerInv, KnownInv, HashTable
<1>5. ASSUME NEW u \in Threads
      PROVE  (pc[u] \in Inserting <=> lock = u)'
  BY DEF TracerInv, CurrentInv, Alone
<1>6. ASSUME NEW u \in Threads, lock = u
      PROVE  Writer(u, HashTable)'
  <2>1. u # t /\ Writer(u, HashTable)
    BY <1>6 DEF TracerInv, CurrentInv
  <2>2. HashTable' = HashTable /\ pc'[u] = pc[u] /\ key'[u] = key[u] /\ id'[u] = id[u]
        /\ index'[u] = index[u]
    BY <2>1 DEF Alone, HashTable
  <2> QED
    BY <2>1, <2>2 DEF Writer
<1>7. (tables = <<>> => lock = NoThread /\ known = {})'
  BY DEF TracerInv, CurrentInv
<1>8. CurrentInv!3'
  BY DEF TracerInv, CurrentInv, HashTable
<1> QED
  BY <1>3, <1>4, <1>5, <1>6, <1>7, <1>8 DEF CurrentInv

\* With it, what remains to be shown of such a step.
LEMMA QuietStep ==
  ASSUME TracerInv, NEW t \in Threads, Alone(t), StillOwed(t), Growing, UNCHANGED setVars,
         pc[t] \notin Inserting, pc'[t] \notin Inserting,
         TracerTypes', Knows(t)',
         \A e \in specs' : e \in specs \/ (e[2] # 0 => Took(e[1], e[2])'),
         \A e \in allocs' : e \in allocs \/ (e[2] # 0 => Took(e[1], e[2])' /\ Settled(e[1], e[2])')
  PROVE  TracerInv'
<1>1. /\ \A u \in Threads \ {t} : Knows(u)'
      /\ \A e \in specs \union allocs : e[2] # 0 => Took(e[1], e[2])'
      /\ \A e \in allocs : e[2] # 0 => Settled(e[1], e[2])'
  BY OthersKnow
<1>2. ThreadInv'
  BY <1>1 DEF ThreadInv
<1>3. LogsInv'
  BY <1>1 DEF LogsInv
<1>4. TablesInv' /\ CurrentInv' /\ KnownInv'
  <2>1. UNCHANGED <<tables, lock, late, known>>
    BY DEF setVars
  <2> QED
    BY <2>1, SetKept
<1> QED
  BY <1>2, <1>3, <1>4 DEF TracerInv

\* The control state of a thread, and what it has at hand.
Sets(t, k, n, v, step) ==
  /\ key' = [key EXCEPT ![t] = k] /\ seen' = [seen EXCEPT ![t] = n] /\ id' = [id EXCEPT ![t] = v]
  /\ index' = index /\ pc' = [pc EXCEPT ![t] = step]

\* What a thread that sets its own variables has then.
LEMMA SetsFacts ==
  ASSUME TracerTypes, NEW t \in Threads, NEW k \in Nat, NEW n \in Nat, NEW v \in Nat,
         NEW step \in States, Sets(t, k, n, v, step)
  PROVE  /\ Alone(t) /\ key'[t] = k /\ seen'[t] = n /\ id'[t] = v /\ pc'[t] = step
         /\ pc' \in [Threads -> States] /\ key' \in [Threads -> Nat] /\ id' \in [Threads -> Nat]
         /\ seen' \in [Threads -> Nat] /\ index' \in [Threads -> Nat]
<1>1. /\ pc \in [Threads -> States] /\ key \in [Threads -> Nat] /\ id \in [Threads -> Nat]
      /\ seen \in [Threads -> Nat] /\ index \in [Threads -> Nat]
  BY DEF TracerTypes
<1> HIDE DEF States
<1>2. Alone(t)
  BY <1>1 DEF Alone, Sets
<1> QED
  BY <1>1, <1>2 DEF Sets

\* What is not touched is set to what it is.
LEMMA Untouched ==
  ASSUME TracerTypes, NEW t \in Threads
  PROVE  /\ key = [key EXCEPT ![t] = key[t]] /\ seen = [seen EXCEPT ![t] = seen[t]]
         /\ id = [id EXCEPT ![t] = id[t]]
         /\ key[t] \in Nat /\ seen[t] \in Nat /\ id[t] \in Nat /\ pc[t] \in States
BY DEF TracerTypes

\* utrace_mem_alloc and FBacktracer::Get.
LEMMA GetSteps ==
  ASSUME TracerInv, NEW t \in Threads,
         \/ \E h \in Hashes : BeginAlloc(t, h)
         \/ GetInstance(t) \/ PublishInstance(t) \/ BuildTracer(t)
  PROVE  TracerInv'
<1>1. /\ TracerTypes /\ Knows(t)
      /\ UNCHANGED <<setVars, taken, specs, skipped, allocs, seen, index, id>>
  BY DEF TracerInv, ThreadInv, BeginAlloc, GetInstance, PublishInstance, BuildTracer, setVars,
         callVars, findVars, outputVars
<1>2. \E k \in Nat, step \in {"get", "lock", "undefined", "find", "construct"} :
        /\ k # NoKey /\ Sets(t, k, seen[t], id[t], step)
        /\ pc[t] \in {"idle", "get", "lock", "construct"}
  <2>1. ASSUME NEW h \in Hashes, BeginAlloc(t, h)
        PROVE  /\ Sets(t, StackKey(h), seen[t], id[t], "get") /\ StackKey(h) \in Nat
               /\ StackKey(h) # NoKey /\ pc[t] = "idle"
    <3>1. StackKey(h) \in Nat /\ StackKey(h) # NoKey
      BY TracerAssumption DEF StackKey, NoKey
    <3> QED
      BY <1>1, <2>1, <3>1, Untouched DEF BeginAlloc, Sets, Go, findVars
  <2>2. CASE GetInstance(t) \/ PublishInstance(t) \/ BuildTracer(t)
    <3>1. key' = key /\ key[t] # NoKey /\ pc[t] \in {"get", "lock", "construct"}
      BY <1>1, <2>2 DEF GetInstance, PublishInstance, BuildTracer, callVars, Knows
    <3>2. \E step \in {"lock", "undefined", "find", "construct"} : Go(t, step)
      <4>1. GetInstance(t) => Go(t, "lock") \/ Go(t, "undefined") \/ Go(t, "find")
        <5>1. instance = "none" \/ instance = "published" \/ instance = "built"
          BY <1>1 DEF TracerTypes
        <5> QED
          BY <5>1 DEF GetInstance
      <4>2. PublishInstance(t) => Go(t, "construct") \/ Go(t, "find")
        BY DEF PublishInstance
      <4>3. BuildTracer(t) => Go(t, "find")
        BY DEF BuildTracer
      <4> QED
        BY <2>2, <4>1, <4>2, <4>3
    <3>3. PICK step \in {"lock", "undefined", "find", "construct"} : Go(t, step)
      BY <3>2
    <3>4. Sets(t, key[t], seen[t], id[t], step)
      BY <1>1, <3>1, <3>3, Untouched DEF Go, Sets
    <3> QED
      BY <1>1, <3>1, <3>4, Untouched
  <2> QED
    BY <2>1, <2>2
<1>3. instance' \in {"none", "published", "built"}
  <2>1. instance \in {"none", "published", "built"}
    BY <1>1 DEF TracerTypes
  <2>2. CASE PublishInstance(t)
    BY <2>1, <2>2 DEF PublishInstance
  <2> QED
    BY <2>1, <2>2 DEF BeginAlloc, GetInstance, BuildTracer
<1>4. PICK k \in Nat, step \in {"get", "lock", "undefined", "find", "construct"} :
        /\ k # NoKey /\ Sets(t, k, seen[t], id[t], step)
        /\ pc[t] \in {"idle", "get", "lock", "construct"}
  BY <1>2
<1>5. /\ Alone(t) /\ key'[t] = k /\ seen'[t] = seen[t] /\ id'[t] = id[t] /\ pc'[t] = step
      /\ pc' \in [Threads -> States] /\ key' \in [Threads -> Nat] /\ id' \in [Threads -> Nat]
      /\ seen' \in [Threads -> Nat] /\ index' \in [Threads -> Nat]
  <2>1. seen[t] \in Nat /\ id[t] \in Nat /\ step \in States
    BY <1>1, Untouched DEF States
  <2> HIDE DEF Sets
  <2> QED
    BY <1>1, <1>4, <2>1, SetsFacts
<1>6. TracerTypes'
  BY <1>1, <1>3, <1>5 DEF TracerTypes, setVars
<1>7. Growing /\ StillOwed(t) /\ pc[t] \notin Inserting /\ pc'[t] \notin Inserting
  <2>1. Len(tables) \in Nat
    BY <1>1 DEF TracerTypes
  <2> QED
    BY <1>1, <1>4, <1>5, <2>1 DEF Growing, StillOwed, Inscribing, Inserting, setVars
<1>8. Knows(t)'
  BY <1>1, <1>4, <1>5 DEF Knows, setVars
<1> QED
  BY <1>1, <1>5, <1>6, <1>7, <1>8, QuietStep

\* Find, by a thread that may hold a table that others have replaced.
LEMMA FindSteps ==
  ASSUME TracerInv, NEW t \in Threads, LoadTable(t) \/ ProbeTable(t)
  PROVE  TracerInv'
<1>1. /\ TracerTypes /\ Knows(t)
      /\ UNCHANGED <<instance, setVars, taken, specs, skipped, allocs, key, index>>
  BY DEF TracerInv, ThreadInv, LoadTable, ProbeTable, setVars, callVars, findVars, outputVars
<1>2. \E n \in Nat, v \in Nat, step \in {"probe", "trace", "new"} :
        /\ Sets(t, key[t], n, v, step) /\ pc[t] \in {"find", "probe"} /\ n <= Len(tables)
        /\ step = "trace" /\ v # 0 => Took(key[t], v) /\ Settled(key[t], v)
  <2>1. CASE LoadTable(t)
    <3>1. Len(tables) \in Nat
      BY <1>1 DEF TracerTypes
    <3>2. Sets(t, key[t], Len(tables), id[t], "probe") /\ pc[t] = "find"
      BY <1>1, <2>1, Untouched DEF LoadTable, Sets, Go
    <3> QED
      BY <1>1, <3>1, <3>2, Untouched
  <2>2. CASE ProbeTable(t)
    <3>1. pc[t] = "probe" /\ seen' = seen /\ seen[t] <= Len(tables) /\ key[t] # NoKey
          /\ key[t] \in Nat
      BY <1>1, <2>2, Untouched DEF ProbeTable, findVars, Knows
    <3>2. CASE ~ InTable(seen[t], key[t])
      <4>1. id' = id /\ Go(t, "new")
        BY <2>2, <3>2 DEF ProbeTable
      <4>2. Sets(t, key[t], seen[t], id[t], "new")
        BY <1>1, <3>1, <4>1, Untouched DEF Sets, Go
      <4> QED
        BY <1>1, <3>1, <4>2, Untouched
    <3>3. CASE InTable(seen[t], key[t])
      <4> DEFINE T == tables[seen[t]]
                 v == ValueOf(T, key[t])
      <4>1. id' = [id EXCEPT ![t] = v] /\ Go(t, "trace")
        BY <2>2, <3>3 DEF ProbeTable
      <4>2. seen[t] \in 1 .. Len(tables) /\ Holds(T, key[t])
        <5>1. seen[t] \in Nat /\ Len(tables) \in Nat
          BY <1>1, Untouched DEF TracerTypes
        <5> QED
          BY <3>1, <3>3, <5>1 DEF InTable
      <4>3. Sound(T) /\ \A i \in DOMAIN T.entry : T.entry[i].key # NoKey /\ T.entry[i].value # 0 =>
                          Took(T.entry[i].key, T.entry[i].value)
                            /\ Settled(T.entry[i].key, T.entry[i].value)
        BY <4>2 DEF TracerInv, TablesInv
      <4>4. PICK i \in DOMAIN T.entry : T.entry[i].key = key[t] /\ v = T.entry[i].value
        <5> HIDE DEF T
        <5> QED
          BY <3>1, <4>2, <4>3, FindFacts
      <4>5. v \in Nat
        BY <4>3, <4>4, TableFacts DEF Sound
      <4>6. v # 0 => Took(key[t], v) /\ Settled(key[t], v)
        BY <3>1, <4>3, <4>4
      <4> HIDE DEF v
      <4>7. Sets(t, key[t], seen[t], v, "trace")
        BY <1>1, <3>1, <4>1, Untouched DEF Sets, Go
      <4> QED
        BY <1>1, <3>1, <4>5, <4>6, <4>7, Untouched
    <3> QED
      BY <3>2, <3>3
  <2> QED
    BY <2>1, <2>2
<1>3. PICK n \in Nat, v \in Nat, step \in {"probe", "trace", "new"} :
        /\ Sets(t, key[t], n, v, step) /\ pc[t] \in {"find", "probe"} /\ n <= Len(tables)
        /\ step = "trace" /\ v # 0 => Took(key[t], v) /\ Settled(key[t], v)
  BY <1>2
<1>4. /\ Alone(t) /\ key'[t] = key[t] /\ seen'[t] = n /\ id'[t] = v /\ pc'[t] = step
      /\ pc' \in [Threads -> States] /\ key' \in [Threads -> Nat] /\ id' \in [Threads -> Nat]
      /\ seen' \in [Threads -> Nat] /\ index' \in [Threads -> Nat]
  <2>1. key[t] \in Nat /\ step \in States
    BY <1>1, Untouched DEF States
  <2> HIDE DEF Sets
  <2> QED
    BY <1>1, <1>3, <2>1, SetsFacts
<1>5. TracerTypes'
  BY <1>1, <1>4 DEF TracerTypes, setVars
<1>6. Growing /\ StillOwed(t) /\ pc[t] \notin Inserting /\ pc'[t] \notin Inserting
  <2>1. Len(tables) \in Nat
    BY <1>1 DEF TracerTypes
  <2> QED
    BY <1>1, <1>3, <1>4, <2>1 DEF Growing, StillOwed, Inscribing, Inserting, setVars
<1>7. Knows(t)'
  <2>1. /\ \A x, y : Took(x, y) => Took(x, y)'
        /\ \A x, y : Took(x, y) /\ Settled(x, y) => Settled(x, y)'
    BY <1>4, <1>6, GrowthKeeps
  <2>2. key[t] # NoKey
    BY <1>1, <1>3 DEF Knows
  <2> QED
    BY <1>1, <1>3, <1>4, <2>1, <2>2 DEF Knows, setVars
<1> QED
  BY <1>1, <1>4, <1>5, <1>6, <1>7, QuietStep

\* An id from the counter belongs to the stack for which it was taken.
LEMMA TakeIdStep ==
  ASSUME TracerInv, NEW t \in Threads, TakeId(t)
  PROVE  TracerInv'
<1> DEFINE new == Len(taken) + 1
<1>1. /\ TracerTypes /\ Knows(t) /\ pc[t] = "new" /\ key[t] # NoKey
      /\ UNCHANGED <<instance, setVars, specs, skipped, allocs, key, index, seen>>
      /\ taken' = Append(taken, key[t])
  BY DEF TracerInv, ThreadInv, Knows, TakeId, setVars, callVars, findVars, outputVars
<1>2. new \in Nat /\ new > 0 /\ ReserveCount \in Nat /\ ReserveCount > 1 /\ key[t] \in Nat
  BY <1>1, TracerAssumption, Untouched DEF TracerTypes
<1>3. \E v \in Nat, step \in {"reserve", "emplace", "trace"} :
        /\ Sets(t, key[t], seen[t], v, step) /\ (step # "trace" => v = new) /\ (step = "trace" => v = 0)
  <2>1. CASE new = 1
    <3>1. ~ (new >= ReserveCount) /\ ~ (new # 1)
      BY <1>2, <2>1
    <3>2. id' = [id EXCEPT ![t] = new] /\ Go(t, "reserve")
      BY <2>1, <3>1 DEF TakeId
    <3>3. Sets(t, key[t], seen[t], new, "reserve")
      BY <1>1, <3>2, Untouched DEF Sets, Go
    <3> QED
      BY <1>2, <3>3
  <2>2. CASE new # 1 /\ new < ReserveCount
    <3>1. ~ (new >= ReserveCount)
      BY <1>2, <2>2
    <3>2. id' = [id EXCEPT ![t] = new] /\ Go(t, "emplace")
      BY <2>2, <3>1 DEF TakeId
    <3>3. Sets(t, key[t], seen[t], new, "emplace")
      BY <1>1, <3>2, Untouched DEF Sets, Go
    <3> QED
      BY <1>2, <3>3
  <2>3. CASE new # 1 /\ new >= ReserveCount
    <3>1. ~ (new < ReserveCount)
      BY <1>2, <2>3
    <3>2. id' = [id EXCEPT ![t] = 0] /\ Go(t, "trace")
      BY <2>3, <3>1 DEF TakeId
    <3>3. Sets(t, key[t], seen[t], 0, "trace")
      BY <1>1, <3>2, Untouched DEF Sets, Go
    <3> QED
      BY <3>3
  <2> QED
    BY <1>2, <2>1, <2>2, <2>3
<1>4. PICK v \in Nat, step \in {"reserve", "emplace", "trace"} :
        /\ Sets(t, key[t], seen[t], v, step) /\ (step # "trace" => v = new) /\ (step = "trace" => v = 0)
  BY <1>3
<1>5. /\ Alone(t) /\ key'[t] = key[t] /\ seen'[t] = seen[t] /\ id'[t] = v /\ pc'[t] = step
      /\ pc' \in [Threads -> States] /\ key' \in [Threads -> Nat] /\ id' \in [Threads -> Nat]
      /\ seen' \in [Threads -> Nat] /\ index' \in [Threads -> Nat]
  <2>1. key[t] \in Nat /\ seen[t] \in Nat /\ step \in States
    BY <1>1, Untouched DEF States
  <2> HIDE DEF Sets
  <2> QED
    BY <1>1, <1>4, <2>1, SetsFacts
<1>6. taken' \in Seq(Nat) /\ Len(taken') = new /\ taken'[new] = key[t]
  BY <1>1, <1>2 DEF TracerTypes
<1>7. TracerTypes'
  BY <1>1, <1>5, <1>6 DEF TracerTypes, setVars
<1>8. Growing /\ StillOwed(t) /\ pc[t] \notin Inserting /\ pc'[t] \notin Inserting
  <2>1. Len(tables) \in Nat
    BY <1>1 DEF TracerTypes
  <2> QED
    BY <1>1, <1>2, <1>4, <1>5, <2>1 DEF Growing, StillOwed, Inscribing, Inserting, setVars
<1>9. Knows(t)'
  <2>1. new \in 1 .. Len(taken') /\ taken'[new] = key[t]
    BY <1>2, <1>6
  <2>2. tables' = tables /\ seen[t] <= Len(tables)
    BY <1>1 DEF Knows, setVars
  <2>3. step = "trace" => id'[t] = 0
    BY <1>4, <1>5
  <2>4. step # "trace" => Took(key[t], id[t])'
    BY <1>4, <1>5, <2>1 DEF Took
  <2> HIDE DEF new
  <2> QED
    BY <1>1, <1>4, <1>5, <2>2, <2>3, <2>4 DEF Knows
<1> QED
  BY <1>1, <1>5, <1>7, <1>8, <1>9, QuietStep

\* The frames of a stack are logged under the id that it took.
LEMMA LogSpecStep ==
  ASSUME TracerInv, NEW t \in Threads, LogSpec(t)
  PROVE  TracerInv'
<1>1. /\ TracerTypes /\ Knows(t) /\ pc[t] = "spec" /\ key[t] # NoKey /\ Took(key[t], id[t])
      /\ UNCHANGED <<instance, setVars, taken, allocs, key, index, seen, id>>
      /\ Sets(t, key[t], seen[t], id[t], "trace")
  <2>1. TracerTypes /\ Knows(t)
    BY DEF TracerInv, ThreadInv
  <2>2. /\ pc[t] = "spec" /\ Go(t, "trace")
        /\ UNCHANGED <<instance, setVars, taken, allocs, key, index, seen, id>>
    BY DEF LogSpec, setVars, callVars, findVars
  <2>3. Sets(t, key[t], seen[t], id[t], "trace")
    BY <2>1, <2>2, Untouched DEF Sets, Go
  <2> QED
    BY <2>1, <2>2, <2>3 DEF Knows
<1>2. \/ specs' = specs \union {<<key[t], id[t]>>} /\ skipped' = skipped
      \/ specs' = specs /\ skipped' = skipped \union {id[t]}
  BY DEF LogSpec
<1>3. /\ Alone(t) /\ key'[t] = key[t] /\ seen'[t] = seen[t] /\ id'[t] = id[t] /\ pc'[t] = "trace"
      /\ pc' \in [Threads -> States] /\ key' \in [Threads -> Nat] /\ id' \in [Threads -> Nat]
      /\ seen' \in [Threads -> Nat] /\ index' \in [Threads -> Nat]
  <2>1. key[t] \in Nat /\ seen[t] \in Nat /\ id[t] \in Nat /\ "trace" \in States
    BY <1>1, Untouched DEF States
  <2> HIDE DEF Sets
  <2> QED
    BY <1>1, <2>1, SetsFacts
<1>4. \A e \in specs' \union allocs' : e = <<e[1], e[2]>>
  <2>1. \A e \in specs \union allocs : e = <<e[1], e[2]>>
    BY <1>1 DEF TracerTypes
  <2> QED
    BY <1>1, <1>2, <2>1
<1>5. TracerTypes'
  BY <1>1, <1>3, <1>4 DEF TracerTypes, setVars
<1>6. Growing /\ StillOwed(t) /\ pc[t] \notin Inserting /\ pc'[t] \notin Inserting
  <2>1. Len(tables) \in Nat
    BY <1>1 DEF TracerTypes
  <2> QED
    BY <1>1, <1>2, <1>3, <2>1 DEF Growing, StillOwed, Inserting, setVars
<1>7. /\ \A k, v : Took(k, v) => Took(k, v)'
      /\ \A k, v : Took(k, v) /\ Settled(k, v) => Settled(k, v)'
  BY <1>3, <1>6, GrowthKeeps
<1>8. Knows(t)'
  <2>1. Took(key[t], id[t])'
    BY <1>1 DEF Took
  <2>2. Settled(key[t], id[t])'
    BY <1>1, <1>2 DEF Settled
  <2> QED
    BY <1>1, <1>3, <2>1, <2>2 DEF Knows, setVars
<1>9. \A e \in specs' : e \in specs \/ (e[2] # 0 => Took(e[1], e[2])')
  <2>1. Took(key[t], id[t])'
    BY <1>1 DEF Took
  <2> SUFFICES ASSUME NEW e \in specs', e \notin specs
               PROVE  Took(e[1], e[2])'
    OBVIOUS
  <2>2. e[1] = key[t] /\ e[2] = id[t]
    BY <1>2
  <2> QED
    BY <1>1, <2>1, <2>2 DEF Took
<1> QED
  BY <1>1, <1>3, <1>5, <1>6, <1>8, <1>9, QuietStep

\* The allocation is logged with an id whose frames are settled.
LEMMA LogAllocStep ==
  ASSUME TracerInv, NEW t \in Threads, LogAlloc(t)
  PROVE  TracerInv'
<1>1. /\ TracerTypes /\ Knows(t) /\ pc[t] = "trace" /\ key[t] # NoKey
      /\ UNCHANGED <<instance, setVars, taken, specs, skipped, index>>
      /\ Sets(t, NoKey, 0, 0, "idle")
  BY DEF TracerInv, ThreadInv, Knows, LogAlloc, Sets, Go, setVars
<1>2. allocs' = allocs \/ allocs' = allocs \union {<<key[t], id[t]>>}
  BY DEF LogAlloc
<1>3. /\ Alone(t) /\ key'[t] = NoKey /\ seen'[t] = 0 /\ id'[t] = 0 /\ pc'[t] = "idle"
      /\ pc' \in [Threads -> States] /\ key' \in [Threads -> Nat] /\ id' \in [Threads -> Nat]
      /\ seen' \in [Threads -> Nat] /\ index' \in [Threads -> Nat]
  <2>1. NoKey \in Nat /\ 0 \in Nat /\ "idle" \in States
    BY DEF States, NoKey
  <2> HIDE DEF Sets
  <2> QED
    BY <1>1, <2>1, SetsFacts
<1>4. \A e \in specs' \union allocs' : e = <<e[1], e[2]>>
  <2>1. \A e \in specs \union allocs : e = <<e[1], e[2]>>
    BY <1>1 DEF TracerTypes
  <2> QED
    BY <1>1, <1>2, <2>1
<1>5. TracerTypes'
  BY <1>1, <1>3, <1>4 DEF TracerTypes, setVars
<1>6. Growing /\ StillOwed(t) /\ pc[t] \notin Inserting /\ pc'[t] \notin Inserting
  <2>1. Len(tables) \in Nat
    BY <1>1 DEF TracerTypes
  <2> QED
    BY <1>1, <1>3, <2>1 DEF Growing, StillOwed, Inscribing, Inserting, setVars
<1>7. /\ \A k, v : Took(k, v) => Took(k, v)'
      /\ \A k, v : Took(k, v) /\ Settled(k, v) => Settled(k, v)'
  BY <1>3, <1>6, GrowthKeeps
<1>8. Knows(t)'
  <2>1. Len(tables) \in Nat
    BY <1>1 DEF TracerTypes
  <2> QED
    BY <1>1, <1>3, <2>1 DEF Knows, setVars
<1>9. \A e \in allocs' : e \in allocs \/ (e[2] # 0 => Took(e[1], e[2])' /\ Settled(e[1], e[2])')
  <2> SUFFICES ASSUME NEW e \in allocs', e \notin allocs, e[2] # 0
               PROVE  Took(e[1], e[2])' /\ Settled(e[1], e[2])'
    OBVIOUS
  <2>1. e[1] = key[t] /\ e[2] = id[t]
    BY <1>2
  <2>2. Took(e[1], e[2]) /\ Settled(e[1], e[2])
    BY <1>1, <2>1 DEF Knows
  <2>3. PICK k, v : k = key[t] /\ v = id[t]
    OBVIOUS
  <2>4. Took(k, v)' /\ Settled(k, v)'
    BY <1>7, <2>1, <2>2, <2>3
  <2>5. e[1] = k /\ e[2] = v
    BY <2>1, <2>3
  <2> QED
    BY <2>4, <2>5
<1> QED
  BY <1>1, <1>3, <1>5, <1>6, <1>8, <1>9, QuietStep

\* Switching a channel decides only what is logged from then on.
LEMMA RestingStep ==
  ASSUME TracerInv,
         UNCHANGED <<instance, setVars, taken, pc, callVars, findVars, id, outputVars>>
  PROVE  TracerInv'
<1>1. UNCHANGED <<instance, tables, lock, known, late, taken, pc, key, seen, index, id, specs,
                  skipped, allocs>>
  BY DEF setVars, callVars, findVars, outputVars
<1>2. \A k, v : (Took(k, v) <=> Took(k, v)') /\ (Settled(k, v) <=> Settled(k, v)')
  BY <1>1 DEF Took, Settled
<1>3. \A t : Knows(t) <=> Knows(t)'
  BY <1>1, <1>2 DEF Knows
<1>4. HashTable' = HashTable /\ \A t, T : Writer(t, T) <=> Writer(t, T)'
  BY <1>1 DEF HashTable, Writer
<1>5. TracerTypes' /\ TablesInv'
  BY <1>1, <1>2 DEF TracerInv, TracerTypes, TablesInv
<1>6. CurrentInv'
  BY <1>1, <1>4 DEF TracerInv, CurrentInv
<1>7. ThreadInv' /\ LogsInv' /\ KnownInv'
  BY <1>1, <1>2, <1>3, <1>4 DEF TracerInv, ThreadInv, LogsInv, KnownInv
<1> QED
  BY <1>5, <1>6, <1>7 DEF TracerInv

\* The last table changes, or one more is made.
NewLast(T) ==
  /\ Len(tables') \in Nat /\ Len(tables') > 0 /\ tables'[Len(tables')] = T
  /\ tables' \in Seq(HashTables)
  /\ \A m \in 1 .. Len(tables') : m # Len(tables') => m \in 1 .. Len(tables) /\ tables'[m] = tables[m]

\* A table is made and becomes the current one.
LEMMA LastAppended ==
  ASSUME tables \in Seq(HashTables), NEW T \in HashTables, tables' = Append(tables, T)
  PROVE  NewLast(T) /\ Len(tables) <= Len(tables') /\ tables' # <<>>
BY DEF NewLast

\* The current table is written to.
LEMMA LastChanged ==
  ASSUME tables \in Seq(HashTables), tables # <<>>, NEW T \in HashTables,
         tables' = [tables EXCEPT ![Len(tables)] = T]
  PROVE  NewLast(T) /\ Len(tables) <= Len(tables') /\ tables' # <<>>
<1>1. Len(tables) \in Nat /\ Len(tables) > 0
  OBVIOUS
<1>2. tables' \in Seq(HashTables) /\ Len(tables') = Len(tables)
  OBVIOUS
<1>3. tables'[Len(tables')] = T
  BY <1>1, <1>2
<1>4. \A m \in 1 .. Len(tables') : m # Len(tables') => m \in 1 .. Len(tables) /\ tables'[m] = tables[m]
  <2>1. DOMAIN tables = 1 .. Len(tables)
    OBVIOUS
  <2>2. \A m \in DOMAIN tables : m # Len(tables) => tables'[m] = tables[m]
    OBVIOUS
  <2> QED
    BY ONLY <1>2, <2>1, <2>2
<1>5. tables' # <<>>
  BY <1>1, <1>2
<1>6. Len(tables') \in Nat /\ Len(tables') > 0 /\ Len(tables) <= Len(tables')
  BY <1>1, <1>2
<1> QED
  BY ONLY <1>2, <1>3, <1>4, <1>5, <1>6 DEF NewLast

\* The other tables are what they were: what holds of them, and of the new last one, holds of all.
LEMMA LastTable ==
  ASSUME TracerInv, NEW t \in Threads, Alone(t), StillOwed(t), Growing,
         NEW T, NewLast(T), Sound(T), HasKey(T, NoKey),
         \A i \in DOMAIN T.entry : T.entry[i].key # NoKey /\ T.entry[i].value # 0 =>
           Took(T.entry[i].key, T.entry[i].value)' /\ Settled(T.entry[i].key, T.entry[i].value)'
  PROVE  TablesInv' /\ HashTable' = T
<1>1. /\ \A k, v : Took(k, v) => Took(k, v)'
      /\ \A k, v : Took(k, v) /\ Settled(k, v) => Settled(k, v)'
  BY GrowthKeeps
<1>2. HashTable' = T
  BY DEF NewLast, HashTable
<1>3. ASSUME NEW m \in 1 .. Len(tables')
      PROVE  TablesInv!(m)'
  <2>1. CASE m = Len(tables')
    BY <2>1 DEF NewLast
  <2>2. CASE m # Len(tables')
    <3>1. m \in 1 .. Len(tables) /\ tables'[m] = tables[m]
      BY <2>2 DEF NewLast
    <3> QED
      BY <1>1, <3>1 DEF TracerInv, TablesInv
  <2> QED
    BY <2>1, <2>2
<1> QED
  BY <1>2, <1>3 DEF TablesInv

\* What remains to be shown of a step that changes the last table.
LEMMA TableStep ==
  ASSUME TracerInv, NEW t \in Threads, Alone(t), StillOwed(t), Growing,
         UNCHANGED <<instance, taken, specs, skipped, allocs>>,
         NEW T, NewLast(T), Sound(T), HasKey(T, NoKey),
         \A i \in DOMAIN T.entry : T.entry[i].key # NoKey /\ T.entry[i].value # 0 =>
           Took(T.entry[i].key, T.entry[i].value)' /\ Settled(T.entry[i].key, T.entry[i].value)',
         pc' \in [Threads -> States] /\ key' \in [Threads -> Nat] /\ id' \in [Threads -> Nat],
         seen' \in [Threads -> Nat] /\ index' \in [Threads -> Nat],
         lock \in {NoThread, t}, lock' \in {NoThread, t}, late' \in BOOLEAN,
         pc'[t] \in Inserting <=> lock' = t,
         lock' = t => Writer(t, T)',
         lock' = NoThread => /\ \A i \in DOMAIN T.entry : Complete(T, i)
                             /\ Cardinality(Filled(T)) <= T.used
                             /\ T.used < TableSize(T),
         \A k \in known' : k # NoKey /\ (late' \/ HasKey(T, k)),
         Knows(t)'
  PROVE  TracerInv'
<1>1. TablesInv' /\ HashTable' = T
  BY LastTable
<1>2. ThreadInv' /\ LogsInv'
  <2>1. /\ \A u \in Threads \ {t} : Knows(u)'
        /\ \A e \in specs \union allocs : e[2] # 0 => Took(e[1], e[2])'
        /\ \A e \in allocs : e[2] # 0 => Settled(e[1], e[2])'
    BY OthersKnow
  <2> QED
    BY <2>1 DEF ThreadInv, LogsInv
<1>3. TracerTypes'
  BY DEF TracerInv, TracerTypes, NewLast
<1>4. KnownInv'
  BY <1>1 DEF KnownInv
<1>5. CurrentInv'
  <2>1. ASSUME NEW u \in Threads
        PROVE  (pc[u] \in Inserting <=> lock = u)' /\ (lock = u => Writer(u, HashTable))'
    <3>1. CASE u = t
      BY <1>1, <3>1 DEF Writer
    <3>2. CASE u # t
      <4>1. lock # u /\ lock' # u /\ pc'[u] = pc[u]
        BY <3>2, TracerAssumption DEF Alone
      <4>2. pc[u] \notin Inserting
        BY <4>1 DEF TracerInv, CurrentInv
      <4> QED
        BY <4>1, <4>2
    <3> QED
      BY <3>1, <3>2
  <2>2. tables' # <<>>
    BY DEF NewLast
  <2> QED
    BY <1>1, <2>1, <2>2 DEF CurrentInv
<1> QED
  BY <1>1, <1>2, <1>3, <1>4, <1>5 DEF TracerInv

\* A new table in place of the one that was there.
LEMMA ReserveStep ==
  ASSUME TracerInv, NEW t \in Threads, Reserve(t)
  PROVE  TracerInv'
<1> DEFINE E == EmptyTable(ReserveCount)
<1>1. /\ TracerTypes /\ Knows(t) /\ pc[t] = "reserve" /\ key[t] # NoKey /\ Took(key[t], id[t])
      /\ UNCHANGED <<instance, lock, known, taken, specs, skipped, allocs, key, index, seen, id>>
      /\ Sets(t, key[t], seen[t], id[t], "emplace")
  <2>1. TracerTypes /\ Knows(t)
    BY DEF TracerInv, ThreadInv
  <2>2. /\ pc[t] = "reserve" /\ Go(t, "emplace")
        /\ UNCHANGED <<instance, lock, known, taken, specs, skipped, allocs, key, index, seen, id>>
    BY DEF Reserve, setVars, callVars, findVars, outputVars
  <2>3. Sets(t, key[t], seen[t], id[t], "emplace")
    BY <2>1, <2>2, Untouched DEF Sets, Go
  <2> QED
    BY <2>1, <2>2, <2>3 DEF Knows
<1>2. /\ Alone(t) /\ key'[t] = key[t] /\ seen'[t] = seen[t] /\ id'[t] = id[t] /\ pc'[t] = "emplace"
      /\ pc' \in [Threads -> States] /\ key' \in [Threads -> Nat] /\ id' \in [Threads -> Nat]
      /\ seen' \in [Threads -> Nat] /\ index' \in [Threads -> Nat]
  <2>1. key[t] \in Nat /\ seen[t] \in Nat /\ id[t] \in Nat /\ "emplace" \in States
    BY <1>1, Untouched DEF States
  <2> HIDE DEF Sets
  <2> QED
    BY <1>1, <2>1, SetsFacts
<1>3. /\ lock = NoThread /\ tables' = Append(tables, E)
      /\ late' \in BOOLEAN /\ (tables # <<>> => late')
  BY <1>1 DEF Reserve, TracerTypes
<1>4. /\ Sound(E) /\ TableSize(E) = ReserveCount /\ E.used = 0
      /\ \A i \in DOMAIN E.entry : E.entry[i].key = NoKey /\ E.entry[i].value = 0
      /\ Cardinality(Filled(E)) = 0 /\ HasKey(E, NoKey)
  BY EmptyFacts, TracerAssumption
<1>5. E \in HashTables /\ Cardinality(Filled(E)) <= E.used /\ E.used < TableSize(E)
      /\ \A i \in DOMAIN E.entry : Complete(E, i)
  BY <1>4, TracerAssumption DEF Sound, Complete
<1> HIDE DEF E
<1>6. NewLast(E) /\ Len(tables) <= Len(tables')
  BY <1>1, <1>3, <1>5, LastAppended DEF TracerTypes
<1>7. Growing /\ StillOwed(t)
  BY <1>1, <1>6 DEF Growing, StillOwed, Inscribing
<1>8. \A k \in known' : k # NoKey /\ (late' \/ HasKey(E, k))
  BY <1>1, <1>3 DEF TracerInv, KnownInv, CurrentInv
<1>9. Knows(t)'
  <2>1. seen[t] <= Len(tables')
    <3>1. seen[t] \in Nat /\ seen[t] <= Len(tables) /\ Len(tables) \in Nat /\ Len(tables') \in Nat
      BY <1>1, <1>6, Untouched DEF TracerTypes, Knows, NewLast
    <3> QED
      BY <1>6, <3>1
  <2>2. Took(key[t], id[t])'
    BY <1>1 DEF Took
  <2> QED
    BY <1>1, <1>2, <2>1, <2>2 DEF Knows
<1>10. /\ lock \in {NoThread, t} /\ lock' = NoThread /\ lock' # t /\ pc'[t] \notin Inserting
  BY <1>1, <1>2, <1>3, TracerAssumption DEF Inserting
<1> QED
  BY <1>1, <1>2, <1>3, <1>4, <1>5, <1>6, <1>7, <1>8, <1>9, <1>10, TableStep

\* What a find under the lock says of the current table.
LEMMA CurrentFinds ==
  ASSUME TracerInv, NEW k \in Nat, k # NoKey
  PROVE  InTable(Len(tables), k) <=> tables # <<>> /\ HasKey(HashTable, k)
<1>1. tables \in Seq(HashTables)
  BY DEF TracerInv, TracerTypes
<1>2. CASE tables = <<>>
  BY <1>2 DEF InTable
<1>3. CASE tables # <<>>
  <2>1. Len(tables) # 0 /\ Len(tables) \in 1 .. Len(tables)
    BY <1>1, <1>3
  <2>2. Sound(HashTable)
    BY <2>1 DEF TracerInv, TablesInv, HashTable
  <2>3. Holds(HashTable, k) <=> HasKey(HashTable, k)
    BY <2>2, FindFacts
  <2> QED
    BY <1>3, <2>1, <2>3 DEF InTable, HashTable
<1> QED
  BY <1>2, <1>3

\* There is room for one more key, and what was in the table is there.
LEMMA RoomyFacts ==
  ASSUME TracerInv, lock = NoThread, NEW k \in Nat, k # NoKey, ~ InTable(Len(tables), k)
  PROVE  \E T \in HashTables :
           /\ (Roomy = tables /\ tables # <<>> /\ T = HashTable) \/ Roomy = Append(tables, T)
           /\ Sound(T) /\ HasKey(T, NoKey) /\ ~ HasKey(T, k)
           /\ T.used + 1 < TableSize(T) /\ Cardinality(Filled(T)) <= T.used
           /\ \A i \in DOMAIN T.entry : Complete(T, i)
           /\ tables # <<>> => \A x : x # NoKey /\ HasKey(HashTable, x) => HasKey(T, x)
           /\ \A j \in DOMAIN T.entry : T.entry[j].key # NoKey =>
                tables # <<>> /\ \E i \in DOMAIN HashTable.entry : T.entry[j] = HashTable.entry[i]
<1>1. tables \in Seq(HashTables)
  BY DEF TracerInv, TracerTypes
<1>2. CASE tables = <<>>
  <2> DEFINE T == EmptyTable(DefaultSize)
  <2>1. /\ Sound(T) /\ TableSize(T) = DefaultSize /\ T.used = 0
        /\ \A i \in DOMAIN T.entry : T.entry[i].key = NoKey /\ T.entry[i].value = 0
        /\ Cardinality(Filled(T)) = 0 /\ HasKey(T, NoKey)
    BY EmptyFacts, TracerAssumption
  <2>2. Roomy = <<T>> /\ <<T>> = Append(tables, T)
    BY <1>2 DEF Roomy
  <2> HIDE DEF T
  <2>3. 0 + 1 < DefaultSize
    <3>1. \A n \in Nat \ {0, 1} : 0 + 1 < n
      OBVIOUS
    <3> QED
      BY <3>1, TracerAssumption
  <2>4. T \in HashTables /\ ~ HasKey(T, k) /\ Cardinality(Filled(T)) <= T.used
        /\ \A i \in DOMAIN T.entry : Complete(T, i)
    BY <2>1 DEF Sound, HasKey, Complete
  <2> QED
    BY <1>2, <2>1, <2>2, <2>3, <2>4
<1>3. CASE tables # <<>>
  <2> DEFINE T == HashTable
  <2>1. Len(tables) \in 1 .. Len(tables)
    BY <1>1, <1>3
  <2>2. /\ Sound(T) /\ HasKey(T, NoKey) /\ ~ HasKey(T, k)
        /\ Cardinality(Filled(T)) <= T.used /\ \A i \in DOMAIN T.entry : Complete(T, i)
    <3>1. Sound(T) /\ HasKey(T, NoKey)
      BY <2>1 DEF TracerInv, TablesInv, HashTable
    <3>2. ~ HasKey(T, k)
      BY <1>3, CurrentFinds
    <3>3. Cardinality(Filled(T)) <= T.used /\ \A i \in DOMAIN T.entry : Complete(T, i)
      BY <1>3 DEF TracerInv, CurrentInv
    <3> QED
      BY <3>1, <3>2, <3>3
  <2> HIDE DEF T
  <2>3. T \in HashTables
    BY <2>2 DEF Sound
  <2>4. CASE MustGrow(T)
    <3> DEFINE G == Grown(T)
    <3>1. /\ Sound(G) /\ G.used + 1 < TableSize(G) /\ Cardinality(Filled(G)) <= G.used
          /\ HasKey(G, NoKey)
          /\ \A i \in DOMAIN G.entry : Complete(G, i)
          /\ \A x : x # NoKey => (HasKey(G, x) <=> HasKey(T, x))
          /\ \A j \in DOMAIN G.entry : G.entry[j].key # NoKey =>
               \E i \in DOMAIN T.entry : G.entry[j] = T.entry[i]
      BY <2>2, GrownFacts
    <3>2. Roomy = Append(tables, G)
      BY <1>3, <2>4 DEF Roomy, T
    <3> HIDE DEF G
    <3>3. G \in HashTables /\ ~ HasKey(G, k)
      BY <2>2, <3>1 DEF Sound
    <3> QED
      BY <1>3, <3>1, <3>2, <3>3 DEF T
  <2>5. CASE ~ MustGrow(T)
    <3>1. Roomy = tables
      BY <1>3, <2>5 DEF Roomy, T
    <3>2. T.used + 1 < TableSize(T)
      <4>1. TableSize(T) \in Nat /\ T.used \in Nat /\ TableSize(T) > 1
        BY <2>2, <2>3, TableFacts DEF Sound
      <4>2. \A u, n \in Nat : n > 1 /\ ~ (u >= n \div 2) => u + 1 < n
        OBVIOUS
      <4> QED
        BY <2>5, <4>1, <4>2 DEF MustGrow
    <3> QED
      BY <1>3, <2>2, <2>3, <3>1, <3>2 DEF T
  <2> QED
    BY <2>4, <2>5
<1> QED
  BY <1>2, <1>3

\* Another thread was first with this stack: nothing is inserted.
LEMMA EmplaceFinds ==
  ASSUME TracerInv, NEW t \in Threads, Emplace(t), InTable(Len(tables), key[t])
  PROVE  TracerInv'
<1>1. /\ TracerTypes /\ Knows(t) /\ pc[t] = "emplace" /\ key[t] # NoKey /\ Took(key[t], id[t])
      /\ UNCHANGED <<instance, tables, lock, late, taken, specs, skipped, allocs, key, index, seen, id>>
      /\ Sets(t, key[t], seen[t], id[t], "spec") /\ known' = known \union {key[t]}
  <2>1. TracerTypes /\ Knows(t)
    BY DEF TracerInv, ThreadInv
  <2>2. /\ pc[t] = "emplace" /\ Go(t, "spec") /\ known' = known \union {key[t]}
        /\ UNCHANGED <<instance, tables, lock, late, taken, specs, skipped, allocs, key, index, seen, id>>
    BY DEF Emplace, callVars, findVars, outputVars
  <2>3. Sets(t, key[t], seen[t], id[t], "spec")
    BY <2>1, <2>2, Untouched DEF Sets, Go
  <2> QED
    BY <2>1, <2>2, <2>3 DEF Knows
<1>2. /\ Alone(t) /\ key'[t] = key[t] /\ seen'[t] = seen[t] /\ id'[t] = id[t] /\ pc'[t] = "spec"
      /\ pc' \in [Threads -> States] /\ key' \in [Threads -> Nat] /\ id' \in [Threads -> Nat]
      /\ seen' \in [Threads -> Nat] /\ index' \in [Threads -> Nat]
  <2>1. key[t] \in Nat /\ seen[t] \in Nat /\ id[t] \in Nat /\ "spec" \in States
    BY <1>1, Untouched DEF States
  <2> HIDE DEF Sets
  <2> QED
    BY <1>1, <2>1, SetsFacts
<1>3. tables # <<>> /\ HasKey(HashTable, key[t])
  BY <1>1, CurrentFinds, Untouched
<1>4. Growing /\ StillOwed(t) /\ pc[t] \notin Inserting /\ pc'[t] \notin Inserting
  <2>1. Len(tables) \in Nat
    BY <1>1 DEF TracerTypes
  <2> QED
    BY <1>1, <1>2, <2>1 DEF Growing, StillOwed, Inscribing, Inserting
<1>5. TablesInv' /\ CurrentInv' /\ KnownInv'
  <2>1. \A k \in known' : k \in known \/ (tables # <<>> /\ k # NoKey /\ HasKey(HashTable, k))
    BY <1>1, <1>3
  <2> QED
    BY <1>1, <1>2, <1>4, <2>1, SetKept
<1>6. Knows(t)'
  BY <1>1, <1>2 DEF Knows, Took
<1>7. TracerTypes'
  BY <1>1, <1>2 DEF TracerTypes
<1>8. ThreadInv' /\ LogsInv'
  <2>1. /\ \A u \in Threads \ {t} : Knows(u)'
        /\ \A e \in specs \union allocs : e[2] # 0 => Took(e[1], e[2])'
        /\ \A e \in allocs : e[2] # 0 => Settled(e[1], e[2])'
    BY <1>2, <1>4, OthersKnow
  <2> QED
    BY <1>1, <1>6, <2>1 DEF ThreadInv, LogsInv
<1> QED
  BY <1>5, <1>7, <1>8 DEF TracerInv

\* Room is made for a new stack, and the lock kept.
LEMMA EmplaceMakesRoom ==
  ASSUME TracerInv, NEW t \in Threads, Emplace(t), ~ InTable(Len(tables), key[t])
  PROVE  TracerInv'
<1>1. /\ TracerTypes /\ Knows(t) /\ pc[t] = "emplace" /\ key[t] # NoKey /\ Took(key[t], id[t])
      /\ UNCHANGED <<instance, known, late, taken, specs, skipped, allocs, key, index, seen, id>>
      /\ Sets(t, key[t], seen[t], id[t], "insert")
      /\ lock = NoThread /\ lock' = t /\ tables' = Roomy
  <2>1. TracerTypes /\ Knows(t)
    BY DEF TracerInv, ThreadInv
  <2>2. /\ pc[t] = "emplace" /\ Go(t, "insert") /\ lock = NoThread /\ lock' = t /\ tables' = Roomy
        /\ UNCHANGED <<instance, known, late, taken, specs, skipped, allocs, key, index, seen, id>>
    BY DEF Emplace, callVars, findVars, outputVars
  <2>3. Sets(t, key[t], seen[t], id[t], "insert")
    BY <2>1, <2>2, Untouched DEF Sets, Go
  <2> QED
    BY <2>1, <2>2, <2>3 DEF Knows
<1>2. /\ Alone(t) /\ key'[t] = key[t] /\ seen'[t] = seen[t] /\ id'[t] = id[t] /\ pc'[t] = "insert"
      /\ pc' \in [Threads -> States] /\ key' \in [Threads -> Nat] /\ id' \in [Threads -> Nat]
      /\ seen' \in [Threads -> Nat] /\ index' \in [Threads -> Nat]
      /\ key[t] \in Nat /\ seen[t] \in Nat
  <2>1. key[t] \in Nat /\ seen[t] \in Nat /\ id[t] \in Nat /\ "insert" \in States
    BY <1>1, Untouched DEF States
  <2> HIDE DEF Sets
  <2> QED
    BY <1>1, <2>1, SetsFacts
<1>3. PICK T \in HashTables :
           /\ (Roomy = tables /\ tables # <<>> /\ T = HashTable) \/ Roomy = Append(tables, T)
           /\ Sound(T) /\ HasKey(T, NoKey) /\ ~ HasKey(T, key[t])
           /\ T.used + 1 < TableSize(T) /\ Cardinality(Filled(T)) <= T.used
           /\ \A i \in DOMAIN T.entry : Complete(T, i)
           /\ tables # <<>> => \A x : x # NoKey /\ HasKey(HashTable, x) => HasKey(T, x)
           /\ \A j \in DOMAIN T.entry : T.entry[j].key # NoKey =>
                tables # <<>> /\ \E i \in DOMAIN HashTable.entry : T.entry[j] = HashTable.entry[i]
  BY <1>1, <1>2, RoomyFacts
<1>4. NewLast(T) /\ Len(tables) <= Len(tables')
  <2>1. tables \in Seq(HashTables)
    BY <1>1 DEF TracerTypes
  <2>2. CASE tables' = Append(tables, T)
    BY <2>1, <2>2, LastAppended
  <2>3. CASE tables' = tables /\ tables # <<>> /\ T = HashTable
    BY <2>1, <2>3 DEF NewLast, HashTable
  <2> QED
    BY <1>1, <1>3, <2>2, <2>3
<1>5. Growing /\ StillOwed(t)
  BY <1>1, <1>4 DEF Growing, StillOwed, Inscribing
<1>6. \A i \in DOMAIN T.entry : T.entry[i].key # NoKey /\ T.entry[i].value # 0 =>
        Took(T.entry[i].key, T.entry[i].value)' /\ Settled(T.entry[i].key, T.entry[i].value)'
  <2>1. /\ \A k, v : Took(k, v) => Took(k, v)'
        /\ \A k, v : Took(k, v) /\ Settled(k, v) => Settled(k, v)'
    BY <1>2, <1>5, GrowthKeeps
  <2>2. ASSUME tables # <<>>, NEW i \in DOMAIN HashTable.entry,
               HashTable.entry[i].key # NoKey, HashTable.entry[i].value # 0
        PROVE  /\ Took(HashTable.entry[i].key, HashTable.entry[i].value)
               /\ Settled(HashTable.entry[i].key, HashTable.entry[i].value)
    <3>1. Len(tables) \in 1 .. Len(tables)
      BY <1>1, <2>2 DEF TracerTypes
    <3> QED
      BY <2>2, <3>1 DEF TracerInv, TablesInv, HashTable
  <2>3. ASSUME NEW i \in DOMAIN T.entry, T.entry[i].key # NoKey, T.entry[i].value # 0
        PROVE  Took(T.entry[i].key, T.entry[i].value) /\ Settled(T.entry[i].key, T.entry[i].value)
    BY <1>3, <2>2, <2>3
  <2> QED
    BY <2>1, <2>3
<1>7. \A k \in known' : k # NoKey /\ (late' \/ HasKey(T, k))
  BY <1>1, <1>3 DEF TracerInv, KnownInv, CurrentInv
<1>8. Knows(t)'
  <2>1. seen[t] <= Len(tables')
    <3>1. seen[t] <= Len(tables) /\ Len(tables) \in Nat /\ Len(tables') \in Nat
      BY <1>1, <1>4 DEF TracerTypes, Knows, NewLast
    <3> QED
      BY <1>2, <1>4, <3>1
  <2> QED
    BY <1>1, <1>2, <2>1 DEF Knows, Took
<1>9. Writer(t, T)'
  <2>1. id'[t] # 0
    BY <1>1, <1>2 DEF Took
  <2> QED
    BY <1>1, <1>2, <1>3, <2>1 DEF Writer
<1>10. /\ lock \in {NoThread, t} /\ lock' # NoThread /\ pc'[t] \in Inserting
       /\ late' \in BOOLEAN
  BY <1>1, <1>2, TracerAssumption DEF Inserting, TracerTypes
<1> QED
  BY <1>1, <1>2, <1>3, <1>4, <1>5, <1>6, <1>7, <1>8, <1>9, <1>10, TableStep

\* The table that a thread writes to.
LEMMA WriterFacts ==
  ASSUME TracerInv, NEW t \in Threads, pc[t] \in Inserting
  PROVE  /\ lock = t /\ lock # NoThread /\ tables # <<>> /\ HashTable = tables[Len(tables)]
         /\ Sound(HashTable) /\ HasKey(HashTable, NoKey) /\ Writer(t, HashTable)
         /\ \A i \in DOMAIN HashTable.entry :
              HashTable.entry[i].key # NoKey /\ HashTable.entry[i].value # 0 =>
                Took(HashTable.entry[i].key, HashTable.entry[i].value)
                  /\ Settled(HashTable.entry[i].key, HashTable.entry[i].value)
         /\ \A k \in known : k # NoKey /\ (late \/ HasKey(HashTable, k))
<1>1. lock = t /\ lock # NoThread /\ tables # <<>> /\ Writer(t, HashTable)
  BY TracerAssumption DEF TracerInv, CurrentInv
<1>2. Len(tables) \in 1 .. Len(tables)
  BY <1>1 DEF TracerInv, TracerTypes
<1> QED
  BY <1>1, <1>2 DEF TracerInv, TablesInv, KnownInv, HashTable

\* One entry of a table is overwritten.
LEMMA EntryWritten ==
  ASSUME NEW T \in HashTables, NEW e \in DOMAIN T.entry, NEW u \in Nat, NEW x \in [key : Nat, value : Nat],
         NEW T2, T2 = [used |-> u, entry |-> [T.entry EXCEPT ![e] = x]]
  PROVE  /\ T2 \in HashTables /\ T2.used = u /\ DOMAIN T2.entry = DOMAIN T.entry
         /\ T2.entry[e] = x /\ \A i \in DOMAIN T.entry : i # e => T2.entry[i] = T.entry[i]
<1>1. TableSize(T) \in Nat /\ T.entry \in Slots(TableSize(T))
  BY TableFacts
<1>2. [T.entry EXCEPT ![e] = x] \in Slots(TableSize(T))
  BY <1>1 DEF Slots
<1> QED
  BY <1>1, <1>2 DEF HashTables

\* The store of the value makes nothing visible, the store of the key a stack without an id.
LEMMA StoreFirstStep ==
  ASSUME TracerInv, NEW t \in Threads, StoreFirst(t)
  PROVE  TracerInv'
<1>1. PICK T, k, v, e : T = HashTable /\ k = key[t] /\ v = id[t] /\ e = FreeEntry(HashTable, key[t])
  OBVIOUS
<1>2. /\ TracerTypes /\ Knows(t) /\ pc[t] = "insert" /\ k # NoKey /\ Took(k, v)
      /\ UNCHANGED <<instance, lock, known, late, taken, specs, skipped, allocs, key, seen, id>>
      /\ index' = [index EXCEPT ![t] = e]
  BY <1>1 DEF TracerInv, ThreadInv, Knows, StoreFirst, callVars, outputVars
<1>3. /\ lock = t /\ lock # NoThread /\ tables # <<>> /\ T = tables[Len(tables)]
      /\ Sound(T) /\ HasKey(T, NoKey) /\ Writer(t, T) /\ T \in HashTables
      /\ \A i \in DOMAIN T.entry : T.entry[i].key # NoKey /\ T.entry[i].value # 0 =>
           Took(T.entry[i].key, T.entry[i].value) /\ Settled(T.entry[i].key, T.entry[i].value)
      /\ \A y \in known : y # NoKey /\ (late \/ HasKey(T, y))
  BY <1>1, <1>2, WriterFacts DEF Inserting, Sound
<1>4. /\ v # 0 /\ T.used + 1 < TableSize(T) /\ ~ HasKey(T, k) /\ Cardinality(Filled(T)) <= T.used
      /\ \A i \in DOMAIN T.entry : Complete(T, i)
  BY <1>1, <1>2, <1>3 DEF Writer
<1>5. k \in Nat /\ v \in Nat /\ seen[t] \in Nat /\ T.used \in Nat /\ TableSize(T) \in Nat
  BY <1>1, <1>2, <1>3, TableFacts, Untouched
<1>6. e \in DOMAIN T.entry /\ T.entry[e].key = NoKey /\ T.entry[e].value = 0 /\ Met(T, k, e)
  <2>1. e \in DOMAIN T.entry /\ T.entry[e].key = NoKey /\ Met(T, k, e)
    BY <1>1, <1>3, <1>5, FreeFacts
  <2> QED
    BY <1>4, <2>1 DEF Complete
<1>7. e \in Nat
  <2>1. DOMAIN T.entry = 0 .. TableSize(T) - 1
    BY <1>3, TableFacts
  <2> QED
    BY <1>5, <1>6, <2>1
<1>8. T = [used |-> T.used, entry |-> T.entry] /\ T.entry[e] = [key |-> NoKey, value |-> 0]
  <2>1. T = [used |-> T.used, entry |-> T.entry]
    BY <1>3 DEF HashTables
  <2>2. T.entry[e] \in [key : Nat, value : Nat]
    BY <1>3, <1>5, <1>6, TableFacts DEF Slots
  <2> QED
    BY <1>6, <2>1, <2>2
<1>a. PICK x \in [key : Nat, value : Nat], step \in {"key", "value"} :
        /\ Go(t, step)
        /\ tables' = [tables EXCEPT ![Len(tables)] =
                       [used |-> T.used, entry |-> [T.entry EXCEPT ![e] = x]]]
        /\ (step = "key" => x = [key |-> NoKey, value |-> v])
        /\ (step = "value" => x = [key |-> k, value |-> 0])
  <2> DEFINE n == Len(tables)
  <2>1. CASE tables' = [tables EXCEPT ![n].entry[e].value = v] /\ Go(t, "key")
    <3> DEFINE x == [key |-> NoKey, value |-> v]
               T2 == [used |-> T.used, entry |-> [T.entry EXCEPT ![e] = x]]
    <3>1. tables' = [tables EXCEPT ![n] = [T EXCEPT !.entry = [T.entry EXCEPT ![e] = [T.entry[e] EXCEPT !.value = v]]]]
      BY <1>3, <2>1
    <3>2. [T.entry[e] EXCEPT !.value = v] = x
      BY <1>8
    <3>3. [T EXCEPT !.entry = [T.entry EXCEPT ![e] = x]] = T2
      BY <1>8
    <3>4. tables' = [tables EXCEPT ![n] = T2]
      BY <3>1, <3>2, <3>3
    <3>5. x \in [key : Nat, value : Nat]
      BY <1>5 DEF NoKey
    <3> QED
      BY <2>1, <3>4, <3>5
  <2>2. CASE tables' = [tables EXCEPT ![n].entry[e].key = k] /\ Go(t, "value")
    <3> DEFINE x == [key |-> k, value |-> 0]
               T2 == [used |-> T.used, entry |-> [T.entry EXCEPT ![e] = x]]
    <3>1. tables' = [tables EXCEPT ![n] = [T EXCEPT !.entry = [T.entry EXCEPT ![e] = [T.entry[e] EXCEPT !.key = k]]]]
      BY <1>3, <2>2
    <3>2. [T.entry[e] EXCEPT !.key = k] = x
      BY <1>8
    <3>3. [T EXCEPT !.entry = [T.entry EXCEPT ![e] = x]] = T2
      BY <1>8
    <3>4. tables' = [tables EXCEPT ![n] = T2]
      BY <3>1, <3>2, <3>3
    <3>5. x \in [key : Nat, value : Nat]
      BY <1>5
    <3> QED
      BY <2>2, <3>4, <3>5
  <2> QED
    BY <1>1, <2>1, <2>2 DEF StoreFirst
<1>9. PICK T2 :
        /\ Go(t, step) /\ T2 = [used |-> T.used, entry |-> [T.entry EXCEPT ![e] = x]]
        /\ tables' = [tables EXCEPT ![Len(tables)] = T2]
        /\ (step = "key" => x = [key |-> NoKey, value |-> v])
        /\ (step = "value" => x = [key |-> k, value |-> 0])
  BY <1>a
<1>10. /\ T2 \in HashTables /\ T2.used = T.used /\ DOMAIN T2.entry = DOMAIN T.entry
       /\ T2.entry[e] = x /\ \A i \in DOMAIN T.entry : i # e => T2.entry[i] = T.entry[i]
  BY <1>3, <1>5, <1>6, <1>9, EntryWritten
<1>11. NewLast(T2) /\ Len(tables) <= Len(tables')
  BY <1>2, <1>3, <1>9, <1>10, LastChanged DEF TracerTypes
<1>12. /\ Alone(t) /\ key'[t] = k /\ seen'[t] = seen[t] /\ id'[t] = v /\ index'[t] = e /\ pc'[t] = step
       /\ pc' \in [Threads -> States] /\ key' \in [Threads -> Nat] /\ id' \in [Threads -> Nat]
       /\ seen' \in [Threads -> Nat] /\ index' \in [Threads -> Nat]
  <2>1. /\ pc \in [Threads -> States] /\ index \in [Threads -> Nat] /\ step \in States
        /\ pc' = [pc EXCEPT ![t] = step]
    BY <1>2, <1>9 DEF TracerTypes, States, Go
  <2> HIDE DEF States
  <2>2. Alone(t)
    BY <1>2, <2>1 DEF Alone
  <2>3. /\ pc'[t] = step /\ index'[t] = e
        /\ pc' \in [Threads -> States] /\ index' \in [Threads -> Nat]
    BY <1>2, <1>7, <2>1
  <2> QED
    BY <1>1, <1>2, <2>2, <2>3 DEF TracerTypes
<1>13. Growing /\ StillOwed(t)
  BY <1>2, <1>11, <1>12 DEF Growing, StillOwed, Inscribing
<1>14. Knows(t)'
  <2>1. seen[t] <= Len(tables')
    <3>1. seen[t] <= Len(tables) /\ Len(tables) \in Nat /\ Len(tables') \in Nat
      BY <1>2, <1>11 DEF TracerTypes, Knows, NewLast
    <3> QED
      BY <1>5, <1>11, <3>1
  <2>2. Took(k, v)'
    BY <1>2 DEF Took
  <2> QED
    BY <1>2, <1>9, <1>12, <2>1, <2>2 DEF Knows
<1>15. \A i \in DOMAIN T2.entry : T2.entry[i].key # NoKey /\ T2.entry[i].value # 0 =>
         Took(T2.entry[i].key, T2.entry[i].value)' /\ Settled(T2.entry[i].key, T2.entry[i].value)'
  <2>1. /\ \A y, z : Took(y, z) => Took(y, z)'
        /\ \A y, z : Took(y, z) /\ Settled(y, z) => Settled(y, z)'
    BY <1>12, <1>13, GrowthKeeps
  <2>2. x.key = NoKey \/ x.value = 0
    BY <1>9
  <2>3. ASSUME NEW i \in DOMAIN T2.entry, T2.entry[i].key # NoKey, T2.entry[i].value # 0
        PROVE  i # e /\ i \in DOMAIN T.entry /\ T2.entry[i] = T.entry[i]
    BY <1>10, <2>2, <2>3
  <2> QED
    BY <1>3, <2>1, <2>3
<1>16. /\ Sound(T2) /\ HasKey(T2, NoKey) /\ Writer(t, T2)'
       /\ \A y : y # NoKey /\ HasKey(T, y) => HasKey(T2, y)
  <2>1. \A i \in DOMAIN T2.entry : i # e => Complete(T2, i)
    BY <1>4, <1>10 DEF Complete
  <2>2. CASE step = "key"
    <3>1. x = [key |-> NoKey, value |-> v]
      BY <1>9, <2>2
    <3>2. \A i \in DOMAIN T.entry : T2.entry[i].key = T.entry[i].key
      BY <1>6, <1>10, <3>1
    <3>3. /\ Sound(T2) /\ TableSize(T2) = TableSize(T) /\ Filled(T2) = Filled(T)
          /\ \A y : HasKey(T2, y) <=> HasKey(T, y)
          /\ Met(T2, k, e)
      BY <1>3, <1>5, <1>6, <1>10, <3>2, ValueChanged
    <3>4. T2.entry[e].key = NoKey /\ T2.used + 1 < TableSize(T2) /\ Cardinality(Filled(T2)) <= T2.used
          /\ ~ HasKey(T2, k) /\ e \in DOMAIN T2.entry
      BY <1>4, <1>6, <1>10, <3>1, <3>3
    <3>5. Writer(t, T2)'
      BY <1>2, <1>4, <1>12, <2>1, <2>2, <3>3, <3>4 DEF Writer
    <3> QED
      BY <1>3, <3>3, <3>5
  <2>3. CASE step = "value"
    <3>1. x = [key |-> k, value |-> 0]
      BY <1>9, <2>3
    <3>2. T2.entry[e].key = k /\ \A i \in DOMAIN T.entry : i # e => T2.entry[i].key = T.entry[i].key
      BY <1>10, <3>1
    <3>3. /\ Sound(T2) /\ TableSize(T2) = TableSize(T)
          /\ Cardinality(Filled(T2)) = Cardinality(Filled(T)) + 1
          /\ \A y : y # NoKey => (HasKey(T2, y) <=> y = k \/ HasKey(T, y))
      BY <1>2, <1>3, <1>4, <1>5, <1>6, <1>10, <3>2, KeyPlaced
    <3>4. /\ T2.used + 1 < TableSize(T2) /\ Cardinality(Filled(T2)) <= T2.used + 1
          /\ Cardinality(Filled(T2)) < TableSize(T2)
      <4> DEFINE c == Cardinality(Filled(T))  u == T.used  z == TableSize(T)
      <4>1. c \in Nat /\ u \in Nat /\ z \in Nat /\ c <= u /\ u + 1 < z
        BY <1>3, <1>4, <1>5, FilledFacts
      <4>2. T2.used = u /\ Cardinality(Filled(T2)) = c + 1 /\ TableSize(T2) = z
        BY <1>10, <3>3
      <4> HIDE DEF c, u, z
      <4>3. u + 1 < z /\ c + 1 <= u + 1 /\ c + 1 < z
        BY <4>1
      <4> QED
        BY <4>2, <4>3
    <3>5. HasKey(T2, NoKey)
      BY <1>10, <3>4, FilledFacts
    <3>6. Writer(t, T2)'
      BY <1>2, <1>4, <1>6, <1>10, <1>12, <2>1, <2>3, <3>1, <3>4 DEF Writer
    <3> QED
      BY <3>3, <3>5, <3>6
  <2> QED
    BY <2>2, <2>3
<1>17. \A y \in known' : y # NoKey /\ (late' \/ HasKey(T2, y))
  BY <1>2, <1>3, <1>16
<1>18. lock \in {NoThread, t} /\ lock' = t /\ lock' # NoThread /\ pc'[t] \in Inserting /\ late' \in BOOLEAN
  BY <1>2, <1>3, <1>9, <1>12 DEF Inserting, TracerTypes
<1> QED
  BY <1>2, <1>11, <1>12, <1>13, <1>14, <1>15, <1>16, <1>17, <1>18, TableStep

\* Key and value are there, in an entry that a search comes to: the stack is known.
LEMMA StoreSecondStep ==
  ASSUME TracerInv, NEW t \in Threads, StoreSecond(t)
  PROVE  TracerInv'
<1>1. PICK T, k, v, e : T = HashTable /\ k = key[t] /\ v = id[t] /\ e = index[t]
  OBVIOUS
<1>2. /\ TracerTypes /\ Knows(t) /\ pc[t] \in {"key", "value"} /\ k # NoKey /\ Took(k, v)
      /\ UNCHANGED <<instance, late, taken, specs, skipped, allocs, key, seen, id>>
      /\ index' = [index EXCEPT ![t] = 0] /\ lock' = NoThread /\ known' = known \union {k}
      /\ Go(t, "spec")
  BY <1>1 DEF TracerInv, ThreadInv, Knows, StoreSecond, callVars, outputVars
<1>3. /\ lock = t /\ tables # <<>> /\ T = tables[Len(tables)]
      /\ Sound(T) /\ HasKey(T, NoKey) /\ Writer(t, T) /\ T \in HashTables
      /\ \A i \in DOMAIN T.entry : T.entry[i].key # NoKey /\ T.entry[i].value # 0 =>
           Took(T.entry[i].key, T.entry[i].value) /\ Settled(T.entry[i].key, T.entry[i].value)
      /\ \A y \in known : y # NoKey /\ (late \/ HasKey(T, y))
  BY <1>1, <1>2, WriterFacts DEF Inserting, Sound
<1>4. /\ v # 0 /\ T.used + 1 < TableSize(T) /\ e \in DOMAIN T.entry
      /\ \A i \in DOMAIN T.entry : i # e => Complete(T, i)
  BY <1>1, <1>2, <1>3 DEF Writer
<1>5. k \in Nat /\ v \in Nat /\ seen[t] \in Nat /\ T.used \in Nat /\ TableSize(T) \in Nat
  BY <1>1, <1>2, <1>3, TableFacts, Untouched
<1> DEFINE x == [key |-> k, value |-> v]
           T2 == [used |-> T.used + 1, entry |-> [T.entry EXCEPT ![e] = x]]
<1>6. tables' = [tables EXCEPT ![Len(tables)] = T2]
  BY <1>1, <1>3 DEF StoreSecond
<1>7. /\ T2 \in HashTables /\ T2.used = T.used + 1 /\ DOMAIN T2.entry = DOMAIN T.entry
      /\ T2.entry[e] = x /\ \A i \in DOMAIN T.entry : i # e => T2.entry[i] = T.entry[i]
  <2>1. x \in [key : Nat, value : Nat] /\ T.used + 1 \in Nat
    BY <1>5
  <2> HIDE DEF x
  <2> QED
    BY <1>3, <1>4, <2>1, EntryWritten
<1> HIDE DEF T2
<1>8. NewLast(T2) /\ Len(tables) <= Len(tables')
  BY <1>2, <1>3, <1>6, <1>7, LastChanged DEF TracerTypes
<1>9. /\ Alone(t) /\ key'[t] = k /\ seen'[t] = seen[t] /\ id'[t] = v /\ pc'[t] = "spec"
      /\ pc' \in [Threads -> States] /\ key' \in [Threads -> Nat] /\ id' \in [Threads -> Nat]
      /\ seen' \in [Threads -> Nat] /\ index' \in [Threads -> Nat]
  <2>1. /\ pc \in [Threads -> States] /\ index \in [Threads -> Nat] /\ "spec" \in States
        /\ pc' = [pc EXCEPT ![t] = "spec"]
    BY <1>2 DEF TracerTypes, States, Go
  <2> HIDE DEF States
  <2>2. Alone(t)
    BY <1>2, <2>1 DEF Alone
  <2>3. /\ pc'[t] = "spec" /\ pc' \in [Threads -> States] /\ index' \in [Threads -> Nat]
    BY <1>2, <2>1
  <2> QED
    BY <1>1, <1>2, <2>2, <2>3 DEF TracerTypes
<1>10. Growing /\ StillOwed(t)
  BY <1>2, <1>8, <1>9 DEF Growing, StillOwed, Inscribing
<1>11. Took(k, v)' /\ Settled(k, v)'
  BY <1>2, <1>9 DEF Took, Settled, Inscribing
<1>12. Knows(t)'
  <2>1. seen[t] <= Len(tables')
    <3>1. seen[t] <= Len(tables) /\ Len(tables) \in Nat /\ Len(tables') \in Nat
      BY <1>2, <1>8 DEF TracerTypes, Knows, NewLast
    <3> QED
      BY <1>5, <1>8, <3>1
  <2> QED
    BY <1>2, <1>9, <1>11, <2>1 DEF Knows
<1>13. \A i \in DOMAIN T2.entry : T2.entry[i].key # NoKey /\ T2.entry[i].value # 0 =>
         Took(T2.entry[i].key, T2.entry[i].value)' /\ Settled(T2.entry[i].key, T2.entry[i].value)'
  <2>1. /\ \A y, z : Took(y, z) => Took(y, z)'
        /\ \A y, z : Took(y, z) /\ Settled(y, z) => Settled(y, z)'
    BY <1>9, <1>10, GrowthKeeps
  <2>2. ASSUME NEW i \in DOMAIN T2.entry, i # e
        PROVE  i \in DOMAIN T.entry /\ T2.entry[i] = T.entry[i]
    BY <1>7, <2>2
  <2>3. T2.entry[e].key = k /\ T2.entry[e].value = v
    BY <1>7
  <2> QED
    BY <1>3, <1>11, <2>1, <2>2, <2>3
<1>14. \A i \in DOMAIN T2.entry : Complete(T2, i)
  <2>1. T2.entry[e].key = k /\ T2.entry[e].value = v
    BY <1>7
  <2> QED
    BY <1>2, <1>4, <1>7, <2>1 DEF Complete
<1>15. /\ Sound(T2) /\ HasKey(T2, NoKey) /\ TableSize(T2) = TableSize(T)
       /\ Cardinality(Filled(T2)) <= T2.used
       /\ \A y : y # NoKey => (HasKey(T2, y) <=> y = k \/ HasKey(T, y))
  <2>1. T2.entry[e].key = k /\ \A i \in DOMAIN T.entry : i # e => T2.entry[i].key = T.entry[i].key
    BY <1>7
  <2>2. Cardinality(Filled(T)) \in Nat
    BY <1>3, FilledFacts
  <2>3. CASE pc[t] = "key"
    <3>1. /\ ~ HasKey(T, k) /\ Cardinality(Filled(T)) <= T.used
          /\ T.entry[e].key = NoKey /\ Met(T, k, e)
      BY <1>1, <1>3, <2>3 DEF Writer
    <3>2. /\ Sound(T2) /\ TableSize(T2) = TableSize(T)
          /\ Cardinality(Filled(T2)) = Cardinality(Filled(T)) + 1
          /\ \A y : y # NoKey => (HasKey(T2, y) <=> y = k \/ HasKey(T, y))
      BY <1>2, <1>3, <1>4, <1>5, <1>7, <2>1, <3>1, KeyPlaced
    <3>3. Cardinality(Filled(T2)) <= T2.used /\ Cardinality(Filled(T2)) < TableSize(T2)
      <4> DEFINE c == Cardinality(Filled(T))  u == T.used  z == TableSize(T)
      <4>1. c \in Nat /\ u \in Nat /\ z \in Nat /\ c <= u /\ u + 1 < z
        BY <1>4, <1>5, <2>2, <3>1
      <4>2. T2.used = u + 1 /\ Cardinality(Filled(T2)) = c + 1 /\ TableSize(T2) = z
        BY <1>7, <3>2
      <4> HIDE DEF c, u, z
      <4>3. c + 1 <= u + 1 /\ c + 1 < z
        BY <4>1
      <4> QED
        BY <4>2, <4>3
    <3> QED
      BY <1>7, <3>2, <3>3, FilledFacts
  <2>4. CASE pc[t] = "value"
    <3>1. Cardinality(Filled(T)) <= T.used + 1 /\ T.entry[e] = [key |-> k, value |-> 0]
      BY <1>1, <1>3, <2>4 DEF Writer
    <3>2. T.entry[e].key = k
      BY <3>1
    <3>3. \A i \in DOMAIN T.entry : T2.entry[i].key = T.entry[i].key
      BY <2>1, <3>2
    <3>4. /\ Sound(T2) /\ TableSize(T2) = TableSize(T) /\ Filled(T2) = Filled(T)
          /\ \A y : HasKey(T2, y) <=> HasKey(T, y)
      BY <1>3, <1>7, <3>3, ValueChanged
    <3>5. HasKey(T, k)
      BY <1>4, <3>2 DEF HasKey
    <3> QED
      BY <1>3, <1>7, <3>1, <3>4, <3>5
  <2> QED
    BY <1>2, <2>3, <2>4
<1>16. T2.used < TableSize(T2)
  BY <1>4, <1>7, <1>15
<1>17. \A y \in known' : y # NoKey /\ (late' \/ HasKey(T2, y))
  BY <1>2, <1>3, <1>15
<1>18. lock \in {NoThread, t} /\ lock' = NoThread /\ lock' # t /\ pc'[t] \notin Inserting /\ late' \in BOOLEAN
  BY <1>2, <1>3, <1>9, TracerAssumption DEF Inserting, TracerTypes
<1> QED
  BY <1>2, <1>8, <1>9, <1>10, <1>12, <1>13, <1>14, <1>15, <1>16, <1>17, <1>18, TableStep

\* The tracer begins without a table, with nothing logged and nobody inside it.
LEMMA TracerInitStep == TracerInit => TracerInv
<1> SUFFICES ASSUME TracerInit PROVE TracerInv
  OBVIOUS
<1>1. /\ tables = <<>> /\ lock = NoThread /\ taken = <<>> /\ known = {} /\ late = FALSE
      /\ specs = {} /\ skipped = {} /\ allocs = {} /\ instance = "none"
      /\ pc = [t \in Threads |-> "idle"] /\ key = [t \in Threads |-> 0]
      /\ seen = [t \in Threads |-> 0] /\ index = [t \in Threads |-> 0]
      /\ id = [t \in Threads |-> 0]
  BY DEF TracerInit, NoKey
<1>2. TracerTypes
  <2>1. "idle" \in States /\ <<>> \in Seq(HashTables) /\ <<>> \in Seq(Nat)
    BY DEF States
  <2> QED
    BY <1>1, <2>1 DEF TracerTypes
<1>3. TablesInv
  BY <1>1 DEF TablesInv
<1>4. CurrentInv
  BY <1>1, TracerAssumption DEF CurrentInv, Inserting
<1>5. ThreadInv
  <2>1. Len(tables) = 0
    BY <1>1
  <2> QED
    BY <1>1, <2>1 DEF ThreadInv, Knows
<1>6. LogsInv /\ KnownInv
  BY <1>1 DEF LogsInv, KnownInv
<1> QED
  BY <1>2, <1>3, <1>4, <1>5, <1>6 DEF TracerInv

\* One case for each step of the tracer, and one for the switches of its channels.
LEMMA StepPreservesTracerInv == TracerInv /\ [TracerNext]_tracerVars => TracerInv'
<1> SUFFICES ASSUME TracerInv, [TracerNext]_tracerVars PROVE TracerInv'
  OBVIOUS
<1>1. ASSUME NEW t \in Threads,
             \/ \E h \in Hashes : BeginAlloc(t, h)
             \/ GetInstance(t) \/ PublishInstance(t) \/ BuildTracer(t)
      PROVE  TracerInv'
  BY <1>1, GetSteps
<1>2. ASSUME NEW t \in Threads, LoadTable(t) \/ ProbeTable(t)
      PROVE  TracerInv'
  BY <1>2, FindSteps
<1>3. ASSUME NEW t \in Threads, TakeId(t)
      PROVE  TracerInv'
  BY <1>3, TakeIdStep
<1>4. ASSUME NEW t \in Threads, Reserve(t)
      PROVE  TracerInv'
  BY <1>4, ReserveStep
<1>5. ASSUME NEW t \in Threads, Emplace(t)
      PROVE  TracerInv'
  BY <1>5, EmplaceFinds, EmplaceMakesRoom
<1>6. ASSUME NEW t \in Threads, StoreFirst(t) \/ StoreSecond(t)
      PROVE  TracerInv'
  BY <1>6, StoreFirstStep, StoreSecondStep
<1>7. ASSUME NEW t \in Threads, LogSpec(t) \/ LogAlloc(t)
      PROVE  TracerInv'
  BY <1>7, LogSpecStep, LogAllocStep
<1>8. ASSUME NEW c \in Channels, Toggle(c)
      PROVE  TracerInv'
  BY <1>8, RestingStep DEF Toggle
<1>9. CASE UNCHANGED tracerVars
  BY <1>9, RestingStep DEF tracerVars
<1> QED
  BY <1>1, <1>2, <1>3, <1>4, <1>5, <1>6, <1>7, <1>8, <1>9 DEF TracerNext

\* What the theorems about the tracer rest on.
THEOREM TracerInvariant == TracerSpec => []TracerInv
<1> QED
  BY TracerInitStep, StepPreservesTracerInv, PTL DEF TracerSpec

\* What the invariant says of stacks, searches and ids.
LEMMA TracerProperties == TracerInv => TableInv /\ FindEnds /\ EveryIdDescribed
<1> SUFFICES ASSUME TracerInv PROVE TableInv /\ FindEnds /\ EveryIdDescribed
  OBVIOUS
<1>1. IdsKeepStacks
  BY DEF TracerInv, LogsInv, Took, IdsKeepStacks
<1>2. FindEnds
  BY DEF TracerInv, TablesInv, HasKey, FindEnds
<1>3. EveryIdDescribed
  <2> SUFFICES ASSUME NEW e \in allocs, e[2] # 0
               PROVE  \/ e \in specs \/ e[2] \in skipped
                      \/ \E t \in Threads : id[t] = e[2] /\ pc[t] \in {"key", "value", "spec"}
    BY DEF EveryIdDescribed
  <2>1. e = <<e[1], e[2]>> /\ Settled(e[1], e[2])
    BY DEF TracerInv, TracerTypes, LogsInv
  <2> QED
    BY <2>1 DEF Settled, Inscribing
<1>4. KnownIsFound
  <2> DEFINE T == HashTable
  <2> SUFFICES ASSUME ~ late, NEW k \in known
               PROVE  /\ Holds(T, k)
                      /\ Cardinality({i \in DOMAIN T.entry : T.entry[i].key = k}) = 1
                      /\ lock = NoThread => ValueOf(T, k) # 0
    BY DEF KnownIsFound
  <2>1. k # NoKey /\ HasKey(T, k) /\ tables # <<>>
    BY DEF TracerInv, KnownInv, CurrentInv
  <2>2. Sound(T) /\ (lock = NoThread => \A i \in DOMAIN T.entry : Complete(T, i))
    <3>1. Len(tables) \in 1 .. Len(tables)
      BY <2>1 DEF TracerInv, TracerTypes
    <3> QED
      BY <2>1, <3>1 DEF TracerInv, TablesInv, CurrentInv, HashTable
  <2> HIDE DEF T
  <2>3. PICK i \in DOMAIN T.entry : T.entry[i].key = k
    BY <2>1 DEF HasKey
  <2>4. k \in Nat
    BY <2>2, <2>3, TableFacts DEF Sound
  <2>5. Holds(T, k) /\ Entry(T, k) \in DOMAIN T.entry /\ T.entry[Entry(T, k)].key = k
        /\ ValueOf(T, k) = T.entry[Entry(T, k)].value
    BY <2>1, <2>2, <2>4, FindFacts
  <2>6. {j \in DOMAIN T.entry : T.entry[j].key = k} = {i}
    BY <2>1, <2>2, <2>3 DEF Sound
  <2>7. lock = NoThread => ValueOf(T, k) # 0
    BY <2>1, <2>2, <2>5 DEF Complete
  <2> QED
    BY <2>5, <2>6, <2>7, FS_Singleton
<1> QED
  BY <1>1, <1>2, <1>3, <1>4 DEF TableInv

\* No id stands for two stacks, and a stack whose insertion is done is found, in one entry and
\* with its id: readers without a lock, growth and racing insertions lose and double nothing.
THEOREM IdsStandForStacks == TracerSpec => []TableInv
BY TracerInvariant, TracerProperties, PTL

\* Every search ends, also in a table that has been replaced: each keeps an empty entry.
THEOREM SearchesEnd == TracerSpec => []FindEnds
BY TracerInvariant, TracerProperties, PTL

\* Allocations refer to frames that are logged, about to be, or were refused.
THEOREM IdsAreDescribed == TracerSpec => []EveryIdDescribed
BY TracerInvariant, TracerProperties, PTL
==============================================================================
