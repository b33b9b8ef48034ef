---------------------------- MODULE MCProducers -----------------------------
(***************************************************************************)
(* Model-checking instances of what the threads of the program do before   *)
(* they write an event: they register it (EventNode), look up a call stack *)
(* (CallstackTracer), encode scopes of the CPU profiler (CpuProfiler) and  *)
(* open scopes of a memory tag (MemoryTags).  The four share no state, so  *)
(* each behaviour is about one of them, its subject, and the others rest.  *)
(***************************************************************************)
EXTENDS EventNode, CallstackTracer, CpuProfiler, MemoryTags

\* The parent of a name is what follows its first '/', with that '/'.
ParentNames == [n \in {"a", "a/b", "/b"} |-> IF n = "a" THEN NoName ELSE "/b"]

VARIABLE subject

allVars == <<subject, nodeVars, tracerVars, cpuVars, tagVars>>

ProducersInit ==
  /\ subject \in {"events", "stacks", "cpu", "tags"}
  /\ EventInit
  /\ TracerInit /\ (subject # "stacks" => channel = [c \in Channels |-> TRUE])
  /\ CpuInit /\ (subject # "cpu" => cpuChannel)
  /\ TagInit /\ (subject # "tags" => memAlloc)

OfEvents(step) ==
  subject = "events" /\ step /\ UNCHANGED <<subject, tracerVars, cpuVars, tagVars>>
OfStacks(step) ==
  subject = "stacks" /\ step /\ UNCHANGED <<subject, nodeVars, cpuVars, tagVars>>
OfCpu(step) ==
  subject = "cpu" /\ step /\ UNCHANGED <<subject, nodeVars, tracerVars, tagVars>>
OfTags(step) ==
  subject = "tags" /\ step /\ UNCHANGED <<subject, nodeVars, tracerVars, cpuVars>>

\* EventNext, TracerNext, CpuNext and TagNext, disjunct by disjunct.
ProducersNext ==
  \/ \E e \in Events : OfEvents(LoadNewList(e))
  \/ \E e \in Events : OfEvents(Publish(e))
  \/ \E e \in Events : OfEvents(Trace(e))
  \/ OfEvents(AcceptConnection)
  \/ OfEvents(NoConnection)
  \/ OfEvents(OnConnect)
  \/ OfEvents(ReadNew)
  \/ OfEvents(DescribeNext)
  \/ OfEvents(SendTail)
  \/ OfEvents(DescribeAnnounce)
  \/ OfEvents(DrainBuffers)
  \/ OfEvents(LoseClient)
  \/ \E t \in Threads, h \in Hashes : OfStacks(BeginAlloc(t, h))
  \/ \E t \in Threads : OfStacks(GetInstance(t))
  \/ \E t \in Threads : OfStacks(PublishInstance(t))
  \/ \E t \in Threads : OfStacks(BuildTracer(t))
  \/ \E t \in Threads : OfStacks(LoadTable(t))
  \/ \E t \in Threads : OfStacks(ProbeTable(t))
  \/ \E t \in Threads : OfStacks(TakeId(t))
  \/ \E t \in Threads : OfStacks(Reserve(t))
  \/ \E t \in Threads : OfStacks(Emplace(t))
  \/ \E t \in Threads : OfStacks(StoreFirst(t))
  \/ \E t \in Threads : OfStacks(StoreSecond(t))
  \/ \E t \in Threads : OfStacks(LogSpec(t))
  \/ \E t \in Threads : OfStacks(LogAlloc(t))
  \/ \E c \in Channels : OfStacks(Toggle(c))
  \/ \E t \in CpuThreads, s \in Scopes : OfCpu(DeclareScope(t, s))
  \/ \E t \in CpuThreads, n \in Names : OfCpu(BeginDynamic(t, n))
  \/ \E t \in CpuThreads : OfCpu(EnterScope(t))
  \/ \E t \in CpuThreads : OfCpu(LogEventSpec(t))
  \/ \E t \in CpuThreads : OfCpu(WriteBegin(t))
  \/ \E t \in CpuThreads : OfCpu(EndScope(t))
  \/ \E t \in CpuThreads : OfCpu(ExitThread(t))
  \/ OfCpu(SwitchCpuChannel)
  \/ \E t \in TagThreads, n \in TagNames, should \in BOOLEAN : OfTags(OpenMemScope(t, n, should))
  \/ \E t \in TagThreads : OfTags(NameTag(t))
  \/ \E t \in TagThreads : OfTags(FindOrAddTag(t))
  \/ \E t \in TagThreads : OfTags(AnnounceTag(t))
  \/ \E t \in TagThreads : OfTags(ActivateScope(t))
  \/ \E t \in TagThreads : OfTags(CloseMemScope(t))
  \/ OfTags(PublishTagTrace)
  \/ OfTags(BuildTagTrace)
  \/ OfTags(SwitchMemAlloc)

ProducersSpec == ProducersInit /\ [][ProducersNext]_allVars
=============================================================================
