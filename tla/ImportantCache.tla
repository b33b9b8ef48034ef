--------------------------- MODULE ImportantCache ---------------------------
(***************************************************************************)
(* The cache of important events (Important/Cache.cpp): all of them are    *)
(* kept, so that a client that connects late is sent every one before the  *)
(* live ones.  Bytes gather in a collector; a full collector is encoded as *)
(* one packet into the active cache buffer, and a buffer without room for  *)
(* another packet is retired to the list that starts at GCacheHeadBuffer.  *)
(*                                                                         *)
(* Only the worker runs this code.  The bytes are their places in the      *)
(* stream of important events, and a cache buffer holds a range of them.   *)
(***************************************************************************)
EXTENDS Integers, Links

CONSTANTS
  CollectorSize,  \* GCacheCollectorSize
  BufferSize,     \* GCacheBufferSize
  PacketHeader,   \* sizeof(FTidPacketEncoded)
  EncodeMaxSize,  \* GetEncodeMaxSize(CollectorSize)
  DataSizes,      \* Size of Writer_CacheData
  MaxCached,      \* bound: bytes traced
  MaxBuffers      \* bound: cache buffers created

ASSUME CacheAssumption ==
  /\ CollectorSize \in Nat \ {0} /\ EncodeMaxSize \in Nat \ {0}
  /\ BufferSize \in Nat /\ PacketHeader \in Nat
  /\ EncodeMaxSize + PacketHeader <= BufferSize
  /\ DataSizes \subseteq Nat \ {0}
  /\ MaxCached \in Nat /\ MaxBuffers \in Nat \ {0}

Buffers  == 1 .. MaxBuffers
NoBuffer == 0

VARIABLES
  traced,     \* bytes given to Writer_CacheData
  cpc,        \* where in Writer_CacheData the worker is
  todo,       \* its Size, what is left of Data
  collected,  \* bytes in the collector, Size - Remaining
  created,    \* cache buffers created: 1 .. created
  active,     \* GCacheActiveBuffer
  head,       \* GCacheHeadBuffer
  next,       \* [Buffers -> buffer] Next, of a retired buffer
  tailNext,   \* TailNext of the active one: the buffer whose Next it points to,
              \* or NoBuffer for GCacheHeadBuffer itself
  used,       \* [Buffers -> Nat] Size - Remaining
  from, to,   \* [Buffers -> Nat] the bytes of the stream in the buffer: [from, to)
  cacheClient,  \* "none", "fed", or "broken" if it was sent anything else than
                \* the stream from its first byte on
  cacheGot    \* how much of the stream the client was sent

bufferVars == <<created, active, head, next, tailNext, used, from, to>>
cacheVars == <<traced, cpc, todo, collected, bufferVars, cacheClient, cacheGot>>

CacheInit ==
  /\ traced = 0 /\ cpc = "idle" /\ todo = 0 /\ collected = 0
  /\ created = 1 /\ active = 1 /\ head = NoBuffer /\ tailNext = NoBuffer
  /\ next = [b \in Buffers |-> NoBuffer]
  /\ used = [b \in Buffers |-> 0]
  /\ from = [b \in Buffers |-> 0] /\ to = [b \in Buffers |-> 0]
  /\ cacheClient = "none" /\ cacheGot = 0

(***************************************************************************)
(* Slips: what a definition below would be with a likely mistake in the    *)
(* code.  Each breaks a property; the specification uses none of them.     *)
(***************************************************************************)
\* Sends the collector only when it is full.
CollectorSentSlip == IF collected = CollectorSize THEN collected ELSE 0

\* Appends the retired buffer to the head of the list.
LinkRetiredSlip ==
  /\ head' = active
  /\ next' = [next EXCEPT ![active] = head]

(***************************************************************************)
(* Writer_CacheData                                                        *)
(***************************************************************************)
\* "Writer_SendData" to whoever is connected, whatever happens to the cache.
CacheData(n) ==
  /\ cpc = "idle"
  /\ traced + n <= MaxCached
  /\ traced' = traced + n
  /\ todo' = n
  /\ cacheGot' = IF cacheClient = "none" THEN cacheGot ELSE cacheGot + n
  /\ cacheClient' = IF cacheClient = "fed" /\ cacheGot # traced THEN "broken" ELSE cacheClient
  /\ cpc' = "collect"
  /\ UNCHANGED <<collected, bufferVars>>

Collect ==
  LET room == CollectorSize - collected
      step == IF todo < room THEN todo ELSE room IN
  /\ cpc = "collect"
  /\ collected' = collected + step
  /\ todo' = todo - step
  /\ cpc' = IF collected + step = CollectorSize THEN "commit" ELSE "idle"
  /\ UNCHANGED <<traced, bufferVars, cacheClient, cacheGot>>

\* "Check there's enough size to compress Data into."
PacketFits == EncodeMaxSize + PacketHeader <= BufferSize - used[active]

\* "Retire active buffer": append it to the list.
LinkRetired ==
  /\ head' = IF tailNext = NoBuffer THEN active ELSE head
  /\ next' = [b \in Buffers |-> IF b = active THEN NoBuffer
                                ELSE IF b = tailNext THEN active ELSE next[b]]

\* The collector's bytes go into buffer b as a packet of n bytes and its header.
AddPacket(b, n) ==
  /\ used' = [used EXCEPT ![b] = @ + PacketHeader + n]
  /\ from' = [from EXCEPT ![b] = IF used[b] = 0 THEN traced - todo - CollectorSize ELSE @]
  /\ to' = [to EXCEPT ![b] = traced - todo]

\* Writer_CacheCommit, and the collector is empty again.
CacheCommit(n) ==
  /\ cpc = "commit"
  /\ \/ /\ PacketFits
        /\ AddPacket(active, n)
        /\ UNCHANGED <<created, active, head, next, tailNext>>
     \/ /\ ~PacketFits
        /\ created < MaxBuffers
        /\ created' = created + 1
        /\ LinkRetired
        /\ tailNext' = active
        /\ active' = created + 1
        /\ AddPacket(created + 1, n)
  /\ collected' = 0
  /\ cpc' = IF todo = 0 THEN "idle" ELSE "collect"
  /\ UNCHANGED <<traced, todo, cacheClient, cacheGot>>

(***************************************************************************)
(* Writer_CacheOnConnect                                                   *)
(***************************************************************************)
\* The buffers on the list, the first that is sent, and what is sent after one of the list.
Retired     == Reach(next, head)
FirstSent   == IF head = NoBuffer THEN active ELSE head
Follower(b) == IF next[b] = NoBuffer THEN active ELSE next[b]

\* The bytes of the collector that are sent.
CollectorSent == collected

\* What it sends, the list, the active buffer and the collector, is the stream from its
\* first byte on, in order ...  (Only the first buffer is ever empty, from 0 to 0.)
SendsInOrder ==
  /\ from[FirstSent] = 0
  /\ to[active] = traced - todo - collected
  /\ \A b \in Retired : to[b] = from[Follower(b)] /\ b \notin Reach(next, next[b])

\* ... up to this byte.
SentUpTo == to[active] + CollectorSent

CacheConnect ==
  /\ cpc = "idle"
  /\ cacheClient = "none"
  /\ \/ SendsInOrder /\ cacheClient' = "fed" /\ cacheGot' = SentUpTo
     \/ ~SendsInOrder /\ cacheClient' = "broken" /\ cacheGot' = 0
  /\ UNCHANGED <<traced, cpc, todo, collected, bufferVars>>

\* A send fails, or the connection is stopped.
CacheDisconnect ==
  /\ cacheClient # "none"
  /\ cacheClient' = "none" /\ cacheGot' = 0
  /\ UNCHANGED <<traced, cpc, todo, collected, bufferVars>>

---------------------------------------------------------------------------
CacheNext ==
  \/ \E n \in DataSizes : CacheData(n)
  \/ Collect
  \/ \E n \in 1 .. EncodeMaxSize : CacheCommit(n)
  \/ CacheConnect
  \/ CacheDisconnect

CacheSpec == CacheInit /\ [][CacheNext]_cacheVars

---------------------------------------------------------------------------
\* The cache holds every important event, in order, whenever it may be sent, and no
\* packet of it was encoded past the end of a cache buffer.
CacheKeepsAll ==
  /\ cpc = "idle" => SendsInOrder /\ SentUpTo = traced
  /\ \A b \in Buffers : used[b] <= BufferSize

Stream == INSTANCE ImportantStream WITH traced <- traced, client <- cacheClient, got <- cacheGot

\* The cache and the live events together are what ImportantStream promises.
ImplementsStream == Stream!Spec
=============================================================================
