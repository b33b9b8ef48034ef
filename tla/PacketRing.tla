----------------------------- MODULE PacketRing -----------------------------
(***************************************************************************)
(* The tail (Tail.cpp): FPacketRing keeps the most recent packets so that  *)
(* a client that connects late is first given recent history and then the  *)
(* live packets.  The ring is two ranges, [left, right) the older packets  *)
(* and [0, cursor) the newer ones.                                         *)
(*                                                                         *)
(* Only the worker runs this code, so TailAppend is interrupted by nothing *)
(* but is several steps here because AppendImpl loops.  Of a packet's      *)
(* bytes the model keeps the PacketSize at its start, and for each byte    *)
(* its place in everything the trace has ever sent, counting from 0.       *)
(***************************************************************************)
EXTENDS Integers

CONSTANTS
  Size,      \* GPacketRing.Size
  Requests,  \* packets appended: [reserve |-> InSize of AppendImpl,
             \*                    final   |-> PacketSize in the end]
  TooBig,    \* sizes of packets that do not fit in the ring at all (which none of the
             \* program's own packets reaches: see below)
  MaxBytes   \* bound: bytes sent in all

\* A packet of at most 384 bytes is stored as it is.  A longer one reserves
\* GetEncodeMaxSize, which still fits: blocks hold less than 4K of data, and
\* Writer_InitializeTail makes the ring at least 128K.
ASSUME SizeAssumption == Size \in Nat \ {0}
ASSUME RequestAssumption ==
  \A r \in Requests :
    /\ r.reserve \in Nat /\ r.final \in Nat
    /\ 1 <= r.final /\ r.final <= r.reserve /\ r.reserve <= Size
ASSUME TooBigAssumption == TooBig \subseteq Nat \ {0}
ASSUME BytesAssumption == MaxBytes \in Nat

VARIABLES
  cursor, left, right,  \* FPacketRing's members
  packetSize,  \* [position -> PacketSize of the packet that starts there, or 0]
  byte,        \* [position -> which byte of the trace is stored there]
  total,       \* bytes the trace has sent so far
  resetAt,     \* what total was when Reset last emptied the ring
  pc,          \* "idle", or "discard" inside AppendImpl
  request,     \* the packet being appended
  client,      \* "none"; "new" until it is given a byte; "fed" while it is given
               \* consecutive bytes, "broken" after it was not
  got          \* the byte that comes after the last one given to the client

ringVars   == <<cursor, left, right, packetSize, byte>>
clientVars == <<client, got>>
vars == <<ringVars, total, resetAt, pc, request, clientVars>>

Addresses == 0 .. Size - 1
Garbage   == -1

Init ==
  /\ cursor = 0 /\ left = Size /\ right = Size
  /\ packetSize = [p \in Addresses |-> 0]
  /\ byte = [p \in Addresses |-> Garbage]
  /\ total = 0 /\ resetAt = 0
  /\ pc = "idle" /\ request \in Requests
  /\ client = "none" /\ got = 0

(***************************************************************************)
(* Slips: what a definition below would be with a likely mistake in the    *)
(* code.  Each breaks a property; the specification uses none of them.     *)
(***************************************************************************)
BeginAppendAs(r, wrap, newLeft, newRight) ==
  /\ pc = "idle"
  /\ total + r.final <= MaxBytes
  /\ request' = r
  /\ left'   = IF wrap THEN newLeft ELSE left
  /\ right'  = IF wrap THEN newRight ELSE right
  /\ cursor' = IF wrap THEN 0 ELSE cursor
  /\ pc' = "discard"
  /\ UNCHANGED <<packetSize, byte, total, resetAt, clientVars>>

\* Keeps Right of the range the wrap replaces.
BeginAppendRight(r) == BeginAppendAs(r, cursor + r.reserve > Size, 0, right)

\* Forgets every packet at a wrap.
BeginAppendEmpty(r) == BeginAppendAs(r, cursor + r.reserve > Size, cursor, cursor)

\* Discards until the packet's first byte is free, not its last.
EnoughDiscardedSlip == left >= cursor \/ left >= right

\* A new client is given the newer packets before the older ones.
TailByteSlip(i) == IF i < cursor THEN byte[i] ELSE byte[left + i - cursor]

(***************************************************************************)
(* AppendImpl                                                              *)
(***************************************************************************)
NextCursor == cursor + request.reserve

\* "Does [Cursor, NextCursor) no longer overlap [Left, Right)?"
EnoughDiscarded == left >= NextCursor \/ left >= right

\* Up to the loop: "Run off the end of the buffer?"
BeginAppend(r) ==
  LET wrap == cursor + r.reserve > Size IN
  /\ pc = "idle"
  /\ total + r.final <= MaxBytes
  /\ request' = r
  /\ left'   = IF wrap THEN 0 ELSE left
  /\ right'  = IF wrap THEN cursor ELSE right
  /\ cursor' = IF wrap THEN 0 ELSE cursor
  /\ pc' = "discard"
  /\ UNCHANGED <<packetSize, byte, total, resetAt, clientVars>>

\* "Discard old packets until there is space for the new one"
DiscardPacket ==
  /\ pc = "discard"
  /\ ~EnoughDiscarded
  /\ left' = left + packetSize[left]
  /\ UNCHANGED <<cursor, right, packetSize, byte, total, resetAt, pc, request,
                 clientVars>>

\* Writer_SendDataRaw of n > 0 bytes, the i-th of which is content[i]: a client
\* that has had none yet may be given any byte first.
Deliver(n, content) ==
  IF client = "none"
  THEN UNCHANGED clientVars
  ELSE LET first == IF client = "new" THEN content[0] ELSE got
           consecutive == \A i \in 0 .. n - 1 : content[i] = first + i
       IN /\ client' = IF client # "broken" /\ consecutive THEN "fed" ELSE "broken"
          /\ got' = first + n

\* The rest of AppendImpl, and of TailAppend: write the packet, give back what
\* the encoder did not need (BackUp), send it.  The encoder may scribble over
\* all it reserved.
PlacePacket ==
  LET n == request.final
      stored(p) == p \in cursor .. cursor + n - 1
      scribbled(p) == p \in cursor + n .. NextCursor - 1
  IN
  /\ pc = "discard"
  /\ EnoughDiscarded
  /\ packetSize' = [p \in Addresses |-> IF p = cursor THEN n
                                        ELSE IF stored(p) \/ scribbled(p) THEN 0
                                        ELSE packetSize[p]]
  /\ byte' = [p \in Addresses |-> IF stored(p) THEN total + (p - cursor)
                                  ELSE IF scribbled(p) THEN Garbage ELSE byte[p]]
  /\ cursor' = cursor + n
  /\ total' = total + n
  /\ pc' = "idle"
  /\ Deliver(n, [i \in 0 .. n - 1 |-> total + i])
  /\ UNCHANGED <<left, right, resetAt, request>>

\* "drop the history and this packet": Reset, then SendData past the ring.
AppendTooBig(n) ==
  /\ pc = "idle"
  /\ total + n <= MaxBytes
  /\ cursor' = 0 /\ left' = Size /\ right' = Size
  /\ total' = total + n /\ resetAt' = total + n
  /\ Deliver(n, [i \in 0 .. n - 1 |-> total + i])
  /\ UNCHANGED <<packetSize, byte, pc, request>>

\* Byte i of GetBackPackets followed by GetFrontPackets.
TailByte(i) == IF i < right - left THEN byte[left + i] ELSE byte[i - (right - left)]

TailLength == (right - left) + cursor

\* Writer_TailOnConnect
Connect ==
  /\ pc = "idle"
  /\ client = "none"
  /\ \/ TailLength = 0 /\ client' = "new" /\ UNCHANGED got
     \/ /\ TailLength > 0
        /\ client' = IF \A i \in 0 .. TailLength - 1 : TailByte(i) = TailByte(0) + i
                     THEN "fed" ELSE "broken"
        /\ got' = TailByte(0) + TailLength
  /\ UNCHANGED <<ringVars, total, resetAt, pc, request>>

Disconnect ==
  /\ pc = "idle"
  /\ client # "none"
  /\ client' = "none" /\ got' = 0
  /\ UNCHANGED <<ringVars, total, resetAt, pc, request>>

Next ==
  \/ \E r \in Requests : BeginAppend(r)
  \/ DiscardPacket
  \/ PlacePacket
  \/ \E n \in TooBig : AppendTooBig(n)
  \/ Connect
  \/ Disconnect

Spec == Init /\ [][Next]_vars

---------------------------------------------------------------------------
\* Every variable keeps its type.
TypeOK ==
  /\ cursor \in 0 .. Size /\ left \in 0 .. Size /\ right \in 0 .. Size
  /\ packetSize \in [Addresses -> 0 .. Size]
  /\ byte \in [Addresses -> Int]
  /\ total \in Nat /\ resetAt \in Nat
  /\ pc \in {"idle", "discard"} /\ request \in Requests
  /\ client \in {"none", "new", "fed", "broken"} /\ got \in Int

\* The older packets and the newer ones never overlap, and a packet is never
\* written past the end of the ring.
RangesApart ==
  /\ left <= right
  /\ left < right => cursor <= left
  /\ pc = "discard" => NextCursor <= Size

\* Older packets followed by newer ones are the most recent bytes of the trace,
\* without a gap: byte i of the ring counted back from its end is byte i of the
\* trace counted back from its end.
TailIsSuffix ==
  pc = "idle" =>
    /\ \A p \in 0 .. cursor - 1 : byte[p] = total - cursor + p
    /\ \A p \in left .. right - 1 : byte[p] = total - cursor - (right - p)

\* A client sees consecutive bytes from its first to the newest, whether they
\* reached it with the tail or live.
ClientSeesNoGap ==
  /\ client # "broken"
  /\ client = "fed" /\ pc = "idle" => got = total

Lesser(x, y) == IF x < y THEN x ELSE y

\* The ring keeps nearly Size bytes of history (the explanation that closes
\* Tail.cpp drops packets "until there is enough space for the new one"): all of
\* it until the ring has filled up once after a Reset, then all but a few
\* packets' worth.
TailIsLong ==
  pc = "idle" =>
    \A longest \in 1 .. Size : (\A r \in Requests : r.reserve <= longest) =>
      TailLength >= Lesser(total - resetAt, Size - 3 * longest)
=============================================================================
