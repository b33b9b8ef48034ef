----------------------------- MODULE ClientProofs -----------------------------
(***************************************************************************)
(* What PacketRing promises for every ring size and every packet size, and *)
(* ImportantCache for every size of its buffers: what a client is sent     *)
(* that connects late.  And what Control promises for every size of its    *)
(* buffers: what becomes of the commands that a client sends.              *)
(***************************************************************************)
EXTENDS
  PacketRing, ImportantCache, Control, LinkProofs, FiniteSetTheorems, SequenceTheorems, TLAPS

(***************************************************************************)
(* The tail                                                                *)
(***************************************************************************)
\* Packets fill [first, end) end to end.
Packed(first, end) ==
  /\ first < end => packetSize[first] > 0
  /\ \A p \in first .. end - 1 : packetSize[p] > 0 =>
       \/ p + packetSize[p] = end
       \/ p + packetSize[p] < end /\ packetSize[p + packetSize[p]] > 0

\* TailIsSuffix, between the steps of AppendImpl too.
Suffix ==
  /\ \A p \in 0 .. cursor - 1 : byte[p] = total - cursor + p
  /\ \A p \in left .. right - 1 : byte[p] = total - cursor - (right - p)

\* All that holds between the steps of AppendImpl: the inductive invariant.
RingInv ==
  /\ TypeOK
  /\ left <= right
  /\ left < right => cursor <= left
  /\ pc = "discard" => NextCursor <= Size
  /\ Packed(0, cursor)
  /\ Packed(left, right)
  /\ Suffix
  /\ client # "broken"
  /\ client = "fed" => got = total

USE SizeAssumption DEF Addresses, Garbage, NextCursor, EnoughDiscarded

\* Initialize leaves an empty ring.
LEMMA InitRing == Init => RingInv
  BY DEF Init, RingInv, TypeOK, Packed, Suffix

\* A wrap turns the newer packets into the older ones, and leaves none newer.
LEMMA BeginAppendStep ==
  ASSUME RingInv, NEW r \in Requests, BeginAppend(r)
  PROVE  RingInv'
<1>1. /\ packetSize' = packetSize /\ byte' = byte /\ total' = total /\ client' = client
      /\ got' = got /\ request' = r /\ pc' = "discard" /\ resetAt' = resetAt
  BY DEF BeginAppend, clientVars
<1>2. TypeOK'
  <2>1. cursor' \in 0 .. Size /\ left' \in 0 .. Size /\ right' \in 0 .. Size
    BY RequestAssumption DEF BeginAppend, RingInv, TypeOK
  <2>2. /\ total' \in Nat /\ resetAt' \in Nat
        /\ pc' \in {"idle", "discard"} /\ request' \in Requests
    BY <1>1 DEF RingInv, TypeOK
  <2>3. /\ packetSize' \in [Addresses -> 0 .. Size] /\ byte' \in [Addresses -> Int]
        /\ client' \in {"none", "new", "fed", "broken"} /\ got' \in Int
    BY <1>1 DEF RingInv, TypeOK
  <2> QED
    BY <2>1, <2>2, <2>3 DEF TypeOK
<1>3. CASE cursor + r.reserve > Size
  <2>1. left' = 0 /\ right' = cursor /\ cursor' = 0 /\ cursor \in Nat
    BY <1>3 DEF BeginAppend, RingInv, TypeOK
  <2>2. Packed(0, cursor)'
    BY <2>1 DEF Packed
  <2>3. Packed(left, right)'
    BY <1>1, <2>1 DEF RingInv, Packed
  <2>4. Suffix'
    BY <1>1, <2>1 DEF RingInv, TypeOK, Suffix
  <2> QED
    BY <1>1, <1>2, <2>1, <2>2, <2>3, <2>4, RequestAssumption DEF RingInv
<1>4. CASE ~(cursor + r.reserve > Size)
  <2>1. left' = left /\ right' = right /\ cursor' = cursor /\ cursor + r.reserve <= Size
    BY <1>4, RequestAssumption DEF BeginAppend, RingInv, TypeOK
  <2>2. Packed(0, cursor)' /\ Packed(left, right)' /\ Suffix'
    BY <1>1, <2>1 DEF RingInv, Packed, Suffix
  <2> QED
    BY <1>1, <1>2, <2>1, <2>2 DEF RingInv
<1> QED
  BY <1>3, <1>4

\* Discarding moves Left to the start of another packet, or to Right.
LEMMA DiscardPacketStep ==
  ASSUME RingInv, DiscardPacket
  PROVE  RingInv'
<1> USE DEF DiscardPacket
<1>1. /\ packetSize[left] \in Nat \ {0}
      /\ left' = left + packetSize[left] /\ left' <= right
      /\ left' < right => packetSize[left'] > 0
  BY DEF RingInv, TypeOK, Packed
<1>2. TypeOK'
  BY <1>1 DEF RingInv, TypeOK, clientVars
<1>3. Packed(0, cursor)' /\ Packed(left, right)'
  BY <1>1 DEF RingInv, TypeOK, Packed
<1>4. Suffix'
  BY <1>1 DEF RingInv, TypeOK, Suffix
<1> QED
  BY <1>1, <1>2, <1>3, <1>4 DEF RingInv, TypeOK, clientVars

\* What reaches the client next is the byte after the last it was given.
LEMMA DeliverNewest ==
  ASSUME RingInv, NEW n \in Nat \ {0}, total' = total + n,
         Deliver(n, [i \in 0 .. n - 1 |-> total + i])
  PROVE  client' \in {"none", "fed"} /\ got' \in Int /\ (client' = "fed" => got' = total')
<1> DEFINE first == IF client = "new" THEN total ELSE got
           content == [i \in 0 .. n - 1 |-> total + i]
<1>1. CASE client = "none"
  BY <1>1 DEF Deliver, RingInv, TypeOK, clientVars
<1>2. CASE client # "none"
  <2>1. first = total /\ client # "broken" /\ content[0] = total /\ total \in Nat
    BY <1>2 DEF RingInv, TypeOK
  <2>2. \A i \in 0 .. n - 1 : content[i] = first + i
    BY <2>1
  <2>3. client' = "fed" /\ got' = total + n
    BY <1>2, <2>1, <2>2 DEF Deliver
  <2> QED
    BY <2>1, <2>3
<1> QED
  BY <1>1, <1>2

\* Storing a packet in the space made for it continues the newer range, and the
\* encoder's scribbling beyond it touches no packet.
LEMMA PlacePacketStep ==
  ASSUME RingInv, PlacePacket
  PROVE  RingInv'
<1> DEFINE n == request.final
           end == cursor + request.reserve
           \* what PlacePacket stores
           Size1(p) == IF p = cursor THEN n
                       ELSE IF p \in cursor .. cursor + n - 1 \/ p \in cursor + n .. end - 1
                       THEN 0 ELSE packetSize[p]
           Byte1(p) == IF p \in cursor .. cursor + n - 1 THEN total + (p - cursor)
                       ELSE IF p \in cursor + n .. end - 1 THEN Garbage ELSE byte[p]
<1>1. /\ request \in Requests /\ cursor \in Nat /\ left \in Nat /\ right \in Nat /\ total \in Nat
      /\ end <= Size /\ right <= Size /\ left <= right
  BY DEF RingInv, TypeOK, PlacePacket
<1>2. n \in Nat /\ n >= 1 /\ request.reserve \in Nat /\ n <= request.reserve
  BY <1>1, RequestAssumption
<1>3. /\ cursor' = cursor + n /\ total' = total + n /\ left' = left /\ right' = right
      /\ pc' = "idle" /\ request' = request /\ resetAt' = resetAt
      /\ left >= end \/ left >= right
  BY DEF PlacePacket
<1>4. client' \in {"none", "fed"} /\ got' \in Int /\ (client' = "fed" => got' = total')
  BY <1>2, DeliverNewest DEF PlacePacket
<1>5. /\ packetSize' = [p \in Addresses |-> Size1(p)]
      /\ byte' = [p \in Addresses |-> Byte1(p)]
  BY DEF PlacePacket
<1>6. /\ \A p \in Addresses : p < cursor \/ p >= end =>
           packetSize'[p] = packetSize[p] /\ byte'[p] = byte[p]
      /\ \A p \in Addresses : p > cursor /\ p < end => packetSize'[p] = 0
      /\ packetSize'[cursor] = n
      /\ \A p \in Addresses : p >= cursor /\ p < cursor + n => byte'[p] = total + (p - cursor)
  <2>1. ASSUME NEW p \in Addresses PROVE packetSize'[p] = Size1(p) /\ byte'[p] = Byte1(p)
    BY <1>5
  <2>2. cursor \in Addresses /\ end \in Nat /\ cursor + n <= end
    BY <1>1, <1>2
  <2>3. ASSUME NEW p \in Addresses, p < cursor \/ p >= end
        PROVE  packetSize'[p] = packetSize[p] /\ byte'[p] = byte[p]
    BY <1>1, <1>2, <2>1, <2>2, <2>3
  <2>4. ASSUME NEW p \in Addresses, p > cursor, p < end PROVE packetSize'[p] = 0
    BY <1>1, <1>2, <2>1, <2>2, <2>4
  <2>5. packetSize'[cursor] = n
    BY <2>1, <2>2
  <2>6. ASSUME NEW p \in Addresses, p >= cursor, p < cursor + n
        PROVE  byte'[p] = total + (p - cursor)
    BY <1>1, <1>2, <2>1, <2>2, <2>6
  <2> QED
    BY <2>3, <2>4, <2>5, <2>6
<1>7. TypeOK'
  <2>1. ASSUME NEW p \in Addresses PROVE Size1(p) \in 0 .. Size /\ Byte1(p) \in Int
    BY <1>1, <1>2 DEF RingInv, TypeOK
  <2>2. packetSize' \in [Addresses -> 0 .. Size] /\ byte' \in [Addresses -> Int]
    BY <1>5, <2>1
  <2>3. cursor' \in 0 .. Size /\ left' \in 0 .. Size /\ right' \in 0 .. Size
    BY <1>1, <1>2, <1>3
  <2>4. total' \in Nat /\ pc' = "idle" /\ request' \in Requests
    BY <1>1, <1>2, <1>3
  <2>5. resetAt' \in Nat
    BY <1>3 DEF RingInv, TypeOK
  <2> QED
    BY <1>4, <2>2, <2>3, <2>4, <2>5 DEF TypeOK
<1> HIDE DEF Size1, Byte1
<1>8. \A p \in Addresses : packetSize[p] \in Nat
  BY DEF RingInv, TypeOK
<1>9. Packed(0, cursor)'
  <2>1. packetSize'[0] > 0
    BY <1>1, <1>2, <1>6 DEF RingInv, Packed
  <2>2. ASSUME NEW p \in 0 .. cursor' - 1, packetSize'[p] > 0
        PROVE  \/ p + packetSize'[p] = cursor'
               \/ /\ p + packetSize'[p] < cursor'
                  /\ packetSize'[p + packetSize'[p]] > 0
    <3>1. CASE p < cursor
      <4>1. p \in 0 .. cursor - 1 /\ packetSize'[p] = packetSize[p] /\ packetSize[p] \in Nat
        BY <1>1, <1>2, <1>3, <1>6, <1>8, <3>1
      <4>2. \/ p + packetSize[p] = cursor
            \/ p + packetSize[p] < cursor /\ packetSize[p + packetSize[p]] > 0
        BY <2>2, <4>1 DEF RingInv, Packed
      <4> QED
        BY <1>1, <1>2, <1>3, <1>6, <4>1, <4>2
    <3>2. CASE ~(p < cursor)
      <4>1. p = cursor
        BY <1>1, <1>2, <1>3, <1>6, <2>2, <3>2
      <4> QED
        BY <1>1, <1>3, <1>6, <4>1
    <3> QED
      BY <3>1, <3>2
  <2> QED
    BY <2>1, <2>2 DEF Packed
<1>10. Packed(left, right)'
  <2>1. \A p \in left .. right - 1 : p \in Addresses /\ packetSize'[p] = packetSize[p]
    BY <1>1, <1>2, <1>3, <1>6
  <2>2. \A p \in left .. right - 1 : packetSize[p] > 0 /\ p + packetSize[p] < right =>
          p + packetSize[p] \in left .. right - 1
    BY <1>1, <1>8, <2>1
  <2>3. left < right => left \in left .. right - 1 /\ packetSize[left] > 0
    BY <1>1 DEF RingInv, Packed
  <2>4. ASSUME NEW p \in left .. right - 1, packetSize'[p] > 0
        PROVE  \/ p + packetSize'[p] = right
               \/ /\ p + packetSize'[p] < right
                  /\ packetSize'[p + packetSize'[p]] > 0
    BY <2>1, <2>2, <2>4 DEF RingInv, Packed
  <2> QED
    BY <1>3, <2>1, <2>3, <2>4 DEF Packed
<1>11. Suffix'
  <2>1. \A p \in 0 .. cursor' - 1 : byte'[p] = total - cursor + p
    BY <1>1, <1>2, <1>3, <1>6 DEF RingInv, Suffix
  <2>2. \A p \in left .. right - 1 : byte'[p] = total - cursor - (right - p)
    BY <1>1, <1>2, <1>3, <1>6 DEF RingInv, Suffix
  <2>3. total' - cursor' = total - cursor /\ left' = left /\ right' = right
    BY <1>1, <1>2, <1>3
  <2> QED
    BY <2>1, <2>2, <2>3 DEF Suffix
<1> QED
  BY <1>1, <1>2, <1>3, <1>4, <1>7, <1>9, <1>10, <1>11 DEF RingInv

\* A packet too big for the ring empties it and still reaches the client.
LEMMA AppendTooBigStep ==
  ASSUME RingInv, NEW n \in TooBig, AppendTooBig(n)
  PROVE  RingInv'
<1>1. client' \in {"none", "fed"} /\ got' \in Int /\ (client' = "fed" => got' = total')
  BY DeliverNewest, TooBigAssumption DEF AppendTooBig
<1> QED
  BY <1>1, TooBigAssumption DEF AppendTooBig, RingInv, TypeOK, Packed, Suffix

\* The tail that Writer_TailOnConnect sends is consecutive and ends at the newest
\* byte.
LEMMA ConnectStep ==
  ASSUME RingInv, Connect
  PROVE  RingInv'
<1>1. /\ cursor \in Nat /\ total \in Nat /\ left \in Nat /\ right \in Nat
      /\ left <= right /\ right <= Size /\ cursor <= Size /\ TailLength \in Nat
  BY DEF RingInv, TypeOK, TailLength
<1>2. \A i \in 0 .. TailLength - 1 : TailByte(i) = total - TailLength + i
  <2> SUFFICES ASSUME NEW i \in 0 .. TailLength - 1
               PROVE  TailByte(i) = total - TailLength + i
    OBVIOUS
  <2>1. CASE i < right - left
    BY <1>1, <2>1 DEF RingInv, Suffix, TailByte, TailLength
  <2>2. CASE ~(i < right - left)
    BY <1>1, <2>2 DEF RingInv, Suffix, TailByte, TailLength
  <2> QED
    BY <2>1, <2>2
<1>3. UNCHANGED <<cursor, left, right, packetSize, byte, total, resetAt, pc, request>>
  BY DEF Connect, ringVars
<1>4. /\ client' \in {"new", "fed"}
      /\ client' = "fed" => got' = total
      /\ got' \in Int
  <2>1. CASE TailLength = 0
    BY <1>1, <2>1 DEF Connect, RingInv, TypeOK
  <2>2. CASE TailLength > 0
    <3>1. TailByte(0) = total - TailLength
      BY <1>1, <1>2, <2>2
    <3>2. \A i \in 0 .. TailLength - 1 : TailByte(i) = TailByte(0) + i
      BY <1>1, <1>2, <3>1
    <3>3. client' = "fed" /\ got' = TailByte(0) + TailLength
      BY <1>1, <2>2, <3>2 DEF Connect
    <3> QED
      BY <1>1, <3>1, <3>3
  <2> QED
    BY <1>1, <2>1, <2>2
<1> QED
  BY <1>1, <1>3, <1>4 DEF RingInv, TypeOK, Packed, Suffix

\* RingInv is inductive.
LEMMA RingStep == RingInv /\ [Next]_vars => RingInv'
<1> SUFFICES ASSUME RingInv, [Next]_vars PROVE RingInv'
  OBVIOUS
<1>1. CASE Disconnect
  BY <1>1 DEF Disconnect, ringVars, RingInv, TypeOK, Packed, Suffix
<1>2. CASE UNCHANGED vars
  BY <1>2 DEF vars, ringVars, clientVars, RingInv, TypeOK, Packed, Suffix
<1> QED
  BY <1>1, <1>2, BeginAppendStep, DiscardPacketStep, PlacePacketStep, AppendTooBigStep,
     ConnectStep DEF Next

\* The inductive invariant of the ring: all of AppendImpl's positions are starts
\* of packets, and the bytes between them the end of the trace.
THEOREM RingInvariant == Spec => []RingInv
  BY InitRing, RingStep, PTL DEF Spec

\* The ring's two ranges never overlap, whatever the packet sizes.
THEOREM RingRangesApart == Spec => []RangesApart
<1>1. RingInv => RangesApart
  BY DEF RingInv, TypeOK, RangesApart
<1> QED
  BY <1>1, RingInvariant, PTL

\* What the ring holds is the end of the trace, without a gap.
THEOREM RingHoldsSuffix == Spec => []TailIsSuffix
<1>1. RingInv => TailIsSuffix
  BY DEF RingInv, Suffix, TailIsSuffix
<1> QED
  BY <1>1, RingInvariant, PTL

\* A client that connects late is given consecutive bytes from its first on.
THEOREM ClientUnbroken == Spec => []ClientSeesNoGap
<1>1. RingInv => ClientSeesNoGap
  BY DEF RingInv, ClientSeesNoGap
<1> QED
  BY <1>1, RingInvariant, PTL

(***************************************************************************)
(* How much the ring keeps                                                 *)
(***************************************************************************)
\* No request reserves more than this.
Longest == {n \in 1 .. Size : \A r \in Requests : r.reserve <= n}

\* The ring has not been filled since it was empty.
Unfilled == left = Size /\ right = Size /\ cursor = total - resetAt

\* The older packets reach up to where the next did not fit, and begin not far from the newer.
Filled(longest) == right > Size - longest /\ left < cursor + 2 * longest

LongInv ==
  \A longest \in Longest :
    /\ \A p \in Addresses : packetSize[p] <= longest
    /\ Unfilled \/ Filled(longest)

\* Neither a wrap nor the discarding of packets takes more than two requests' worth.
LEMMA LongStep == RingInv /\ LongInv /\ [Next]_vars => LongInv'
<1> SUFFICES ASSUME RingInv, LongInv, [Next]_vars, NEW longest \in Longest
             PROVE  /\ \A p \in Addresses : packetSize'[p] <= longest
                    /\ Unfilled' \/ Filled(longest)'
  BY DEF LongInv
<1>1. /\ \A p \in Addresses : packetSize[p] <= longest
      /\ Unfilled \/ Filled(longest)
      /\ longest \in Nat \ {0} /\ \A r \in Requests : r.reserve <= longest
  BY DEF LongInv, Longest
<1>2. /\ cursor \in Nat /\ left \in 0 .. Size /\ right \in 0 .. Size /\ total \in Nat /\ resetAt \in Nat
      /\ request \in Requests /\ packetSize \in [Addresses -> 0 .. Size]
  BY DEF RingInv, TypeOK
<1>3. ASSUME NEW r \in Requests, BeginAppend(r)
      PROVE  packetSize' = packetSize /\ (Unfilled' \/ Filled(longest)')
  <2>1. r.reserve \in Nat /\ r.reserve <= longest
    BY <1>1, RequestAssumption
  <2>2. UNCHANGED <<total, resetAt, packetSize>>
    BY <1>3 DEF BeginAppend
  <2>3. CASE cursor + r.reserve > Size
    <3>1. left' = 0 /\ right' = cursor /\ cursor' = 0
      BY <1>3, <2>3 DEF BeginAppend
    <3> QED
      BY <1>1, <1>2, <2>1, <2>2, <2>3, <3>1 DEF Filled
  <2>4. CASE ~(cursor + r.reserve > Size)
    <3>1. UNCHANGED <<left, right, cursor>>
      BY <1>3, <2>4 DEF BeginAppend
    <3> QED
      BY <1>1, <2>2, <3>1 DEF Unfilled, Filled
  <2> QED
    BY <2>2, <2>3, <2>4
<1>4. ASSUME DiscardPacket
      PROVE  packetSize' = packetSize /\ (Unfilled' \/ Filled(longest)')
  <2>1. /\ left < cursor + request.reserve /\ left < right /\ left' = left + packetSize[left]
        /\ UNCHANGED <<cursor, right, total, resetAt, packetSize>>
    BY <1>2, <1>4, RequestAssumption DEF DiscardPacket
  <2>2. left \in Addresses /\ packetSize[left] \in Nat /\ packetSize[left] <= longest
    BY <1>1, <1>2, <2>1
  <2>3. request.reserve \in Nat /\ request.reserve <= longest
    BY <1>1, <1>2, RequestAssumption
  <2> QED
    BY <1>1, <1>2, <2>1, <2>2, <2>3 DEF Unfilled, Filled
<1>5. ASSUME PlacePacket
      PROVE  (\A p \in Addresses : packetSize'[p] <= longest) /\ (Unfilled' \/ Filled(longest)')
  <2>1. request.final \in Nat /\ request.final <= longest
    BY <1>1, <1>2, RequestAssumption
  <2>2. /\ cursor' = cursor + request.final /\ total' = total + request.final
        /\ UNCHANGED <<left, right, resetAt>>
    BY <1>5 DEF PlacePacket
  <2>3. \A p \in Addresses : packetSize'[p] \in {request.final, 0, packetSize[p]}
    BY <1>5 DEF PlacePacket
  <2>4. \A p \in Addresses : packetSize'[p] <= longest
    BY <1>1, <2>1, <2>3
  <2>5. Unfilled => Unfilled'
    BY <1>2, <2>1, <2>2 DEF Unfilled
  <2>6. Filled(longest) => Filled(longest)'
    BY <1>1, <1>2, <2>1, <2>2 DEF Filled
  <2> QED
    BY <1>1, <2>4, <2>5, <2>6
<1>6. ASSUME NEW n \in TooBig, AppendTooBig(n)
      PROVE  packetSize' = packetSize /\ Unfilled'
  BY <1>2, <1>6, TooBigAssumption DEF AppendTooBig, Unfilled
<1>7. CASE Connect \/ Disconnect \/ UNCHANGED vars
  BY <1>1, <1>7 DEF Connect, Disconnect, vars, ringVars, Unfilled, Filled
<1> QED
  BY <1>1, <1>3, <1>4, <1>5, <1>6, <1>7 DEF Next

\* A client that connects late is told nearly as much of the past as the ring has room for: all
\* since a Reset, or all but three times the longest request.
THEOREM RingKeepsMost == Spec => []TailIsLong
<1>1. Init => LongInv
  BY DEF Init, LongInv, Longest, Unfilled
<1>2. RingInv /\ LongInv => TailIsLong
  <2> SUFFICES ASSUME RingInv, LongInv, NEW longest \in Longest
               PROVE  TailLength >= Lesser(total - resetAt, Size - 3 * longest)
    BY DEF TailIsLong, Longest
  <2>1. /\ cursor \in Nat /\ left \in Nat /\ right \in Nat /\ total \in Nat /\ resetAt \in Nat /\ longest \in Nat
        /\ Unfilled \/ Filled(longest)
    BY DEF RingInv, TypeOK, LongInv, Longest
  <2>2. Unfilled => TailLength = total - resetAt
    BY <2>1 DEF Unfilled, TailLength
  <2>3. Filled(longest) => TailLength >= Size - 3 * longest
    BY <2>1 DEF Filled, TailLength
  <2>4. TailLength \in Int
    BY <2>1 DEF TailLength
  <2> QED
    BY <2>1, <2>2, <2>3, <2>4 DEF Lesser
<1> QED
  BY <1>1, <1>2, LongStep, RingInvariant, PTL DEF Spec

(***************************************************************************)
(* The cache of important events                                           *)
(***************************************************************************)
CacheTypes ==
  /\ traced \in 0 .. MaxCached /\ todo \in Nat /\ collected \in 0 .. CollectorSize
  /\ cpc \in {"idle", "collect", "commit"}
  /\ created \in Buffers /\ active = created
  /\ next \in [Buffers -> Nat] /\ used \in [Buffers -> Nat]
  /\ from \in [Buffers -> Nat] /\ to \in [Buffers -> Nat]

\* What is traced is in the buffers, in the collector, or what is left of Data.
WorkInv ==
  /\ cpc = "idle" => todo = 0
  /\ cpc = "commit" <=> collected = CollectorSize
  /\ to[active] = traced - todo - collected

\* The list holds the retired buffers in the order in which they were created.
ChainInv ==
  /\ tailNext = created - 1 /\ head = (IF created = 1 THEN NoBuffer ELSE 1)
  /\ \A b \in Buffers : next[b] = IF b < created - 1 THEN b + 1 ELSE NoBuffer

\* Each buffer holds the part of the stream that follows what the one before it holds.
RangeInv ==
  /\ from[1] = 0
  /\ \A b \in Buffers : /\ used[b] <= BufferSize
                        /\ used[b] = 0 => from[b] = 0 /\ to[b] = 0
                        /\ b < created => used[b] > 0 /\ from[b + 1] = to[b]
                        /\ b > created => used[b] = 0

\* A client has been sent all of the stream.
FedInv ==
  /\ cacheClient \in {"none", "fed"}
  /\ cacheGot = IF cacheClient = "fed" THEN traced ELSE 0

CacheInv == CacheTypes /\ WorkInv /\ ChainInv /\ RangeInv /\ FedInv

\* A walk over the list meets no buffer before the one it begins at, and none that is not
\* retired.
LEMMA ListAscends ==
  ASSUME CacheTypes, ChainInv, NEW p \in Buffers \union {NoBuffer}
  PROVE  /\ p = NoBuffer => Reach(next, p) = {}
         /\ p \in 1 .. created - 1 => Reach(next, p) \subseteq p .. created - 1
<1>1. next \in [Buffers -> Buffers \union {NoBuffer}] /\ NoBuffer \notin Buffers
      /\ \A d \in Buffers : d < created - 1 => d + 1 \in Buffers
  BY CacheAssumption DEF CacheTypes, ChainInv, Buffers, NoBuffer
<1>2. ASSUME p \in 1 .. created - 1 PROVE Reach(next, p) \subseteq p .. created - 1
  <2> DEFINE S == p .. created - 1
  <2>1. S \in SUBSET Buffers /\ p \in S
    BY <1>2, CacheAssumption DEF CacheTypes, Buffers
  <2>2. \A d \in S : next[d] = NoBuffer \/ next[d] \in S
    <3> SUFFICES ASSUME NEW d \in S PROVE next[d] = NoBuffer \/ next[d] \in S
      OBVIOUS
    <3>1. d \in Buffers /\ d \in Nat /\ p \in Nat /\ created \in Nat /\ p <= d /\ d <= created - 1
      BY <1>2, <2>1, CacheAssumption DEF CacheTypes, Buffers
    <3>2. next[d] = NoBuffer \/ (next[d] = d + 1 /\ d < created - 1)
      BY <3>1 DEF ChainInv
    <3> QED
      BY <3>1, <3>2
  <2> HIDE DEF S
  <2>3. Reach(next, p) \subseteq S
    BY <1>1, <2>1, <2>2, ReachLeast
  <2> QED
    BY <2>3 DEF S
<1>3. p = NoBuffer => Reach(next, p) = {}
  BY <1>1, ReachFacts
<1> QED
  BY <1>2, <1>3

\* Whenever the cache may be sent, it sends the stream.
LEMMA CacheSends ==
  ASSUME CacheInv, cpc = "idle"
  PROVE  SendsInOrder /\ SentUpTo = traced
<1>1. Retired \subseteq 1 .. created - 1
  <2>1. head \in Buffers \union {NoBuffer} /\ (head = NoBuffer \/ head \in 1 .. created - 1)
    BY CacheAssumption DEF CacheInv, CacheTypes, ChainInv, Buffers, NoBuffer
  <2>2. head \in 1 .. created - 1 => head = 1
    BY <2>1 DEF CacheInv, ChainInv, NoBuffer
  <2> QED
    BY <2>1, <2>2, ListAscends DEF CacheInv, Retired
<1>2. from[FirstSent] = 0
  BY CacheAssumption DEF CacheInv, CacheTypes, ChainInv, RangeInv, FirstSent, Buffers, NoBuffer
<1>3. ASSUME NEW b \in Retired PROVE to[b] = from[Follower(b)] /\ b \notin Reach(next, next[b])
  <2>1. b \in Buffers /\ b < created /\ from[b + 1] = to[b]
    BY <1>1, <1>3, CacheAssumption DEF CacheInv, CacheTypes, RangeInv, Buffers
  <2>2. CASE b < created - 1
    <3>1. next[b] = b + 1 /\ next[b] \in Buffers /\ next[b] \in 1 .. created - 1 /\ next[b] # NoBuffer
      <4>1. next[b] = b + 1
        BY <2>1, <2>2 DEF CacheInv, ChainInv
      <4> QED
        BY <2>1, <2>2, <4>1, CacheAssumption DEF CacheInv, CacheTypes, Buffers, NoBuffer
    <3>2. Reach(next, next[b]) \subseteq next[b] .. created - 1
      BY <3>1, ListAscends DEF CacheInv
    <3> QED
      BY <2>1, <3>1, <3>2, CacheAssumption DEF Follower, Buffers
  <2>3. CASE b = created - 1
    <3>1. next[b] = NoBuffer
      BY <2>1, <2>3 DEF CacheInv, ChainInv
    <3>2. Reach(next, next[b]) = {}
      BY <3>1, ListAscends DEF CacheInv
    <3>3. Follower(b) = b + 1
      BY <2>1, <2>3, <3>1, CacheAssumption DEF CacheInv, CacheTypes, Follower, Buffers
    <3> QED
      BY <2>1, <3>2, <3>3
  <2> QED
    BY <2>1, <2>2, <2>3, CacheAssumption DEF CacheInv, CacheTypes, Buffers
<1>4. to[active] = traced - todo - collected /\ SentUpTo = traced
  BY CacheAssumption DEF CacheInv, CacheTypes, WorkInv, SentUpTo, CollectorSent
<1> QED
  BY <1>2, <1>3, <1>4 DEF SendsInOrder

\* A packet goes into the active buffer, or into a new one behind all others.
LEMMA CommitKept ==
  ASSUME CacheInv, NEW n \in 1 .. EncodeMaxSize, CacheCommit(n)
  PROVE  CacheInv'
<1>0. 1 \in Buffers
  BY CacheAssumption DEF Buffers
<1>1. /\ cpc = "commit" /\ collected = CollectorSize /\ collected' = 0
      /\ cpc' = (IF todo = 0 THEN "idle" ELSE "collect")
      /\ UNCHANGED <<traced, todo, cacheClient, cacheGot>>
  BY DEF CacheCommit, CacheInv, WorkInv
<1>2. CacheTypes /\ WorkInv /\ ChainInv /\ RangeInv /\ FedInv
  BY DEF CacheInv
<1>3. /\ CollectorSize \in Nat \ {0} /\ EncodeMaxSize \in Nat \ {0} /\ BufferSize \in Nat
      /\ PacketHeader \in Nat /\ EncodeMaxSize + PacketHeader <= BufferSize /\ MaxBuffers \in Nat \ {0}
      /\ n \in Nat /\ n > 0 /\ n <= EncodeMaxSize
  BY CacheAssumption
<1>4. /\ active = created /\ created \in Nat /\ created >= 1 /\ created <= MaxBuffers
      /\ used[active] \in Nat /\ from[active] \in Nat /\ to[active] \in Nat
      /\ traced - todo \in Nat /\ traced - todo - CollectorSize = to[active]
  BY <1>1, <1>2, <1>3 DEF CacheTypes, WorkInv, Buffers
<1>5. FedInv'
  BY <1>1, <1>2 DEF FedInv
<1>6. CASE PacketFits
  <2>1. AddPacket(active, n) /\ UNCHANGED <<created, active, head, next, tailNext>>
    BY <1>6 DEF CacheCommit
  <2>2. /\ used'[active] = used[active] + PacketHeader + n
        /\ from'[active] = (IF used[active] = 0 THEN to[active] ELSE from[active])
        /\ to'[active] = traced - todo
        /\ \A b \in Buffers : b # active => used'[b] = used[b] /\ from'[b] = from[b] /\ to'[b] = to[b]
        /\ used' \in [Buffers -> Nat] /\ from' \in [Buffers -> Nat] /\ to' \in [Buffers -> Nat]
    <3>1. active \in Buffers /\ active = created
      BY <1>2 DEF CacheTypes
    <3>2. /\ used' = [used EXCEPT ![active] = @ + PacketHeader + n]
          /\ from' = [from EXCEPT ![active] = IF used[active] = 0 THEN to[active] ELSE @]
          /\ to' = [to EXCEPT ![active] = traced - todo]
      BY <1>4, <2>1 DEF AddPacket
    <3>3. used \in [Buffers -> Nat] /\ from \in [Buffers -> Nat] /\ to \in [Buffers -> Nat]
      BY <1>2 DEF CacheTypes
    <3> QED
      BY <1>3, <1>4, <3>1, <3>2, <3>3
  <2>3. CacheTypes' /\ WorkInv' /\ ChainInv'
    BY <1>1, <1>2, <1>3, <1>4, <2>1, <2>2 DEF CacheTypes, WorkInv, ChainInv
  <2>4. used'[active] <= BufferSize /\ used'[active] > 0 /\ from'[active] = from[active]
    BY <1>2, <1>3, <1>4, <1>6, <2>2 DEF PacketFits, RangeInv, CacheTypes
  <2>5. RangeInv'
    <3>1. from'[1] = 0
      <4>1. from[1] = 0 /\ 1 \in Buffers
        BY <1>0, <1>2 DEF RangeInv
      <4> QED
        BY <2>2, <2>4, <4>1
    <3>2. ASSUME NEW b \in Buffers, b # active
          PROVE  /\ used'[b] <= BufferSize /\ (used'[b] = 0 => from'[b] = 0 /\ to'[b] = 0)
                 /\ b < created => used'[b] > 0 /\ from'[b + 1] = to'[b]
                 /\ b > created => used'[b] = 0
      <4>1. used'[b] = used[b] /\ from'[b] = from[b] /\ to'[b] = to[b]
        BY <2>2, <3>2
      <4>2. b < created => from'[b + 1] = from[b + 1]
        <5>1. b < created => b + 1 \in Buffers
          BY <1>3, <1>4 DEF Buffers
        <5> QED
          BY <2>2, <2>4, <5>1
      <4> QED
        BY <1>2, <4>1, <4>2 DEF RangeInv
    <3>3. created' = created /\ ~(active < created) /\ ~(active > created)
      BY <1>4, <2>1
    <3> QED
      BY <2>4, <3>1, <3>2, <3>3 DEF RangeInv
  <2> QED
    BY <1>5, <2>3, <2>5 DEF CacheInv
<1>7. CASE ~PacketFits
  <2>1. /\ created < MaxBuffers /\ created' = created + 1 /\ active' = created + 1 /\ tailNext' = active
        /\ LinkRetired /\ AddPacket(created + 1, n)
    BY <1>7 DEF CacheCommit
  <2>2. used[active] > 0 /\ created + 1 \in Buffers /\ used[created + 1] = 0
    BY <1>2, <1>3, <1>4, <1>7, <2>1 DEF PacketFits, RangeInv, Buffers, CacheTypes
  <2>3. /\ used'[created + 1] = PacketHeader + n
        /\ from'[created + 1] = to[active] /\ to'[created + 1] = traced - todo
        /\ \A b \in Buffers : b # created + 1 => used'[b] = used[b] /\ from'[b] = from[b] /\ to'[b] = to[b]
        /\ used' \in [Buffers -> Nat] /\ from' \in [Buffers -> Nat] /\ to' \in [Buffers -> Nat]
    BY <1>2, <1>3, <1>4, <2>1, <2>2 DEF AddPacket, CacheTypes
  <2>4. /\ head' = (IF tailNext = NoBuffer THEN active ELSE head)
        /\ next' = [b \in Buffers |-> IF b = active THEN NoBuffer ELSE IF b = tailNext THEN active ELSE next[b]]
    BY <2>1 DEF LinkRetired
  <2>5. ChainInv'
    BY <1>2, <1>3, <1>4, <2>1, <2>4 DEF ChainInv, Buffers, NoBuffer
  <2>6. next' \in [Buffers -> Nat]
    BY <1>2, <1>4, <2>4 DEF CacheTypes, NoBuffer
  <2>7. CacheTypes' /\ WorkInv'
    BY <1>1, <1>2, <1>3, <1>4, <2>1, <2>2, <2>3, <2>6 DEF CacheTypes, WorkInv
  <2>8. RangeInv'
    <3>1. from'[1] = 0
      <4>1. from[1] = 0 /\ 1 \in Buffers /\ 1 # created + 1
        BY <1>0, <1>2, <1>4 DEF RangeInv
      <4> QED
        BY <2>3, <4>1
    <3>2. used'[created + 1] <= BufferSize /\ used'[created + 1] # 0
      BY <1>3, <2>3
    <3>3. ASSUME NEW b \in Buffers, b # created + 1
          PROVE  /\ used'[b] <= BufferSize /\ (used'[b] = 0 => from'[b] = 0 /\ to'[b] = 0)
                 /\ b < created + 1 => used'[b] > 0 /\ from'[b + 1] = to'[b]
                 /\ b > created + 1 => used'[b] = 0
      <4>1. used'[b] = used[b] /\ from'[b] = from[b] /\ to'[b] = to[b] /\ b \in Nat
        BY <2>3, <3>3 DEF Buffers
      <4>2. b < created => from'[b + 1] = from[b + 1]
        <5>1. b < created => b + 1 \in Buffers /\ b + 1 # created + 1
          BY <1>3, <1>4, <4>1 DEF Buffers
        <5> QED
          BY <2>3, <5>1
      <4>3. b < created + 1 => b < created \/ b = active
        BY <1>4, <4>1
      <4> QED
        BY <1>2, <1>4, <2>2, <2>3, <3>3, <4>1, <4>2, <4>3 DEF RangeInv
    <3>4. ~(created + 1 < created') /\ ~(created + 1 > created')
      BY <1>4, <2>1
    <3> QED
      BY <2>1, <3>1, <3>2, <3>3, <3>4 DEF RangeInv
  <2> QED
    BY <1>5, <2>5, <2>7, <2>8 DEF CacheInv
<1> QED
  BY <1>6, <1>7

\* The inductive invariant.
THEOREM CacheInvariant == CacheSpec => []CacheInv
<1> USE CacheAssumption
<1>1. ASSUME CacheInit PROVE CacheInv
  BY <1>1 DEF CacheInit, CacheInv, CacheTypes, WorkInv, ChainInv, RangeInv, FedInv, Buffers, NoBuffer
<1>2. ASSUME CacheInv, [CacheNext]_cacheVars PROVE CacheInv'
  <2>1. ASSUME NEW n \in DataSizes, CacheData(n) PROVE CacheInv'
    BY <1>2, <2>1 DEF CacheData, CacheInv, CacheTypes, WorkInv, ChainInv, RangeInv, FedInv, bufferVars
  <2>2. CASE Collect
    BY <1>2, <2>2 DEF Collect, CacheInv, CacheTypes, WorkInv, ChainInv, RangeInv, FedInv, bufferVars
  <2>3. ASSUME NEW n \in 1 .. EncodeMaxSize, CacheCommit(n) PROVE CacheInv'
    BY <1>2, <2>3, CommitKept
  <2>4. CASE CacheConnect
    <3>1. SendsInOrder /\ SentUpTo = traced
      BY <1>2, <2>4, CacheSends DEF CacheConnect
    <3> QED
      BY <1>2, <2>4, <3>1 DEF CacheConnect, CacheInv, CacheTypes, WorkInv, ChainInv, RangeInv, FedInv, bufferVars
  <2>5. CASE CacheDisconnect
    BY <1>2, <2>5 DEF CacheDisconnect, CacheInv, CacheTypes, WorkInv, ChainInv, RangeInv, FedInv, bufferVars
  <2>6. CASE UNCHANGED cacheVars
    BY <1>2, <2>6 DEF cacheVars, CacheInv, CacheTypes, WorkInv, ChainInv, RangeInv, FedInv, bufferVars
  <2> QED
    BY <1>2, <2>1, <2>2, <2>3, <2>4, <2>5, <2>6 DEF CacheNext
<1> QED
  BY <1>1, <1>2, PTL DEF CacheSpec

\* The cache holds every important event, in order, whenever it may be sent, and no packet
\* is encoded past the end of a cache buffer, whatever the sizes of the collector, of the
\* buffers and of what is traced, as long as a packet fits into an empty buffer.
THEOREM CacheIsComplete == CacheSpec => []CacheKeepsAll
<1>1. ASSUME CacheInv PROVE CacheKeepsAll
  BY <1>1, CacheSends DEF CacheInv, RangeInv, CacheKeepsAll
<1> QED
  BY <1>1, CacheInvariant, PTL

\* The cache and the live events together are what ImportantStream promises: every client,
\* whenever it connects, is sent the whole stream.
THEOREM CacheImplementsStream == CacheSpec => ImplementsStream
<1>1. ASSUME CacheInit PROVE Stream!Init
  BY <1>1 DEF CacheInit, Stream!Init
<1>2. ASSUME CacheInv, [CacheNext]_cacheVars
      PROVE  [Stream!Next]_<<traced, cacheClient, cacheGot>>
  <2>1. ASSUME NEW n \in DataSizes, CacheData(n) PROVE Stream!Extend
    <3>1. n \in Nat /\ n > 0 /\ traced \in Nat /\ traced' = traced + n
      BY <1>2, <2>1, CacheAssumption DEF CacheData, CacheInv, CacheTypes
    <3> QED
      BY <1>2, <2>1, <3>1 DEF CacheData, CacheInv, FedInv, Stream!Extend
  <2>2. CASE CacheConnect
    <3>1. SendsInOrder /\ SentUpTo = traced
      BY <1>2, <2>2, CacheSends DEF CacheConnect
    <3> QED
      BY <2>2, <3>1 DEF CacheConnect, Stream!Connect, Stream!Next
  <2>3. CASE CacheDisconnect
    BY <1>2, <2>3 DEF CacheDisconnect, CacheInv, FedInv, Stream!Disconnect, Stream!Next
  <2>4. CASE Collect
    BY <2>4 DEF Collect
  <2>5. ASSUME NEW n \in 1 .. EncodeMaxSize, CacheCommit(n)
        PROVE  UNCHANGED <<traced, cacheClient, cacheGot>>
    BY <2>5 DEF CacheCommit
  <2>6. CASE UNCHANGED cacheVars
    BY <2>6 DEF cacheVars
  <2> QED
    BY <1>2, <2>1, <2>2, <2>3, <2>4, <2>5, <2>6 DEF CacheNext, Stream!Next
<1> QED
  BY <1>1, <1>2, CacheInvariant, PTL DEF CacheSpec, ImplementsStream, Stream!Spec

HIDE SizeAssumption DEF Addresses, Garbage, NextCursor, EnoughDiscarded

(***************************************************************************)
(* Numbers and sequences, and the lines of a text                          *)
(***************************************************************************)
\* A function on 1 .. c is a sequence, and Append puts one more after it.
LEMMA AppendFunction ==
  ASSUME NEW c \in Nat, NEW s, s = [n \in 1 .. c |-> s[n]], NEW x
  PROVE  /\ Len(s) = c /\ DOMAIN s = 1 .. c
         /\ Append(s, x) = [n \in 1 .. c + 1 |-> IF n \in 1 .. c THEN s[n] ELSE x]
<1> DEFINE X == {s[n] : n \in 1 .. c} \union {x}
<1>1. \A n \in 1 .. c : s[n] \in X
  OBVIOUS
<1>2. x \in X
  OBVIOUS
<1> HIDE DEF X
<1>3. s \in [1 .. c -> X]
  BY <1>1
<1>4. s \in Seq(X) /\ Len(s) = c
  BY <1>3
<1>5. /\ Append(s, x) \in Seq(X) /\ Len(Append(s, x)) = c + 1
      /\ \A n \in 1 .. c : Append(s, x)[n] = s[n]
      /\ Append(s, x)[c + 1] = x
  BY <1>2, <1>4, AppendProperties
<1>6. Append(s, x) = [n \in 1 .. c + 1 |-> Append(s, x)[n]]
  BY <1>5
<1>7. \A n \in 1 .. c + 1 : n \in 1 .. c \/ n = c + 1
  OBVIOUS
<1> QED
  BY <1>4, <1>5, <1>6, <1>7

\* The members of no set.
LEMMA SortedEmpty == Sorted({}) = <<>>
  BY FS_EmptySet DEF Sorted

\* A number above all others comes last.
LEMMA SortedAdd ==
  ASSUME NEW S \in SUBSET Nat, IsFiniteSet(S), NEW x \in Nat, \A y \in S : y < x
  PROVE  /\ Sorted(S \union {x}) = Append(Sorted(S), x)
         /\ Len(Sorted(S)) = Cardinality(S) /\ Cardinality(S) \in Nat
         /\ DOMAIN Sorted(S) = 1 .. Cardinality(S)
         /\ DOMAIN Sorted(S \union {x}) = 1 .. Cardinality(S) + 1
         /\ \A n \in 1 .. Cardinality(S) + 1 :
              Sorted(S \union {x})[n] = IF n \in 1 .. Cardinality(S) THEN Sorted(S)[n] ELSE x
<1> DEFINE T == S \union {x}
           c == Cardinality(S)
           below(R, z) == Cardinality({y \in R : y < z})
<1>1. /\ IsFiniteSet(T) /\ Cardinality(T) = c + 1 /\ c \in Nat /\ x \notin S
  BY FS_AddElement, FS_CardinalityType
<1>2. \A z \in S : below(T, z) = below(S, z)
  <2> TAKE z \in S
  <2>1. {y \in T : y < z} = {y \in S : y < z}
    OBVIOUS
  <2> QED
    BY <2>1
<1>3. below(T, x) = c
  <2>1. ~ (x < x) /\ \A y \in T : y < x <=> y \in S
    BY <1>1
  <2>2. {y \in T : y < x} = S
    BY <2>1
  <2> QED
    BY <2>2
<1>4. \A z \in S : below(S, z) \in Nat /\ below(S, z) < c
  <2> TAKE z \in S
  <2>1. {y \in S : y < z} \in SUBSET S /\ z \notin {y \in S : y < z}
    OBVIOUS
  <2>2. IsFiniteSet({y \in S : y < z}) /\ below(S, z) <= c /\ below(S, z) # c
    BY <2>1, FS_Subset
  <2> QED
    BY <2>2, <1>1, FS_CardinalityType
<1> HIDE DEF below
<1>5. \A n \in 1 .. c : (CHOOSE z \in T : below(T, z) = n - 1) = (CHOOSE z \in S : below(S, z) = n - 1)
  <2> TAKE n \in 1 .. c
  <2>1. below(T, x) # n - 1
    BY <1>1, <1>3
  <2>2. \A z : z \in T /\ below(T, z) = n - 1 <=> z \in S /\ below(S, z) = n - 1
    BY <1>1, <1>2, <2>1, Zenon
  <2> QED
    BY <2>2, Zenon
<1>6. (CHOOSE z \in T : below(T, z) = (c + 1) - 1) = x
  BY <1>1, <1>2, <1>3, <1>4
<1>7. /\ Sorted(S) = [n \in 1 .. c |-> CHOOSE z \in S : below(S, z) = n - 1]
      /\ Sorted(T) = [n \in 1 .. c + 1 |-> CHOOSE z \in T : below(T, z) = n - 1]
  BY <1>1 DEF Sorted, below
<1>8. Len(Sorted(S)) = c /\ DOMAIN Sorted(S) = 1 .. c
  BY <1>1, <1>7
<1> HIDE DEF c, T
<1>10. Sorted(T) = [n \in 1 .. c + 1 |-> IF n \in 1 .. c THEN Sorted(S)[n] ELSE x]
  <2>1. \A n \in 1 .. c + 1 : n \in 1 .. c \/ n = c + 1
    BY <1>1
  <2> QED
    BY <1>1, <1>5, <1>6, <1>7, <2>1
<1>11. Sorted(T) = Append(Sorted(S), x)
  <2>1. Sorted(S) = [n \in 1 .. c |-> Sorted(S)[n]]
    BY <1>7, <1>8
  <2>2. Append(Sorted(S), x) = [n \in 1 .. c + 1 |-> IF n \in 1 .. c THEN Sorted(S)[n] ELSE x]
    BY <1>1, <2>1, AppendFunction
  <2> QED
    BY <1>10, <2>2
<1> QED
  BY <1>1, <1>8, <1>10, <1>11 DEF c, T

\* Induction over a set of numbers.
LEMMA AllNaturals ==
  ASSUME NEW N, 0 \in N, \A n \in Nat : n \in N => n + 1 \in N
  PROVE  \A n \in Nat : n \in N
<1> SUFFICES ASSUME Nat \ N # {} PROVE FALSE
  OBVIOUS
<1>1. PICK n \in Nat \ N : \A m \in Nat \ N : n <= m
  BY Smallest
<1>2. n - 1 \in Nat /\ ~ (n <= n - 1) /\ (n - 1) + 1 = n
  BY <1>1
<1> QED
  BY <1>1, <1>2

\* What is in order are the members of the set.
LEMMA SortedMembers ==
  ASSUME NEW top \in Nat, NEW S \in SUBSET (1 .. top)
  PROVE  /\ IsFiniteSet(S)
         /\ \A n \in DOMAIN Sorted(S) : Sorted(S)[n] \in S
<1> DEFINE upTo(m) == {y \in S : y <= m}
           N == {m \in Nat : \A n \in DOMAIN Sorted(upTo(m)) : Sorted(upTo(m))[n] \in S}
<1>1. \A y \in S : y \in Nat /\ 1 <= y /\ y <= top
  OBVIOUS
<1>2. \A m, y : y \in upTo(m) <=> y \in S /\ y <= m
  OBVIOUS
<1>3. IsFiniteSet(S) /\ \A m \in Nat : IsFiniteSet(upTo(m)) /\ upTo(m) \in SUBSET Nat
  <2>1. IsFiniteSet(S)
    <3>1. IsFiniteSet(1 .. top)
      BY FS_Interval
    <3> QED
      BY <3>1, FS_Subset
  <2>2. \A m \in Nat : upTo(m) \in SUBSET S
    OBVIOUS
  <2> HIDE DEF upTo
  <2> QED
    BY <1>1, <2>1, <2>2, FS_Subset
<1> HIDE DEF upTo
<1>4. 0 \in N
  <2>1. \A y \in S : ~ (y <= 0)
    BY <1>1
  <2>2. upTo(0) = {}
    BY <1>2, <2>1
  <2> QED
    BY <2>2, SortedEmpty
<1>5. ASSUME NEW m \in Nat, m \in N PROVE m + 1 \in N
  <2>0. \A y \in S : y <= m + 1 <=> y <= m \/ y = m + 1
    BY <1>1
  <2>1. CASE m + 1 \notin S
    <3>1. upTo(m + 1) = upTo(m)
      BY <1>2, <2>0, <2>1
    <3> QED
      BY <1>5, <3>1
  <2>2. CASE m + 1 \in S
    <3> DEFINE R == upTo(m)
               c == Cardinality(R)
    <3>1. upTo(m + 1) = R \union {m + 1}
      <4>1. \A y : y \in upTo(m + 1) <=> y \in R \union {m + 1}
        BY <1>2, <2>0, <2>2
      <4> QED
        BY <4>1
    <3>2. \A y \in R : y < m + 1
      <4> TAKE y \in R
      <4>1. y \in Nat /\ y <= m
        BY <1>1, <1>2
      <4> QED
        BY <4>1
    <3>3. \A n \in DOMAIN Sorted(R) : Sorted(R)[n] \in S
      BY <1>5
    <3>4. R \in SUBSET Nat /\ IsFiniteSet(R) /\ m + 1 \in Nat
      BY <1>3
    <3> HIDE DEF R
    <3>5. /\ DOMAIN Sorted(R) = 1 .. c
          /\ DOMAIN Sorted(R \union {m + 1}) = 1 .. c + 1
          /\ \A n \in 1 .. c + 1 :
               Sorted(R \union {m + 1})[n] = IF n \in 1 .. c THEN Sorted(R)[n] ELSE m + 1
      BY <3>2, <3>4, SortedAdd
    <3> HIDE DEF c
    <3>6. \A n \in DOMAIN Sorted(upTo(m + 1)) : Sorted(upTo(m + 1))[n] \in S
      BY <2>2, <3>1, <3>3, <3>5
    <3> QED
      BY <3>6
  <2> QED
    BY <2>1, <2>2
<1>6. top \in N
  <2> HIDE DEF N
  <2> QED
    BY <1>4, <1>5, AllNaturals
<1>7. upTo(top) = S
  BY <1>1, <1>2
<1> QED
  BY <1>3, <1>6, <1>7

\* The least of some numbers is one of them.
LEMMA MinFacts ==
  ASSUME NEW X \in SUBSET Nat, X # {}
  PROVE  Min(X) \in X /\ \A x \in X : Min(X) <= x
  BY Smallest DEF Min

\* The greatest of some numbers up to top is one of them.
LEMMA MaxFacts ==
  ASSUME NEW top \in Nat, NEW X \in SUBSET (0 .. top), X # {}
  PROVE  Max(X) \in X /\ \A x \in X : x <= Max(X)
<1> DEFINE Y == {d \in Nat : \E x \in X : x + d = top}
<1>1. \A x \in X : x \in Nat /\ top - x \in Nat /\ x + (top - x) = top
  OBVIOUS
<1>2. \A x \in X : top - x \in Y
  BY <1>1
<1>3. PICK d \in Y : \A e \in Y : d <= e
  BY <1>2, Smallest
<1>4. PICK x \in X : d \in Nat /\ x + d = top
  BY <1>3
<1>5. \A y \in X : d <= top - y
  BY <1>2, <1>3
<1> HIDE DEF Y
<1>6. \A y \in X : x >= y
  BY <1>1, <1>4, <1>5
<1>7. \E z \in X : \A y \in X : z >= y
  BY <1>6
<1>8. Max(X) \in X /\ \A y \in X : Max(X) >= y
  BY <1>7 DEF Max
<1> QED
  BY <1>1, <1>8

\* The line that text ends in begins after b.
Begins(text, b) ==
  /\ b \in 0 .. Len(text)
  /\ b = 0 \/ text[b] = "\n"
  /\ \A j \in b + 1 .. Len(text) : text[j] # "\n"

\* Every text ends in a line, though it may be empty.
LEMMA SomeBegins ==
  ASSUME NEW S, NEW text \in Seq(S)
  PROVE  \E b : Begins(text, b)
<1> DEFINE X == {j \in 0 .. Len(text) : j = 0 \/ text[j] = "\n"}
<1>1. Len(text) \in Nat /\ X \in SUBSET (0 .. Len(text)) /\ 0 \in X
  OBVIOUS
<1>2. Max(X) \in X /\ \A x \in X : x <= Max(X)
  BY <1>1, MaxFacts
<1>3. Max(X) \in 0 .. Len(text) /\ (Max(X) = 0 \/ text[Max(X)] = "\n")
  BY <1>2
<1>4. \A j \in Max(X) + 1 .. Len(text) : text[j] # "\n"
  <2> SUFFICES ASSUME NEW j \in Max(X) + 1 .. Len(text), text[j] = "\n" PROVE FALSE
    OBVIOUS
  <2>1. j \in X
    BY <1>1, <1>3
  <2> QED
    BY <1>2, <1>3, <2>1
<1> QED
  BY <1>3, <1>4 DEF Begins

\* The line that a "\n" ends is the same whatever text follows.
LEMMA LineSame ==
  ASSUME NEW S, NEW text \in Seq(S), NEW ch \in S, NEW i \in 1 .. Len(text) + 1
  PROVE  Line(Append(text, ch), i) = Line(text, i)
<1> DEFINE T == Append(text, ch)
           X == {j \in 0 .. i - 1 : j = 0 \/ text[j] = "\n"}
<1>1. T \in Seq(S) /\ Len(T) = Len(text) + 1 /\ \A j \in 1 .. Len(text) : T[j] = text[j]
  BY AppendProperties
<1>2. \A j \in 0 .. i - 1 : j = 0 \/ j \in 1 .. Len(text)
  OBVIOUS
<1>3. {j \in 0 .. i - 1 : j = 0 \/ T[j] = "\n"} = X
  BY <1>1, <1>2
<1>4. i - 1 \in Nat /\ X \in SUBSET (0 .. i - 1) /\ 0 \in X
  OBVIOUS
<1>5. Max(X) \in 0 .. i - 1
  BY <1>4, MaxFacts
<1> DEFINE m == Max(X)
<1>6. Line(T, i) = SubSeq(T, m + 1, i - 1) /\ Line(text, i) = SubSeq(text, m + 1, i - 1)
  BY <1>3 DEF Line
<1> HIDE DEF m, X, T
<1>7. SubSeq(T, m + 1, i - 1) = SubSeq(text, m + 1, i - 1)
  <2>1. m \in 0 .. i - 1
    BY <1>5 DEF m
  <2>2. SubSeq(T, m + 1, i - 1) = [j \in 1 .. (i - 1) - (m + 1) + 1 |-> T[(m + 1) + j - 1]]
    BY <2>1
  <2>3. SubSeq(text, m + 1, i - 1) = [j \in 1 .. (i - 1) - (m + 1) + 1 |-> text[(m + 1) + j - 1]]
    BY <2>1
  <2>4. \A j \in 1 .. (i - 1) - (m + 1) + 1 : (m + 1) + j - 1 \in 1 .. Len(text)
    BY <2>1
  <2> QED
    BY <1>1, <2>2, <2>3, <2>4
<1> QED
  BY <1>6, <1>7 DEF T

\* The line that a "\n" at the end of text would end.
LEMMA LineLast ==
  ASSUME NEW S, NEW text \in Seq(S), NEW b, Begins(text, b)
  PROVE  Line(text, Len(text) + 1) = SubSeq(text, b + 1, Len(text))
<1> DEFINE X == {j \in 0 .. (Len(text) + 1) - 1 : j = 0 \/ text[j] = "\n"}
<1>1. Len(text) \in Nat /\ (Len(text) + 1) - 1 = Len(text) /\ b \in 0 .. Len(text)
  BY DEF Begins
<1>2. X \in SUBSET (0 .. Len(text)) /\ b \in X /\ \A j \in X : ~ (j \in b + 1 .. Len(text))
  BY <1>1 DEF Begins
<1>3. Line(text, Len(text) + 1) = SubSeq(text, Max(X) + 1, Len(text))
  BY <1>1 DEF Line
<1> HIDE DEF X
<1>4. Max(X) \in X /\ \A j \in X : j <= Max(X)
  BY <1>1, <1>2, MaxFacts
<1>5. Max(X) \in 0 .. Len(text) /\ b <= Max(X) /\ Max(X) \notin b + 1 .. Len(text)
  BY <1>2, <1>4
<1>6. Max(X) = b
  <2> DEFINE m == Max(X)
  <2>1. m \in 0 .. Len(text) /\ b <= m /\ m \notin b + 1 .. Len(text)
    BY <1>5
  <2> HIDE DEF m
  <2>2. m = b
    BY <1>1, <2>1
  <2> QED
    BY <2>2 DEF m
<1> QED
  BY <1>3, <1>6

\* Where the last line of a longer text begins.
LEMMA BeginsNext ==
  ASSUME NEW S, NEW text \in Seq(S), NEW ch \in S, NEW b, Begins(text, b)
  PROVE  Begins(Append(text, ch), IF ch = "\n" THEN Len(text) + 1 ELSE b)
<1> DEFINE T == Append(text, ch)
<1>1. /\ T \in Seq(S) /\ Len(T) = Len(text) + 1 /\ Len(text) \in Nat
      /\ \A j \in 1 .. Len(text) : T[j] = text[j]
      /\ T[Len(text) + 1] = ch
  BY AppendProperties
<1> HIDE DEF T
<1>2. Begins(T, IF ch = "\n" THEN Len(text) + 1 ELSE b)
  BY <1>1 DEF Begins
<1> QED
  BY <1>2 DEF T

\* Where lines end in a text that is one character longer.
LEMMA EndsNext ==
  ASSUME NEW S, NEW text \in Seq(S), NEW ch \in S, NEW b, Begins(text, b)
  PROVE  Ends(Append(text, ch)) =
           Ends(text) \union (IF ch = "\n" /\ b < Len(text) THEN {Len(text) + 1} ELSE {})
<1> DEFINE T == Append(text, ch)
           n == Len(text)
<1>1. /\ T \in Seq(S) /\ Len(T) = n + 1 /\ n \in Nat
      /\ \A j \in 1 .. n : T[j] = text[j]
      /\ T[n + 1] = ch
  BY AppendProperties
<1>2. b \in 0 .. n /\ (b = 0 \/ text[b] = "\n") /\ \A j \in b + 1 .. n : text[j] # "\n"
  BY DEF Begins
<1> HIDE DEF T, n
<1>3. \A i \in 2 .. n : T[i] = text[i] /\ T[i - 1] = text[i - 1]
  BY <1>1
<1>4. n + 1 \in Ends(T) <=> ch = "\n" /\ b < n
  <2>1. n + 1 \in Ends(T) <=> n >= 1 /\ ch = "\n" /\ text[n] # "\n"
    <3>1. n >= 1 => n + 1 \in 2 .. n + 1 /\ (n + 1) - 1 = n /\ n \in 1 .. n
      BY <1>1
    <3>2. n + 1 \in 2 .. n + 1 <=> n >= 1
      BY <1>1
    <3> QED
      BY <1>1, <3>1, <3>2 DEF Ends
  <2>2. n >= 1 => (text[n] # "\n" <=> b < n)
    BY <1>1, <1>2
  <2> QED
    BY <1>1, <1>2, <2>1, <2>2
<1>5. \A i : i \in Ends(T) <=> i \in Ends(text) \/ (i = n + 1 /\ n + 1 \in Ends(T))
  <2>1. \A i : i \in 2 .. n + 1 <=> i \in 2 .. n \/ (i = n + 1 /\ n >= 1)
    BY <1>1
  <2>2. \A i \in 2 .. n : i \in Ends(T) <=> i \in Ends(text)
    BY <1>1, <1>3 DEF Ends, n
  <2>3. \A i : (i \in Ends(T) => i \in 2 .. n + 1) /\ (i \in Ends(text) => i \in 2 .. n)
    BY <1>1 DEF Ends, n
  <2> QED
    BY <2>1, <2>2, <2>3
<1>6. Ends(T) = Ends(text) \union (IF ch = "\n" /\ b < n THEN {n + 1} ELSE {})
  BY <1>4, <1>5
<1> QED
  BY <1>6 DEF T, n

\* One more character: a "\n" after a line that is not empty makes it a command.
LEMMA CommandsNext ==
  ASSUME NEW S, NEW text \in Seq(S), NEW ch \in S, NEW b, Begins(text, b)
  PROVE  CommandsOf(Append(text, ch)) =
           IF ch = "\n" /\ b < Len(text)
           THEN Append(CommandsOf(text), Command(SubSeq(text, b + 1, Len(text))))
           ELSE CommandsOf(text)
<1> DEFINE T == Append(text, ch)
           n == Len(text)
           E == Ends(text)
           c == Cardinality(E)
<1>1. n \in Nat /\ E \in SUBSET (1 .. n) /\ \A i \in E : i \in 1 .. n + 1 /\ i \in Nat
  BY DEF Ends
<1>2. IsFiniteSet(E) /\ \A k \in DOMAIN Sorted(E) : Sorted(E)[k] \in E
  BY <1>1, SortedMembers
<1>3. Ends(T) = E \union (IF ch = "\n" /\ b < n THEN {n + 1} ELSE {})
  BY EndsNext
<1>4. /\ CommandsOf(text) = [k \in DOMAIN Sorted(E) |-> Command(Line(text, Sorted(E)[k]))]
      /\ CommandsOf(T) = [k \in DOMAIN Sorted(Ends(T)) |-> Command(Line(T, Sorted(Ends(T))[k]))]
  BY DEF CommandsOf
<1>5. \A i \in 1 .. n + 1 : Line(T, i) = Line(text, i)
  BY LineSame
<1>6. Line(text, n + 1) = SubSeq(text, b + 1, n)
  BY LineLast
<1> HIDE DEF T, n, E
<1>7. \A k \in DOMAIN Sorted(E) : Line(T, Sorted(E)[k]) = Line(text, Sorted(E)[k])
  BY <1>1, <1>2, <1>5
<1>8. CASE ch = "\n" /\ b < n
  <2>1. E \in SUBSET Nat /\ n + 1 \in Nat /\ \A i \in E : i < n + 1
    BY <1>1
  <2>2. /\ c \in Nat /\ DOMAIN Sorted(E) = 1 .. c
        /\ DOMAIN Sorted(E \union {n + 1}) = 1 .. c + 1
        /\ \A k \in 1 .. c + 1 :
             Sorted(E \union {n + 1})[k] = IF k \in 1 .. c THEN Sorted(E)[k] ELSE n + 1
    BY <1>2, <2>1, SortedAdd
  <2>3. Ends(T) = E \union {n + 1}
    BY <1>3, <1>8
  <2> HIDE DEF c
  <2>4. CommandsOf(text) = [k \in 1 .. c |-> CommandsOf(text)[k]]
    BY <1>4, <2>2
  <2>5. Append(CommandsOf(text), Command(Line(text, n + 1))) =
          [k \in 1 .. c + 1 |-> IF k \in 1 .. c THEN CommandsOf(text)[k] ELSE Command(Line(text, n + 1))]
    BY <2>2, <2>4, AppendFunction
  <2>6. CommandsOf(T) = [k \in 1 .. c + 1 |-> Command(Line(T, Sorted(E \union {n + 1})[k]))]
    BY <1>4, <2>2, <2>3
  <2>7. \A k \in 1 .. c + 1 : Command(Line(T, Sorted(E \union {n + 1})[k])) =
          IF k \in 1 .. c THEN CommandsOf(text)[k] ELSE Command(Line(text, n + 1))
    <3> TAKE k \in 1 .. c + 1
    <3>1. CASE k \in 1 .. c
      BY <1>4, <1>7, <2>2, <3>1
    <3>2. CASE k \notin 1 .. c
      <4>1. Sorted(E \union {n + 1})[k] = n + 1
        BY <2>2, <3>2
      <4>2. n + 1 \in 1 .. n + 1
        BY <1>1
      <4> QED
        BY <1>5, <3>2, <4>1, <4>2
    <3> QED
      BY <3>1, <3>2
  <2>8. CommandsOf(T) = Append(CommandsOf(text), Command(Line(text, n + 1)))
    BY <2>5, <2>6, <2>7
  <2> QED
    BY <1>6, <1>8, <2>8 DEF T, n
<1>9. CASE ~ (ch = "\n" /\ b < n)
  <2>1. Ends(T) = E
    BY <1>3, <1>9
  <2>2. CommandsOf(T) = CommandsOf(text)
    BY <1>4, <1>7, <2>1
  <2> QED
    BY <1>9, <2>2 DEF T, n
<1> QED
  BY <1>8, <1>9

(***************************************************************************)
(* The commands of a text, from those of its parts                         *)
(***************************************************************************)
\* What commands are made of.
LEMMA WordsType ==
  ASSUME NEW S, NEW line \in Seq(S)
  PROVE  /\ Words(line) \in Seq(Seq(S)) /\ Command(line) \in Seq(Seq(S))
         /\ Command(line) = SubSeq(Words(line), 1, Min({MaxWords, Len(Words(line))}))
         /\ Len(Command(line)) = Min({MaxWords, Len(Words(line))})
<1> DEFINE n == Len(line)
           P == Starts(line)
           c == Cardinality(P)
<1>1. n \in Nat /\ P \in SUBSET (1 .. n + 1) /\ n + 1 \in Nat
  BY DEF Starts
<1>2. IsFiniteSet(P) /\ \A k \in DOMAIN Sorted(P) : Sorted(P)[k] \in P
  BY <1>1, SortedMembers
<1>3. c \in Nat /\ DOMAIN Sorted(P) = 1 .. c
  BY <1>2, FS_CardinalityType DEF Sorted
<1>4. \A i \in 1 .. n + 1 : Word(line, i) \in Seq(S)
  <2> TAKE i \in 1 .. n + 1
  <2> DEFINE X == {j \in i .. n + 1 : Gap(line, j)}
             m == Min(X)
  <2>1. X \in SUBSET Nat /\ n + 1 \in X
    BY <1>1 DEF Gap
  <2>2. m \in i .. n + 1
    BY <2>1, MinFacts
  <2>3. Word(line, i) = SubSeq(line, i, m - 1)
    BY DEF Word
  <2> HIDE DEF m
  <2>4. \A j \in i .. m - 1 : line[j] \in S
    BY <1>1, <2>2
  <2>5. i \in Int /\ m - 1 \in Int
    BY <1>1, <2>2
  <2>6. SubSeq(line, i, m - 1) \in Seq(S)
    BY <2>4, <2>5, SubSeqProperties
  <2> QED
    BY <2>3, <2>6
<1> HIDE DEF c, P, n
<1>5. Words(line) = [k \in 1 .. c |-> Word(line, Sorted(P)[k])]
  BY <1>3 DEF Words, P
<1>6. \A k \in 1 .. c : Word(line, Sorted(P)[k]) \in Seq(S)
  BY <1>1, <1>2, <1>3, <1>4
<1>7. Words(line) \in Seq(Seq(S)) /\ Len(Words(line)) = c
  BY <1>3, <1>5, <1>6
<1> DEFINE m == Min({MaxWords, c})
<1>8. m \in Nat /\ m <= c
  <2>1. {MaxWords, c} \in SUBSET Nat
    BY <1>3, ControlAssumption
  <2> QED
    BY <2>1, MinFacts
<1> HIDE DEF m
<1>9. SubSeq(Words(line), 1, m) \in Seq(Seq(S)) /\ Len(SubSeq(Words(line), 1, m)) = m
  <2>1. \A k \in 1 .. m : Words(line)[k] \in Seq(S)
    BY <1>3, <1>5, <1>6, <1>8
  <2> QED
    BY <1>8, <2>1, SubSeqProperties
<1> QED
  BY <1>7, <1>9 DEF m, Command

\* Commands are sequences of words.
LEMMA CommandsType ==
  ASSUME NEW S, NEW text \in Seq(S)
  PROVE  CommandsOf(text) \in Seq(Seq(Seq(S)))
<1> DEFINE n == Len(text)
           E == Ends(text)
           c == Cardinality(E)
<1>1. n \in Nat /\ E \in SUBSET (1 .. n)
  BY DEF Ends
<1>2. IsFiniteSet(E) /\ \A k \in DOMAIN Sorted(E) : Sorted(E)[k] \in E
  BY <1>1, SortedMembers
<1>3. c \in Nat /\ DOMAIN Sorted(E) = 1 .. c
  BY <1>2, FS_CardinalityType DEF Sorted
<1>4. \A i \in 1 .. n : Line(text, i) \in Seq(S)
  <2> TAKE i \in 1 .. n
  <2> DEFINE X == {j \in 0 .. i - 1 : j = 0 \/ text[j] = "\n"}
             m == Max(X)
  <2>1. X \in SUBSET (0 .. i - 1) /\ 0 \in X /\ i - 1 \in Nat
    BY <1>1
  <2>2. m \in 0 .. i - 1
    BY <2>1, MaxFacts
  <2>3. Line(text, i) = SubSeq(text, m + 1, i - 1)
    BY DEF Line
  <2> HIDE DEF m
  <2>4. \A j \in m + 1 .. i - 1 : text[j] \in S
    BY <1>1, <2>2
  <2>5. m + 1 \in Int /\ i - 1 \in Int
    BY <1>1, <2>2
  <2>6. SubSeq(text, m + 1, i - 1) \in Seq(S)
    BY <2>4, <2>5, SubSeqProperties
  <2> QED
    BY <2>3, <2>6
<1> HIDE DEF c, E, n
<1>5. CommandsOf(text) = [k \in 1 .. c |-> Command(Line(text, Sorted(E)[k]))]
  BY <1>3 DEF CommandsOf, E
<1>6. \A k \in 1 .. c : Command(Line(text, Sorted(E)[k])) \in Seq(Seq(S))
  BY <1>1, <1>2, <1>3, <1>4, WordsType
<1> QED
  BY <1>3, <1>5, <1>6

\* What is appended to the second of two sequences is appended to both.
LEMMA AppendConcat ==
  ASSUME NEW S, NEW s \in Seq(S), NEW t \in Seq(S), NEW x \in S
  PROVE  Append(s \o t, x) = s \o Append(t, x)
<1>1. s \o t \in Seq(S)
  BY ConcatProperties
<1>2. Append(s \o t, x) = (s \o t) \o <<x>>
  BY <1>1, AppendIsConcat
<1>3. Append(t, x) = t \o <<x>>
  BY AppendIsConcat
<1>4. <<x>> \in Seq(S)
  OBVIOUS
<1> QED
  BY <1>2, <1>3, <1>4, ConcatAssociative

\* No text, no commands.
LEMMA CommandsEmpty == CommandsOf(<<>>) = <<>>
<1>1. Len(<<>>) = 0 /\ Ends(<<>>) = {}
  BY EmptySeq DEF Ends
<1>2. DOMAIN Sorted({}) = 1 .. 0
  BY SortedEmpty
<1> DEFINE f == CommandsOf(<<>>)
<1>3. DOMAIN f = 1 .. 0
  BY <1>1, <1>2 DEF CommandsOf
<1>4. f \in Seq(Seq(Seq({})))
  BY EmptySeq, CommandsType
<1> HIDE DEF f
<1>5. Len(f) = 0
  <2>1. Len(f) \in Nat /\ DOMAIN f = 1 .. Len(f)
    BY <1>4, LenProperties
  <2> QED
    BY <1>3, <2>1
<1>6. f = <<>>
  BY <1>4, <1>5, EmptySeq
<1> QED
  BY <1>6 DEF f

\* The commands of a text are those of its lines, one after the other.
LEMMA CommandsConcat ==
  ASSUME NEW S, NEW s \in Seq(S), s = <<>> \/ s[Len(s)] = "\n", NEW t \in Seq(S)
  PROVE  CommandsOf(s \o t) = CommandsOf(s) \o CommandsOf(t)
<1>0. \A v \in Seq(S), x \in S : s \o Append(v, x) = Append(s \o v, x)
  <2> TAKE v \in Seq(S), x \in S
  <2> QED
    BY AppendConcat
<1> DEFINE upTo(i) == SubSeq(t, 1, i)
           N == {i \in Nat : i <= Len(t) => CommandsOf(s \o upTo(i)) = CommandsOf(s) \o CommandsOf(upTo(i))}
<1>1. Len(s) \in Nat /\ Len(t) \in Nat
  OBVIOUS
<1>2. \A i \in 0 .. Len(t) : /\ upTo(i) \in Seq(S) /\ Len(upTo(i)) = i
                             /\ \A j \in 1 .. i : upTo(i)[j] = t[j]
  <2> TAKE i \in 0 .. Len(t)
  <2>1. \A j \in 1 .. i : t[j] \in S
    BY <1>1
  <2>2. 1 \in Int /\ i \in Int
    OBVIOUS
  <2>3. /\ upTo(i) \in Seq(S) /\ Len(upTo(i)) = IF 1 <= i THEN i - 1 + 1 ELSE 0
        /\ \A j \in 1 .. i - 1 + 1 : upTo(i)[j] = t[1 + j - 1]
    BY <2>1, <2>2, SubSeqProperties
  <2> QED
    BY <2>3
<1>3. 0 \in N
  <2>1. upTo(0) = <<>>
    OBVIOUS
  <2>2. s \o <<>> = s /\ CommandsOf(s) \o <<>> = CommandsOf(s)
    BY CommandsType, ConcatEmptySeq
  <2> QED
    BY <2>1, <2>2, CommandsEmpty
<1>4. ASSUME NEW i \in Nat, i \in N PROVE i + 1 \in N
  <2> SUFFICES ASSUME i + 1 <= Len(t)
               PROVE  CommandsOf(s \o upTo(i + 1)) = CommandsOf(s) \o CommandsOf(upTo(i + 1))
    OBVIOUS
  <2> DEFINE u == upTo(i)
             ch == t[i + 1]
             w == s \o u
             n == Len(s)
  <2>1. i \in 0 .. Len(t) /\ ch \in S /\ i + 1 \in 1 .. Len(t) /\ (i + 1) - 1 = i
    BY <1>1
  <2>2. upTo(i + 1) = Append(u, ch)
    <3>1. upTo(i + 1) = SubSeq(t, 1, (i + 1) - 1) \o <<t[i + 1]>>
      BY <2>1, SubSeqRecursiveSecond
    <3>2. Append(u, ch) = u \o <<ch>>
      BY <1>2, <2>1, AppendIsConcat
    <3> QED
      BY <2>1, <3>1, <3>2
  <2>3. /\ u \in Seq(S) /\ Len(u) = i
        /\ w \in Seq(S) /\ Len(w) = n + i
        /\ \A j \in 1 .. n + i : w[j] = IF j <= n THEN s[j] ELSE u[j - n]
    BY <1>2, <2>1, ConcatProperties
  <2>4. CommandsOf(w) = CommandsOf(s) \o CommandsOf(u)
    BY <1>4, <2>1
  <2> HIDE DEF u, ch, N, upTo
  <2>5. s \o Append(u, ch) = Append(w, ch)
    <3>1. u \in Seq(S) /\ ch \in S
      BY <2>1, <2>3
    <3> QED
      BY <1>0, <3>1
  <2>6. PICK b : Begins(u, b)
    BY <2>3, SomeBegins
  <2>7. b \in 0 .. i /\ (b = 0 \/ u[b] = "\n") /\ \A j \in b + 1 .. i : u[j] # "\n"
    BY <2>3, <2>6 DEF Begins
  <2>8. Begins(w, n + b)
    <3> HIDE DEF w
    <3>1. n + b \in 0 .. n + i
      BY <1>1, <2>7
    <3>2. n + b = 0 \/ w[n + b] = "\n"
      <4>1. CASE b = 0
        <5>1. n # 0 => n + b \in 1 .. n + i /\ n + b = n /\ s # <<>>
          BY <1>1, <4>1
        <5> QED
          BY <1>1, <2>3, <4>1, <5>1
      <4>2. CASE b # 0
        <5>1. n + b \in 1 .. n + i /\ ~ (n + b <= n) /\ (n + b) - n = b
          BY <1>1, <2>7, <4>2
        <5> QED
          BY <2>3, <2>7, <4>2, <5>1
      <4> QED
        BY <4>1, <4>2
    <3>3. \A j \in n + b + 1 .. n + i : w[j] # "\n"
      <4> TAKE j \in n + b + 1 .. n + i
      <4>1. j \in 1 .. n + i /\ ~ (j <= n) /\ j - n \in b + 1 .. i
        BY <1>1, <2>7
      <4> QED
        BY <2>3, <2>7, <4>1
    <3> QED
      BY <2>3, <3>1, <3>2, <3>3 DEF Begins
  <2>9. b < i => SubSeq(w, n + b + 1, n + i) = SubSeq(u, b + 1, i)
    <3> SUFFICES ASSUME b < i PROVE SubSeq(w, n + b + 1, n + i) = SubSeq(u, b + 1, i)
      OBVIOUS
    <3> DEFINE start == n + b + 1
               top == n + i
    <3>1. /\ start \in Len(s) + 1 .. Len(s) + Len(u) /\ top \in Len(s) + 1 .. Len(s) + Len(u)
          /\ start - Len(s) = b + 1 /\ top - Len(s) = i
      BY <1>1, <2>3, <2>7
    <3> HIDE DEF start, top
    <3>2. SubSeq(s \o u, start, top) = SubSeq(u, start - Len(s), top - Len(s))
      BY <2>3, <3>1, SubSeqOfConcat2
    <3> QED
      BY <3>1, <3>2 DEF start, top
  <2> DEFINE x == Command(SubSeq(u, b + 1, i))
  <2>10. CommandsOf(Append(u, ch)) = IF ch = "\n" /\ b < i THEN Append(CommandsOf(u), x) ELSE CommandsOf(u)
    BY <2>1, <2>3, <2>6, CommandsNext
  <2>11. CommandsOf(Append(w, ch)) = IF ch = "\n" /\ b < i THEN Append(CommandsOf(w), x) ELSE CommandsOf(w)
    <3>1. n + b < n + i <=> b < i
      BY <1>1, <2>7
    <3> HIDE DEF w
    <3>2. CommandsOf(Append(w, ch)) =
            IF ch = "\n" /\ n + b < Len(w)
            THEN Append(CommandsOf(w), Command(SubSeq(w, n + b + 1, Len(w)))) ELSE CommandsOf(w)
      BY <2>1, <2>3, <2>8, CommandsNext
    <3> QED
      BY <2>3, <2>9, <3>1, <3>2
  <2>12. Append(CommandsOf(w), x) = CommandsOf(s) \o Append(CommandsOf(u), x)
    <3>1. CommandsOf(s) \in Seq(Seq(Seq(S))) /\ CommandsOf(u) \in Seq(Seq(Seq(S))) /\ x \in Seq(Seq(S))
      <4>1. \A j \in b + 1 .. i : u[j] \in S
        BY <2>3, <2>7
      <4>2. SubSeq(u, b + 1, i) \in Seq(S)
        BY <2>3, <2>7, <4>1, SubSeqProperties
      <4> QED
        BY <2>3, <4>2, CommandsType, WordsType
    <3> HIDE DEF x
    <3> DEFINE a == CommandsOf(s)
               d == CommandsOf(u)
               Q == Seq(Seq(S))
    <3>2. a \in Seq(Q) /\ d \in Seq(Q) /\ x \in Q
      BY <3>1
    <3>3. CommandsOf(w) = a \o d
      BY <2>4
    <3> HIDE DEF a, d, Q
    <3>4. a \o d \in Seq(Q)
      BY <3>2, ConcatProperties
    <3>5. Append(a \o d, x) = (a \o d) \o <<x>>
      BY <3>2, <3>4, AppendIsConcat
    <3>6. Append(d, x) = d \o <<x>>
      BY <3>2, AppendIsConcat
    <3>7. <<x>> \in Seq(Q)
      BY <3>2
    <3>8. Append(a \o d, x) = a \o Append(d, x)
      BY <3>2, <3>5, <3>6, <3>7, ConcatAssociative
    <3> QED
      BY <3>3, <3>8 DEF a, d
  <2>13. CommandsOf(Append(w, ch)) = CommandsOf(s) \o CommandsOf(Append(u, ch))
    BY <2>4, <2>10, <2>11, <2>12
  <2> QED
    BY <2>2, <2>5, <2>13
<1>5. Len(t) \in N
  <2> HIDE DEF N
  <2> QED
    BY <1>1, <1>3, <1>4, AllNaturals
<1>6. upTo(Len(t)) = t
  BY SubSeqFull
<1>7. Len(t) <= Len(t) => CommandsOf(s \o upTo(Len(t))) = CommandsOf(s) \o CommandsOf(upTo(Len(t)))
  BY <1>5
<1> HIDE DEF upTo
<1> QED
  BY <1>1, <1>6, <1>7

(***************************************************************************)
(* The words of a line, as it grows                                        *)
(***************************************************************************)
\* The last word of a line, which may be empty, begins after its last gap g; and the
\* words before that.
LastGap(line, g) ==
  /\ g \in 0 .. Len(line) /\ Gap(line, g)
  /\ \A j \in g + 1 .. Len(line) : ~Gap(line, j)

StartsTo(line, g) == {i \in Starts(line) : i <= g}

\* Those words.
WordsTo(line, g) ==
  [k \in DOMAIN Sorted(StartsTo(line, g)) |-> Word(line, Sorted(StartsTo(line, g))[k])]

\* Every line has a last gap: before its first character, if it has no space.
LEMMA SomeLastGap ==
  ASSUME NEW S, NEW line \in Seq(S)
  PROVE  \E g : LastGap(line, g)
<1> DEFINE X == {j \in 0 .. Len(line) : Gap(line, j)}
<1>1. Len(line) \in Nat /\ X \in SUBSET (0 .. Len(line)) /\ 0 \in X
  BY DEF Gap
<1>2. Max(X) \in X /\ \A x \in X : x <= Max(X)
  BY <1>1, MaxFacts
<1> DEFINE g == Max(X)
<1>3. g \in 0 .. Len(line) /\ Gap(line, g) /\ \A x \in X : x <= g
  BY <1>2
<1> HIDE DEF g
<1>4. \A j \in g + 1 .. Len(line) : ~Gap(line, j)
  <2> SUFFICES ASSUME NEW j \in g + 1 .. Len(line), Gap(line, j) PROVE FALSE
    OBVIOUS
  <2>1. j \in X
    BY <1>1, <1>3
  <2> QED
    BY <1>3, <2>1
<1> QED
  BY <1>3, <1>4 DEF LastGap

\* The words of a line are those that end before its last gap, and what follows the gap.
LEMMA WordsSplit ==
  ASSUME NEW S, NEW line \in Seq(S), NEW g, LastGap(line, g)
  PROVE  /\ Words(line) = Append(WordsTo(line, g), SubSeq(line, g + 1, Len(line)))
         /\ DOMAIN WordsTo(line, g) = 1 .. Len(WordsTo(line, g)) /\ Len(WordsTo(line, g)) \in Nat
         /\ Len(Words(line)) = Len(WordsTo(line, g)) + 1
         /\ Word(line, g + 1) = SubSeq(line, g + 1, Len(line))
         /\ Starts(line) = StartsTo(line, g) \union {g + 1}
<1> DEFINE n == Len(line)
           m == g + 1
           P == StartsTo(line, g)
           c == Cardinality(P)
<1>1. /\ n \in Nat /\ g \in 0 .. n /\ m \in 1 .. n + 1 /\ Gap(line, g) /\ Gap(line, n + 1)
      /\ \A j \in m .. n : ~Gap(line, j)
  BY DEF LastGap, Gap
<1>2. Starts(line) = {i \in 1 .. n + 1 : Gap(line, i - 1) /\ (i = n + 1 \/ ~Gap(line, i))}
  BY DEF Starts
<1>3. P = {i \in Starts(line) : i <= g}
  BY DEF StartsTo
<1> HIDE DEF n, P
<1>4. Starts(line) = P \union {m}
  <2>1. m \in Starts(line)
    <3>1. m - 1 = g /\ (m = n + 1 \/ m \in m .. n)
      BY <1>1
    <3> QED
      BY <1>1, <1>2, <3>1
  <2>2. \A i \in Starts(line) : i <= g \/ i = m
    <3> TAKE i \in Starts(line)
    <3>1. i \in 1 .. n + 1 /\ Gap(line, i - 1)
      BY <1>2
    <3>2. ~ (i - 1 \in m .. n)
      BY <1>1, <3>1
    <3> QED
      BY <1>1, <3>1, <3>2
  <2> QED
    BY <1>3, <2>1, <2>2
<1>5. P \in SUBSET (1 .. g) /\ P \in SUBSET Nat /\ \A i \in P : i < m
  BY <1>1, <1>2, <1>3
<1>6. IsFiniteSet(P) /\ g \in Nat /\ m \in Nat
  <2>1. g \in Nat /\ m \in Nat
    BY <1>1
  <2> QED
    BY <1>5, <2>1, SortedMembers
<1>7. /\ c \in Nat /\ DOMAIN Sorted(P) = 1 .. c
      /\ DOMAIN Sorted(P \union {m}) = 1 .. c + 1
      /\ \A k \in 1 .. c + 1 : Sorted(P \union {m})[k] = IF k \in 1 .. c THEN Sorted(P)[k] ELSE m
  <2> HIDE DEF m
  <2> QED
    BY <1>5, <1>6, SortedAdd
<1> HIDE DEF c, m
<1>8. WordsTo(line, g) = [k \in 1 .. c |-> Word(line, Sorted(P)[k])]
  BY <1>7 DEF WordsTo, P
<1>9. Words(line) = [k \in 1 .. c + 1 |-> Word(line, Sorted(P \union {m})[k])]
  BY <1>4, <1>7 DEF Words
<1>10. Word(line, m) = SubSeq(line, m, n)
  <2> DEFINE X == {j \in m .. n + 1 : Gap(line, j)}
  <2>1. X = {n + 1}
    <3>1. \A j \in m .. n + 1 : j = n + 1 \/ j \in m .. n
      BY <1>1
    <3>2. n + 1 \in m .. n + 1
      BY <1>1
    <3> QED
      BY <1>1, <3>1, <3>2
  <2>2. Min(X) = n + 1
    <3>1. {n + 1} \in SUBSET Nat /\ {n + 1} # {}
      BY <1>1
    <3>2. Min({n + 1}) \in {n + 1}
      BY <3>1, MinFacts
    <3> QED
      BY <2>1, <3>2
  <2>3. Word(line, m) = SubSeq(line, m, Min(X) - 1)
    BY DEF Word, n
  <2>4. (n + 1) - 1 = n
    BY <1>1
  <2> HIDE DEF X
  <2> QED
    BY <2>2, <2>3, <2>4
<1>11. Words(line) = Append(WordsTo(line, g), Word(line, m))
  <2>1. WordsTo(line, g) = [k \in 1 .. c |-> WordsTo(line, g)[k]]
    BY <1>8
  <2>2. Append(WordsTo(line, g), Word(line, m)) =
          [k \in 1 .. c + 1 |-> IF k \in 1 .. c THEN WordsTo(line, g)[k] ELSE Word(line, m)]
    BY <1>7, <2>1, AppendFunction
  <2> QED
    BY <1>7, <1>8, <1>9, <2>2
<1>12. DOMAIN WordsTo(line, g) = 1 .. c /\ Len(WordsTo(line, g)) = c
  BY <1>7, <1>8
<1>13. Len(Words(line)) = c + 1
  BY <1>7, <1>9
<1> QED
  BY <1>4, <1>7, <1>10, <1>11, <1>12, <1>13 DEF m, n, P

\* Words that end before the end of the line stay as they are.
LEMMA WordsToSame ==
  ASSUME NEW S, NEW line \in Seq(S), NEW ch \in S, NEW g, LastGap(line, g)
  PROVE  /\ \A j \in 0 .. Len(line) : Gap(Append(line, ch), j) <=> Gap(line, j)
         /\ Gap(Append(line, ch), Len(line) + 1) <=> IsSpace(ch)
         /\ StartsTo(Append(line, ch), g) = StartsTo(line, g)
         /\ WordsTo(Append(line, ch), g) = WordsTo(line, g)
<1> DEFINE T == Append(line, ch)
           n == Len(line)
           P == StartsTo(line, g)
<1>1. /\ T \in Seq(S) /\ Len(T) = n + 1 /\ n \in Nat
      /\ \A j \in 1 .. n : T[j] = line[j]
      /\ T[n + 1] = ch
  BY AppendProperties
<1>2. g \in 0 .. n /\ Gap(line, g)
  BY DEF LastGap
<1> HIDE DEF T, n
<1>3. \A j \in 0 .. n : Gap(T, j) <=> Gap(line, j)
  <2> TAKE j \in 0 .. n
  <2>1. j # n + 1 /\ j # (n + 1) + 1 /\ (j = 0 \/ j \in 1 .. n)
    BY <1>1
  <2> QED
    BY <1>1, <2>1 DEF Gap, n
<1>4. Gap(T, n + 1) <=> IsSpace(ch)
  <2>1. n + 1 # 0 /\ n + 1 # (n + 1) + 1
    BY <1>1
  <2> QED
    BY <1>1, <2>1 DEF Gap
<1>5. StartsTo(T, g) = P
  <2>1. \A i \in 1 .. g : /\ i \in 1 .. n + 1 /\ i \in 1 .. (n + 1) + 1 /\ i \in 0 .. n /\ i - 1 \in 0 .. n
                          /\ i # n + 1 /\ i # (n + 1) + 1
    BY <1>1, <1>2
  <2>2. \A i \in 1 .. g : i \in Starts(T) <=> i \in Starts(line)
    BY <1>1, <1>3, <2>1 DEF Starts, n
  <2>3. \A i : (i \in Starts(T) \/ i \in Starts(line)) /\ i <= g => i \in 1 .. g
    BY <1>1, <1>2 DEF Starts, n
  <2>4. \A i : i \in StartsTo(T, g) <=> i \in StartsTo(line, g)
    BY <2>2, <2>3 DEF StartsTo
  <2> QED
    BY <2>4 DEF P
<1>6. \A i \in 1 .. g : Word(T, i) = Word(line, i)
  <2> TAKE i \in 1 .. g
  <2> DEFINE X == {j \in i .. n + 1 : Gap(line, j)}
             Y == {j \in i .. (n + 1) + 1 : Gap(T, j)}
             x == Min(X)
             y == Min(Y)
  <2>1. X \in SUBSET Nat /\ Y \in SUBSET Nat
    BY <1>1, <1>2
  <2>2. g \in X /\ g \in Y
    BY <1>1, <1>2, <1>3
  <2>3. /\ x \in X /\ \A j \in X : x <= j
        /\ y \in Y /\ \A j \in Y : y <= j
    BY <2>1, <2>2, MinFacts
  <2>4. Word(line, i) = SubSeq(line, i, x - 1) /\ Word(T, i) = SubSeq(T, i, y - 1)
    BY <1>1 DEF Word, n
  <2>5. x \in i .. g /\ y \in i .. g
    <3>1. x \in i .. n + 1 /\ x <= g /\ y \in i .. (n + 1) + 1 /\ y <= g
      BY <2>2, <2>3
    <3> QED
      BY <1>1, <1>2, <3>1
  <2>6. \A j \in i .. g : j \in X <=> j \in Y
    <3> TAKE j \in i .. g
    <3>1. j \in i .. n + 1 /\ j \in i .. (n + 1) + 1 /\ j \in 0 .. n
      BY <1>1, <1>2
    <3> QED
      BY <1>3, <3>1
  <2> HIDE DEF x, y, X, Y
  <2>7. x = y
    <3>1. x <= y /\ y <= x
      BY <2>3, <2>5, <2>6
    <3> QED
      BY <1>1, <1>2, <2>5, <3>1
  <2>8. SubSeq(T, i, x - 1) = SubSeq(line, i, x - 1)
    <3>1. \A j \in 1 .. (x - 1) - i + 1 : i + j - 1 \in 1 .. n
      BY <1>1, <1>2, <2>5
    <3>2. /\ SubSeq(T, i, x - 1) = [j \in 1 .. (x - 1) - i + 1 |-> T[i + j - 1]]
          /\ SubSeq(line, i, x - 1) = [j \in 1 .. (x - 1) - i + 1 |-> line[i + j - 1]]
      BY <1>1, <1>2, <2>5
    <3> QED
      BY <1>1, <3>1, <3>2
  <2> QED
    BY <2>4, <2>7, <2>8
<1>7. P \in SUBSET (1 .. g)
  BY <1>1, <1>2 DEF StartsTo, Starts, P, n
<1>8. \A k \in DOMAIN Sorted(P) : Sorted(P)[k] \in 1 .. g
  <2>1. g \in Nat
    BY <1>1, <1>2
  <2>2. \A k \in DOMAIN Sorted(P) : Sorted(P)[k] \in P
    BY <1>7, <2>1, SortedMembers
  <2> QED
    BY <1>7, <2>2
<1>9. WordsTo(T, g) = WordsTo(line, g)
  BY <1>5, <1>6, <1>8 DEF WordsTo
<1> QED
  BY <1>3, <1>4, <1>5, <1>9 DEF T, n

\* A part of a sequence, as a function.
LEMMA SubSeqFunction ==
  ASSUME NEW s, NEW m \in Int, NEW n \in Int
  PROVE  SubSeq(s, m, n) = [k \in 1 .. n - m + 1 |-> s[m + k - 1]]
<1> DEFINE S == {s[k] : k \in m .. n}
           t == SubSeq(s, m, n)
<1>1. \A k \in m .. n : s[k] \in S
  OBVIOUS
<1> HIDE DEF S
<1>2. /\ t \in Seq(S) /\ Len(t) = IF m <= n THEN n - m + 1 ELSE 0
      /\ \A k \in 1 .. n - m + 1 : t[k] = s[m + k - 1]
  BY <1>1, SubSeqProperties
<1> HIDE DEF t
<1>3. t = [k \in 1 .. Len(t) |-> t[k]] /\ 1 .. Len(t) = 1 .. n - m + 1
  BY <1>2
<1> QED
  BY <1>2, <1>3 DEF t

\* An empty line has one word, which is empty.
LEMMA WordsEmpty == Words(<<>>) = Append(<<>>, <<>>)
<1>1. <<>> \in Seq({}) /\ Len(<<>>) = 0
  BY EmptySeq
<1>2. LastGap(<<>>, 0)
  BY <1>1 DEF LastGap, Gap
<1>3. StartsTo(<<>>, 0) = {}
  BY <1>1 DEF StartsTo, Starts
<1>4. Words(<<>>) = Append(WordsTo(<<>>, 0), SubSeq(<<>>, 0 + 1, 0))
  BY <1>1, <1>2, WordsSplit
<1>5. Len(WordsTo(<<>>, 0)) = 0 /\ DOMAIN WordsTo(<<>>, 0) = 1 .. 0
  <2>1. DOMAIN WordsTo(<<>>, 0) = DOMAIN Sorted({})
    BY <1>3 DEF WordsTo
  <2>2. DOMAIN Sorted({}) = 1 .. 0
    BY SortedEmpty
  <2>3. DOMAIN WordsTo(<<>>, 0) = 1 .. Len(WordsTo(<<>>, 0)) /\ Len(WordsTo(<<>>, 0)) \in Nat
    BY <1>1, <1>2, WordsSplit
  <2> QED
    BY <2>1, <2>2, <2>3
<1> DEFINE w == WordsTo(<<>>, 0)
<1>6. w = [k \in 1 .. 0 |-> w[k]]
  BY <1>5 DEF WordsTo
<1>7. SubSeq(<<>>, 0 + 1, 0) = <<>>
  BY SubSeqEmpty
<1>8. Words(<<>>) = Append(w, <<>>)
  BY <1>4, <1>7
<1> HIDE DEF w
<1>9. w = <<>>
  <2>1. w \in [1 .. 0 -> {}]
    BY <1>6
  <2>2. w \in Seq({}) /\ Len(w) = 0
    BY <2>1
  <2> QED
    BY <2>2, EmptySeq
<1> QED
  BY <1>8, <1>9

\* One more character: it makes the last word longer, or a space begins another word if
\* there is none yet that is empty.
LEMMA WordsNext ==
  ASSUME NEW S, NEW line \in Seq(S), NEW ch \in S
  PROVE  /\ IsSpace(ch) /\ Gap(line, Len(line)) => Words(Append(line, ch)) = Words(line)
         /\ IsSpace(ch) /\ ~Gap(line, Len(line)) =>
              Words(Append(line, ch)) = Append(Words(line), <<>>)
         /\ ~IsSpace(ch) =>
              Words(Append(line, ch)) =
                [Words(line) EXCEPT ![Len(Words(line))] = Append(@, ch)]
         /\ Len(Words(line)) > 0
<1> DEFINE T == Append(line, ch)
           n == Len(line)
<1>1. PICK g : LastGap(line, g)
  BY SomeLastGap
<1> DEFINE w == WordsTo(line, g)
           last == SubSeq(line, g + 1, n)
           c == Len(w)
<1>2. /\ T \in Seq(S) /\ Len(T) = n + 1 /\ n \in Nat
      /\ \A j \in 1 .. n : T[j] = line[j]
      /\ T[n + 1] = ch
  BY AppendProperties
<1>3. g \in 0 .. n /\ Gap(line, g) /\ \A j \in g + 1 .. n : ~Gap(line, j)
  BY <1>1 DEF LastGap
<1>4. /\ Words(line) = Append(w, last) /\ DOMAIN w = 1 .. c /\ c \in Nat
      /\ Len(Words(line)) = c + 1
      /\ Word(line, g + 1) = last
      /\ Starts(line) = StartsTo(line, g) \union {g + 1}
  BY <1>1, WordsSplit
<1>5. /\ \A j \in 0 .. n : Gap(T, j) <=> Gap(line, j)
      /\ Gap(T, n + 1) <=> IsSpace(ch)
      /\ StartsTo(T, g) = StartsTo(line, g)
      /\ WordsTo(T, g) = w
  BY <1>1, WordsToSame
<1>6. g = n <=> Gap(line, n)
  <2>1. g # n => n \in g + 1 .. n
    BY <1>2, <1>3
  <2> QED
    BY <1>3, <2>1
<1> HIDE DEF T, n
<1>7. SubSeq(T, n + 2, n + 1) = <<>>
  BY <1>2, SubSeqEmpty
<1>8. CASE IsSpace(ch)
  <2>1. LastGap(T, n + 1)
    <3>1. n + 1 \in 0 .. n + 1 /\ (n + 1) + 1 .. n + 1 = {}
      BY <1>2
    <3> QED
      BY <1>2, <1>5, <1>8, <3>1 DEF LastGap
  <2>2. Words(T) = Append(WordsTo(T, n + 1), <<>>)
    <3>1. (n + 1) + 1 = n + 2
      BY <1>2
    <3>2. Words(T) = Append(WordsTo(T, n + 1), SubSeq(T, (n + 1) + 1, Len(T)))
      BY <1>2, <2>1, WordsSplit
    <3> QED
      BY <1>2, <1>7, <3>1, <3>2
  <2>3. \A i \in StartsTo(T, n + 1) : i \in StartsTo(T, g) \/ (i = g + 1 /\ g < n)
    <3> TAKE i \in StartsTo(T, n + 1)
    <3>1. i \in Starts(T) /\ i \in 1 .. n + 1 /\ Gap(T, i - 1) /\ ~Gap(T, i)
      <4>1. i \in 1 .. (n + 1) + 1 /\ i <= n + 1 /\ i \in Starts(T)
        BY <1>2 DEF StartsTo, Starts
      <4>2. i # (n + 1) + 1 /\ i \in 1 .. n + 1
        BY <1>2, <4>1
      <4> QED
        BY <1>2, <4>1, <4>2 DEF Starts
    <3>2. i # n + 1
      BY <1>5, <1>8, <3>1
    <3>3. i \in 0 .. n /\ i - 1 \in 0 .. n /\ ~ (i - 1 \in g + 1 .. n)
      <4>1. i \in 0 .. n /\ i - 1 \in 0 .. n
        BY <1>2, <3>1, <3>2
      <4> QED
        BY <1>3, <1>5, <3>1, <4>1
    <3>4. i <= g \/ (i = g + 1 /\ g < n)
      BY <1>2, <1>3, <3>1, <3>2, <3>3
    <3> QED
      BY <3>1, <3>4 DEF StartsTo
  <2>4. StartsTo(T, g) \subseteq StartsTo(T, n + 1)
    <3> SUFFICES ASSUME NEW i \in StartsTo(T, g) PROVE i <= n + 1
      BY DEF StartsTo
    <3>1. i <= g /\ i \in 1 .. (n + 1) + 1
      BY <1>2 DEF StartsTo, Starts
    <3> QED
      BY <1>2, <1>3, <3>1
  <2>5. CASE g = n
    <3>1. StartsTo(T, n + 1) = StartsTo(T, g)
      <4>1. ~ (g < n)
        BY <1>2, <2>5
      <4>2. \A i : i \in StartsTo(T, n + 1) <=> i \in StartsTo(T, g)
        BY <2>3, <2>4, <4>1
      <4> QED
        BY <4>2
    <3>2. \A i \in StartsTo(T, g) : i \in 1 .. g
      BY <1>2, <1>3 DEF StartsTo, Starts
    <3>3. WordsTo(T, n + 1) = WordsTo(T, g)
      BY <3>1 DEF WordsTo
    <3>4. last = <<>>
      BY <1>2, <2>5, SubSeqEmpty DEF n
    <3> QED
      BY <1>4, <1>5, <1>6, <1>8, <2>2, <2>5, <3>3, <3>4 DEF T, n
  <2>6. CASE g < n
    <3>1. g + 1 \in StartsTo(T, n + 1)
      <4>1. g + 1 \in 1 .. (n + 1) + 1 /\ g + 1 <= n + 1 /\ (g + 1) - 1 = g /\ g + 1 \in 0 .. n
            /\ g + 1 \in g + 1 .. n /\ g \in 0 .. n
        BY <1>2, <1>3, <2>6
      <4>2. Gap(T, g) /\ ~Gap(T, g + 1)
        BY <1>3, <1>5, <4>1
      <4> QED
        BY <1>2, <4>1, <4>2 DEF StartsTo, Starts
    <3>2. StartsTo(T, n + 1) = Starts(line)
      BY <1>4, <1>5, <2>3, <2>4, <3>1
    <3>3. \A i \in 1 .. g + 1 : Word(T, i) = Word(line, i)
      <4>1. LastGap(T, n + 1)
        BY <2>1
      <4> TAKE i \in 1 .. g + 1
      <4> DEFINE X == {j \in i .. n + 1 : Gap(line, j)}
                 Y == {j \in i .. (n + 1) + 1 : Gap(T, j)}
                 x == Min(X)
                 y == Min(Y)
      <4>2. X \in SUBSET Nat /\ Y \in SUBSET Nat
        BY <1>2, <1>3
      <4>3. n + 1 \in X /\ n + 1 \in Y
        <5>1. n + 1 \in i .. n + 1 /\ n + 1 \in i .. (n + 1) + 1
          BY <1>2, <1>3
        <5>2. Gap(line, n + 1)
          BY DEF Gap, n
        <5> QED
          BY <1>5, <1>8, <5>1, <5>2
      <4>4. /\ x \in X /\ \A j \in X : x <= j
            /\ y \in Y /\ \A j \in Y : y <= j
        BY <4>2, <4>3, MinFacts
      <4>5. Word(line, i) = SubSeq(line, i, x - 1) /\ Word(T, i) = SubSeq(T, i, y - 1)
        BY <1>2 DEF Word, n
      <4>6. x \in i .. n + 1 /\ y \in i .. n + 1
        <5>1. x \in i .. n + 1 /\ y \in i .. (n + 1) + 1 /\ y <= n + 1
          BY <4>3, <4>4
        <5> QED
          BY <1>2, <1>3, <5>1
      <4>7. \A j \in i .. n + 1 : j \in X <=> j \in Y
        <5> TAKE j \in i .. n + 1
        <5>1. j \in i .. (n + 1) + 1 /\ (j = n + 1 \/ j \in 0 .. n)
          BY <1>2, <1>3
        <5> QED
          BY <1>5, <4>3, <5>1
      <4> HIDE DEF x, y, X, Y
      <4>8. x = y
        <5>1. x <= y /\ y <= x
          BY <4>4, <4>6, <4>7
        <5> QED
          BY <1>2, <1>3, <4>6, <5>1
      <4>9. SubSeq(T, i, x - 1) = SubSeq(line, i, x - 1)
        <5>1. \A j \in 1 .. (x - 1) - i + 1 : i + j - 1 \in 1 .. n
          BY <1>2, <1>3, <4>6
        <5>2. /\ SubSeq(T, i, x - 1) = [j \in 1 .. (x - 1) - i + 1 |-> T[i + j - 1]]
              /\ SubSeq(line, i, x - 1) = [j \in 1 .. (x - 1) - i + 1 |-> line[i + j - 1]]
          <6>1. i \in Int /\ x - 1 \in Int
            BY <1>2, <1>3, <4>6
          <6> QED
            BY <6>1, SubSeqFunction
        <5> QED
          BY <1>2, <5>1, <5>2
      <4> QED
        BY <4>5, <4>8, <4>9
    <3>4. Starts(line) \in SUBSET (1 .. g + 1) /\ g + 1 \in Nat
      <4>1. StartsTo(line, g) \in SUBSET (1 .. g)
        BY <1>2, <1>3 DEF StartsTo, Starts, n
      <4>2. g + 1 \in 1 .. g + 1 /\ \A i \in 1 .. g : i \in 1 .. g + 1
        BY <1>2, <1>3
      <4>3. g + 1 \in Nat
        BY <1>2, <1>3
      <4> QED
        BY <1>4, <4>1, <4>2, <4>3
    <3>5. \A k \in DOMAIN Sorted(Starts(line)) : Sorted(Starts(line))[k] \in 1 .. g + 1
      <4>1. \A k \in DOMAIN Sorted(Starts(line)) : Sorted(Starts(line))[k] \in Starts(line)
        BY <3>4, SortedMembers
      <4> QED
        BY <3>4, <4>1
    <3>6. WordsTo(T, n + 1) = Words(line)
      BY <3>2, <3>3, <3>5 DEF WordsTo, Words
    <3>7. ~Gap(line, n)
      BY <1>2, <1>3, <1>6, <2>6
    <3>8. Words(T) = Append(Words(line), <<>>)
      BY <2>2, <3>6
    <3>9. Len(Words(line)) > 0
      BY <1>4
    <3> QED
      BY <1>8, <3>7, <3>8, <3>9 DEF T, n
  <2> QED
    BY <1>2, <1>3, <2>5, <2>6
<1>9. CASE ~IsSpace(ch)
  <2>1. LastGap(T, g)
    <3>1. g \in 0 .. n + 1 /\ g \in 0 .. n
      BY <1>2, <1>3
    <3>2. \A j \in g + 1 .. n + 1 : j = n + 1 \/ (j \in g + 1 .. n /\ j \in 0 .. n)
      BY <1>2, <1>3
    <3> QED
      BY <1>2, <1>3, <1>5, <1>9, <3>1, <3>2 DEF LastGap
  <2>2. Words(T) = Append(w, SubSeq(T, g + 1, n + 1))
    BY <1>2, <1>5, <2>1, WordsSplit
  <2>3. SubSeq(T, g + 1, n + 1) = Append(last, ch)
    <3> DEFINE d == n - g
    <3>1. d \in Nat /\ n = g + d /\ n - (g + 1) + 1 = d /\ (n + 1) - (g + 1) + 1 = d + 1
      BY <1>2, <1>3
    <3>2. last = [j \in 1 .. d |-> line[(g + 1) + j - 1]]
      BY <1>2, <1>3, <3>1
    <3>3. SubSeq(T, g + 1, n + 1) = [j \in 1 .. d + 1 |-> T[(g + 1) + j - 1]]
      BY <1>2, <1>3, <3>1
    <3> HIDE DEF d, last
    <3>4. Append(last, ch) = [j \in 1 .. d + 1 |-> IF j \in 1 .. d THEN last[j] ELSE ch]
      BY <3>1, <3>2, AppendFunction
    <3>5. \A j \in 1 .. d + 1 : T[(g + 1) + j - 1] = IF j \in 1 .. d THEN last[j] ELSE ch
      <4> TAKE j \in 1 .. d + 1
      <4>1. CASE j \in 1 .. d
        <5>1. (g + 1) + j - 1 \in 1 .. n
          BY <1>2, <1>3, <3>1, <4>1
        <5> QED
          BY <1>2, <3>2, <4>1, <5>1
      <4>2. CASE j \notin 1 .. d
        <5>1. j = d + 1 /\ (g + 1) + (d + 1) - 1 = n + 1
          BY <1>2, <1>3, <3>1, <4>2
        <5> QED
          BY <1>2, <4>2, <5>1
      <4> QED
        BY <4>1, <4>2
    <3> QED
      BY <3>3, <3>4, <3>5
  <2> HIDE DEF w, last, c
  <2>4. w = [k \in 1 .. c |-> w[k]]
    BY <1>4 DEF w, WordsTo
  <2>5. \A x : Append(w, x) = [k \in 1 .. c + 1 |-> IF k \in 1 .. c THEN w[k] ELSE x]
    BY <1>4, <2>4, AppendFunction
  <2>6. [Append(w, last) EXCEPT ![c + 1] = Append(@, ch)] = Append(w, Append(last, ch))
    <3> DEFINE f == Append(w, last)
               h == Append(w, Append(last, ch))
    <3>1. c + 1 \notin 1 .. c /\ c + 1 \in 1 .. c + 1
      BY <1>4
    <3>2. /\ f = [k \in 1 .. c + 1 |-> IF k \in 1 .. c THEN w[k] ELSE last]
          /\ h = [k \in 1 .. c + 1 |-> IF k \in 1 .. c THEN w[k] ELSE Append(last, ch)]
      BY <2>5
    <3>3. \A k \in 1 .. c + 1 : k \in 1 .. c \/ k = c + 1
      BY <1>4
    <3> HIDE DEF f, h
    <3>4. f[c + 1] = last
      BY <3>1, <3>2
    <3>5. [f EXCEPT ![c + 1] = Append(@, ch)] =
            [k \in 1 .. c + 1 |-> IF k = c + 1 THEN Append(last, ch) ELSE f[k]]
      BY <3>2, <3>4
    <3>6. \A k \in 1 .. c + 1 : h[k] = IF k = c + 1 THEN Append(last, ch) ELSE f[k]
      BY <3>1, <3>2, <3>3
    <3>7. h = [k \in 1 .. c + 1 |-> h[k]]
      BY <3>2
    <3>8. [f EXCEPT ![c + 1] = Append(@, ch)] = h
      BY <3>5, <3>6, <3>7
    <3> QED
      BY <3>8 DEF f, h
  <2>7. Words(T) = [Words(line) EXCEPT ![Len(Words(line))] = Append(@, ch)]
    BY <1>4, <2>2, <2>3, <2>6
  <2>8. Len(Words(line)) > 0
    BY <1>4
  <2> QED
    BY <1>9, <2>7, <2>8 DEF T
<1>10. Len(Words(line)) > 0
  BY <1>4
<1> QED
  BY <1>8, <1>9, <1>10 DEF T, n

(***************************************************************************)
(* Texts that differ in blanked spaces                                     *)
(***************************************************************************)
\* The same text, but for what its spaces are: a parser has blanked some.
Similar(s, t) ==
  /\ Len(s) = Len(t)
  /\ \A i \in 1 .. Len(s) : s[i] = t[i] \/ (IsSpace(s[i]) /\ IsSpace(t[i]))

\* Parts of similar texts are similar.
LEMMA SimilarPart ==
  ASSUME NEW S, NEW s \in Seq(S), NEW t \in Seq(S), Similar(s, t),
         NEW m \in 1 .. Len(s) + 1, NEW n \in 0 .. Len(s)
  PROVE  /\ SubSeq(s, m, n) \in Seq(S) /\ SubSeq(t, m, n) \in Seq(S)
         /\ Similar(SubSeq(s, m, n), SubSeq(t, m, n))
<1>1. m \in Int /\ n \in Int /\ Len(s) \in Nat /\ Len(s) = Len(t) /\ \A i \in m .. n : i \in 1 .. Len(s)
  BY DEF Similar
<1>2. \A i \in m .. n : s[i] \in S /\ t[i] \in S
  BY <1>1
<1>3. /\ SubSeq(s, m, n) \in Seq(S) /\ SubSeq(t, m, n) \in Seq(S)
      /\ Len(SubSeq(s, m, n)) = IF m <= n THEN n - m + 1 ELSE 0
      /\ Len(SubSeq(t, m, n)) = IF m <= n THEN n - m + 1 ELSE 0
      /\ \A i \in 1 .. n - m + 1 : SubSeq(s, m, n)[i] = s[m + i - 1]
      /\ \A i \in 1 .. n - m + 1 : SubSeq(t, m, n)[i] = t[m + i - 1]
  BY <1>1, <1>2, SubSeqProperties
<1>4. \A i \in 1 .. n - m + 1 : m + i - 1 \in 1 .. Len(s)
  BY <1>1
<1>5. 1 .. Len(SubSeq(s, m, n)) = 1 .. n - m + 1
  BY <1>1, <1>3
<1> QED
  BY <1>3, <1>4, <1>5 DEF Similar

\* Similar lines are the same command.
LEMMA SimilarWords ==
  ASSUME NEW S, NEW s \in Seq(S), NEW t \in Seq(S), Similar(s, t)
  PROVE  Command(s) = Command(t)
<1> DEFINE n == Len(s)
<1>1. /\ n \in Nat /\ Len(t) = n
      /\ \A i \in 1 .. n : s[i] = t[i] \/ (IsSpace(s[i]) /\ IsSpace(t[i]))
  BY DEF Similar
<1> HIDE DEF n
<1>2. \A i \in 0 .. n + 1 : Gap(s, i) <=> Gap(t, i)
  <2> TAKE i \in 0 .. n + 1
  <2>1. i = 0 \/ i = n + 1 \/ i \in 1 .. n
    BY <1>1
  <2> QED
    BY <1>1, <2>1 DEF Gap, n
<1>3. Starts(s) = Starts(t)
  <2>1. \A i \in 1 .. n + 1 : i \in 0 .. n + 1 /\ i - 1 \in 0 .. n + 1
    BY <1>1
  <2>2. \A i \in 1 .. n + 1 : i \in Starts(s) <=> i \in Starts(t)
    BY <1>1, <1>2, <2>1 DEF Starts, n
  <2>3. Starts(s) \subseteq 1 .. n + 1 /\ Starts(t) \subseteq 1 .. n + 1
    BY <1>1 DEF Starts, n
  <2> QED
    BY <2>2, <2>3
<1>4. \A i \in 1 .. n + 1 : Word(s, i) = Word(t, i)
  <2> TAKE i \in 1 .. n + 1
  <2> DEFINE X == {j \in i .. n + 1 : Gap(s, j)}
             x == Min(X)
  <2>1. X = {j \in i .. n + 1 : Gap(t, j)}
    <3>1. \A j \in i .. n + 1 : j \in 0 .. n + 1
      BY <1>1
    <3> QED
      BY <1>2, <3>1
  <2>2. Word(s, i) = SubSeq(s, i, x - 1) /\ Word(t, i) = SubSeq(t, i, x - 1)
    BY <1>1, <2>1 DEF Word, n
  <2>3. X \in SUBSET Nat /\ n + 1 \in X
    BY <1>1 DEF Gap, n
  <2>4. x \in i .. n + 1 /\ \A j \in X : x <= j
    BY <2>3, MinFacts
  <2> HIDE DEF x
  <2>5. \A j \in i .. x - 1 : s[j] = t[j]
    <3> TAKE j \in i .. x - 1
    <3>1. j \in 1 .. n /\ j \in i .. n + 1 /\ ~ (x <= j)
      BY <1>1, <2>4
    <3>2. ~Gap(s, j)
      BY <2>4, <3>1
    <3> QED
      BY <1>1, <3>1, <3>2 DEF Gap
  <2>6. i \in Int /\ x - 1 \in Int
    BY <1>1, <2>4
  <2>7. \A k \in 1 .. (x - 1) - i + 1 : i + k - 1 \in i .. x - 1
    BY <2>6
  <2>8. SubSeq(s, i, x - 1) = SubSeq(t, i, x - 1)
    <3>1. /\ SubSeq(s, i, x - 1) = [k \in 1 .. (x - 1) - i + 1 |-> s[i + k - 1]]
          /\ SubSeq(t, i, x - 1) = [k \in 1 .. (x - 1) - i + 1 |-> t[i + k - 1]]
      BY <2>6, SubSeqFunction
    <3> QED
      BY <2>5, <2>7, <3>1
  <2> QED
    BY <2>2, <2>8
<1>5. \A k \in DOMAIN Sorted(Starts(s)) : Sorted(Starts(s))[k] \in 1 .. n + 1
  <2>1. n + 1 \in Nat /\ Starts(s) \in SUBSET (1 .. n + 1)
    BY <1>1 DEF Starts, n
  <2>2. \A k \in DOMAIN Sorted(Starts(s)) : Sorted(Starts(s))[k] \in Starts(s)
    BY <2>1, SortedMembers
  <2> QED
    BY <2>1, <2>2
<1>6. Words(s) = Words(t)
  BY <1>3, <1>4, <1>5 DEF Words
<1> QED
  BY <1>6 DEF Command

\* Similar texts are the same commands.
LEMMA SimilarCommands ==
  ASSUME NEW S, NEW s \in Seq(S), NEW t \in Seq(S), Similar(s, t)
  PROVE  CommandsOf(s) = CommandsOf(t)
<1> DEFINE n == Len(s)
<1>1. /\ n \in Nat /\ Len(t) = n
      /\ \A i \in 1 .. n : s[i] = t[i] \/ (IsSpace(s[i]) /\ IsSpace(t[i]))
  BY DEF Similar
<1> HIDE DEF n
<1>2. \A i \in 1 .. n : s[i] = "\n" <=> t[i] = "\n"
  BY <1>1 DEF IsSpace, Nul
<1>3. Ends(s) = Ends(t)
  <2>1. \A i \in 2 .. n : i \in 1 .. n /\ i - 1 \in 1 .. n
    BY <1>1
  <2>2. \A i \in 2 .. n : i \in Ends(s) <=> i \in Ends(t)
    BY <1>1, <1>2, <2>1 DEF Ends, n
  <2>3. Ends(s) \subseteq 2 .. n /\ Ends(t) \subseteq 2 .. n
    BY <1>1 DEF Ends, n
  <2> QED
    BY <2>2, <2>3
<1>4. \A i \in 1 .. n : Command(Line(s, i)) = Command(Line(t, i))
  <2> TAKE i \in 1 .. n
  <2> DEFINE X == {j \in 0 .. i - 1 : j = 0 \/ s[j] = "\n"}
             m == Max(X)
  <2>1. X = {j \in 0 .. i - 1 : j = 0 \/ t[j] = "\n"}
    <3>1. \A j \in 0 .. i - 1 : j = 0 \/ j \in 1 .. n
      BY <1>1
    <3> QED
      BY <1>2, <3>1
  <2>2. X \in SUBSET (0 .. i - 1) /\ 0 \in X /\ i - 1 \in Nat
    BY <1>1
  <2>3. m \in 0 .. i - 1
    BY <2>2, MaxFacts
  <2>4. Line(s, i) = SubSeq(s, m + 1, i - 1) /\ Line(t, i) = SubSeq(t, m + 1, i - 1)
    BY <2>1 DEF Line
  <2> HIDE DEF m
  <2>5. m + 1 \in 1 .. Len(s) + 1 /\ i - 1 \in 0 .. Len(s)
    BY <1>1, <2>3 DEF n
  <2>6. /\ Similar(SubSeq(s, m + 1, i - 1), SubSeq(t, m + 1, i - 1))
        /\ SubSeq(s, m + 1, i - 1) \in Seq(S) /\ SubSeq(t, m + 1, i - 1) \in Seq(S)
    BY <2>5, SimilarPart
  <2> QED
    BY <2>4, <2>6, SimilarWords
<1>5. \A k \in DOMAIN Sorted(Ends(s)) : Sorted(Ends(s))[k] \in 1 .. n
  <2>1. Ends(s) \in SUBSET (1 .. n)
    BY <1>1 DEF Ends, n
  <2>2. \A k \in DOMAIN Sorted(Ends(s)) : Sorted(Ends(s))[k] \in Ends(s)
    BY <1>1, <2>1, SortedMembers
  <2> QED
    BY <2>1, <2>2
<1> QED
  BY <1>3, <1>4, <1>5 DEF CommandsOf

(***************************************************************************)
(* What one turn of the parser does                                        *)
(***************************************************************************)
\* ArgV and Buffer have room for something.
LEMMA Limits ==
  MaxWords \in Nat /\ MaxWords > 0 /\ CommandBuffer \in Nat /\ CommandBuffer > 0
<1>1. MaxWords \in Nat \ {0} /\ CommandBuffer \in Nat \ {0}
  BY ControlAssumption
<1> QED
  BY <1>1

\* What fits of some words in ArgV.
Kept(words) == SubSeq(words, 1, Min({MaxWords, Len(words)}))

\* Words that fit are all kept, and of more the first MaxWords.
LEMMA KeptFacts ==
  ASSUME NEW S, NEW w \in Seq(S)
  PROVE  /\ Len(w) <= MaxWords => Kept(w) = w
         /\ ~ (Len(w) <= MaxWords) => Kept(w) = [k \in 1 .. MaxWords |-> w[k]]
         /\ Len(w) < MaxWords <=> Len(Kept(w)) < MaxWords
         /\ Len(Kept(w)) \in Nat
<1> DEFINE c == Len(w)
           m == Min({MaxWords, c})
<1>1. c \in Nat /\ MaxWords \in Nat /\ MaxWords > 0
  BY Limits
<1>2. m \in {MaxWords, c} /\ m <= MaxWords /\ m <= c
  <2>1. {MaxWords, c} \in SUBSET Nat /\ {MaxWords, c} # {}
    BY <1>1
  <2> QED
    BY <2>1, MinFacts
<1> HIDE DEF m
<1>3. m = IF c <= MaxWords THEN c ELSE MaxWords
  BY <1>1, <1>2
<1>4. Kept(w) = SubSeq(w, 1, m)
  BY DEF Kept, m
<1>5. c <= MaxWords => Kept(w) = w
  BY <1>3, <1>4, SubSeqFull
<1>6. ~ (c <= MaxWords) => Kept(w) = [k \in 1 .. MaxWords |-> w[k]]
  <2> SUFFICES ASSUME ~ (c <= MaxWords) PROVE Kept(w) = [k \in 1 .. MaxWords |-> w[k]]
    OBVIOUS
  <2>1. 1 \in Int /\ MaxWords \in Int /\ MaxWords - 1 + 1 = MaxWords
    BY <1>1
  <2>2. SubSeq(w, 1, MaxWords) = [k \in 1 .. MaxWords - 1 + 1 |-> w[1 + k - 1]]
    BY <2>1, SubSeqFunction
  <2>3. \A k \in 1 .. MaxWords : 1 + k - 1 = k
    BY <1>1
  <2> QED
    BY <1>3, <1>4, <2>1, <2>2, <2>3
<1>7. ~ (c <= MaxWords) => Len(Kept(w)) = MaxWords
  BY <1>1, <1>6
<1> QED
  BY <1>1, <1>5, <1>6, <1>7

\* A word that is opened is kept if there is room for it.
LEMMA KeptNext ==
  ASSUME NEW S, NEW w \in Seq(S), NEW x \in S
  PROVE  /\ Kept(Append(w, x)) =
              IF Len(Kept(w)) < MaxWords THEN Append(Kept(w), x) ELSE Kept(w)
         /\ Len(Append(w, x)) <= MaxWords <=> Len(Kept(w)) < MaxWords
<1> DEFINE t == Append(w, x)
           c == Len(w)
<1>1. /\ t \in Seq(S) /\ Len(t) = c + 1 /\ c \in Nat /\ MaxWords \in Nat
      /\ \A k \in 1 .. c : t[k] = w[k]
  BY AppendProperties, Limits
<1> HIDE DEF t
<1>2. Len(t) <= MaxWords <=> Len(Kept(w)) < MaxWords
  BY <1>1, KeptFacts
<1>3. CASE Len(t) <= MaxWords
  <2>1. Kept(t) = t /\ Kept(w) = w
    BY <1>1, <1>3, KeptFacts
  <2> QED
    BY <1>2, <1>3, <2>1 DEF t
<1>4. CASE ~ (Len(t) <= MaxWords)
  <2>1. Kept(t) = [k \in 1 .. MaxWords |-> t[k]]
    BY <1>1, <1>4, KeptFacts
  <2>2. MaxWords <= c /\ \A k \in 1 .. MaxWords : k \in 1 .. c
    BY <1>1, <1>4
  <2>3. Kept(t) = [k \in 1 .. MaxWords |-> w[k]]
    BY <1>1, <2>1, <2>2
  <2>4. CASE c = MaxWords
    <3>1. Kept(w) = w /\ w = [k \in 1 .. c |-> w[k]]
      BY <1>1, <2>4, KeptFacts
    <3>2. Kept(t) = Kept(w)
      BY <2>3, <2>4, <3>1
    <3> QED
      BY <1>2, <1>4, <3>2 DEF t
  <2>5. CASE c # MaxWords
    <3>1. ~ (c <= MaxWords)
      BY <1>1, <2>2, <2>5
    <3>2. Kept(w) = [k \in 1 .. MaxWords |-> w[k]]
      BY <3>1, KeptFacts
    <3> QED
      BY <1>2, <1>4, <2>3, <3>2 DEF t
  <2> QED
    BY <2>4, <2>5
<1> QED
  BY <1>3, <1>4

\* A letter makes the last word longer, if that word was kept.
LEMMA KeptLonger ==
  ASSUME NEW S, NEW w \in Seq(S), Len(w) > 0, NEW x \in S
  PROVE  /\ Kept([w EXCEPT ![Len(w)] = x]) =
              IF Len(w) <= MaxWords THEN [Kept(w) EXCEPT ![Len(Kept(w))] = x] ELSE Kept(w)
         /\ Len([w EXCEPT ![Len(w)] = x]) = Len(w)
<1> DEFINE c == Len(w)
           t == [w EXCEPT ![c] = x]
<1>1. c \in 1 .. Len(w) /\ c \in Nat /\ MaxWords \in Nat
  BY Limits
<1>2. t \in Seq(S) /\ Len(t) = c /\ \A k \in 1 .. c : t[k] = IF k = c THEN x ELSE w[k]
  <2>1. \A i \in 1 .. Len(w) : /\ [w EXCEPT ![i] = x] \in Seq(S)
                              /\ Len([w EXCEPT ![i] = x]) = Len(w)
                              /\ \A k \in 1 .. Len(w) : [w EXCEPT ![i] = x][k] = IF k = i THEN x ELSE w[k]
    BY ExceptSeq
  <2> QED
    BY <1>1, <2>1
<1> HIDE DEF t
<1>3. CASE c <= MaxWords
  <2>1. Kept(t) = t /\ Kept(w) = w
    BY <1>2, <1>3, KeptFacts
  <2> QED
    BY <1>2, <1>3, <2>1 DEF t
<1>4. CASE ~ (c <= MaxWords)
  <2>1. /\ Kept(t) = [k \in 1 .. MaxWords |-> t[k]]
        /\ Kept(w) = [k \in 1 .. MaxWords |-> w[k]]
    BY <1>2, <1>4, KeptFacts
  <2>2. \A k \in 1 .. MaxWords : k \in 1 .. c /\ k # c
    BY <1>1, <1>4
  <2>3. Kept(t) = Kept(w)
    BY <1>2, <2>1, <2>2
  <2> QED
    BY <1>2, <1>4, <2>3 DEF t
<1> QED
  BY <1>3, <1>4

\* The loop, turn by turn.
Start(text) == [text |-> text, state |-> "crlf", words |-> <<>>, kept |-> FALSE, spent |-> 0,
                lines |-> <<>>]

\* What the parser has been after each of the first n turns.
Turns(f, text, n) ==
  f = [i \in 0 .. n |-> IF i = 0 THEN Start(text) ELSE ParseCharacter(f[i - 1], i)]

\* Parse is its turns, one after the other.
LEMMA ParseTurns ==
  ASSUME NEW S, NEW text \in Seq(S)
  PROVE  \E f : /\ f[0] = Start(text)
                /\ \A i \in 1 .. Len(text) : f[i] = ParseCharacter(f[i - 1], i)
                /\ Parse(text) = f[Len(text)]
<1> DEFINE N == {n \in Nat : \E f : Turns(f, text, n)}
<1>1. 0 \in N
  <2> DEFINE f == [i \in 0 .. 0 |-> Start(text)]
  <2>1. \A i \in 0 .. 0 : i = 0
    OBVIOUS
  <2>2. Turns(f, text, 0)
    BY <2>1 DEF Turns
  <2> QED
    BY <2>2
<1>2. ASSUME NEW n \in Nat, n \in N PROVE n + 1 \in N
  <2>1. PICK f : Turns(f, text, n)
    BY <1>2
  <2> DEFINE g == [i \in 0 .. n + 1 |-> IF i <= n THEN f[i] ELSE ParseCharacter(f[n], n + 1)]
  <2>2. \A i \in 0 .. n : f[i] = IF i = 0 THEN Start(text) ELSE ParseCharacter(f[i - 1], i)
    BY <2>1 DEF Turns
  <2>3. \A i \in 0 .. n + 1 : g[i] = IF i = 0 THEN Start(text) ELSE ParseCharacter(g[i - 1], i)
    <3> TAKE i \in 0 .. n + 1
    <3>1. CASE i = 0
      BY <2>2, <3>1
    <3>2. CASE i # 0 /\ i <= n
      <4>1. i \in 0 .. n /\ i - 1 \in 0 .. n + 1 /\ i - 1 <= n
        BY <3>2
      <4> QED
        BY <2>2, <3>2, <4>1
    <3>3. CASE ~ (i <= n)
      <4>1. i = n + 1 /\ i - 1 = n /\ n \in 0 .. n + 1 /\ n <= n /\ i # 0
        BY <3>3
      <4> QED
        BY <3>3, <4>1
    <3> QED
      BY <3>1, <3>2, <3>3
  <2>4. g = [i \in 0 .. n + 1 |-> g[i]]
    OBVIOUS
  <2> HIDE DEF g
  <2>5. Turns(g, text, n + 1)
    BY <2>3, <2>4 DEF Turns
  <2> QED
    BY <2>5
<1>3. Len(text) \in N
  <2> HIDE DEF N
  <2>1. Len(text) \in Nat
    OBVIOUS
  <2> QED
    BY <1>1, <1>2, <2>1, AllNaturals
<1>4. \A x : (CHOOSE q \in {x} : TRUE) = x
  OBVIOUS
<1>5. \A f, i : (CHOOSE q \in {ParseCharacter(p, i) : p \in {f[i - 1]}} : TRUE) = ParseCharacter(f[i - 1], i)
  <2> TAKE f, i
  <2>1. {ParseCharacter(p, i) : p \in {f[i - 1]}} = {ParseCharacter(f[i - 1], i)}
    OBVIOUS
  <2> QED
    BY <1>4, <2>1
<1> DEFINE F == CHOOSE f : Turns(f, text, Len(text))
<1>6. Parse(text) = F[Len(text)]
  <2>1. \A f, i : (IF i = 0 THEN Start(text)
                   ELSE CHOOSE q \in {ParseCharacter(p, i) : p \in {f[i - 1]}} : TRUE) =
                  IF i = 0 THEN Start(text) ELSE ParseCharacter(f[i - 1], i)
    BY <1>5
  <2> DEFINE G == CHOOSE f : f = [i \in 0 .. Len(text) |->
                    IF i = 0 THEN Start(text)
                    ELSE CHOOSE q \in {ParseCharacter(p, i) : p \in {f[i - 1]}} : TRUE]
  <2>2. Parse(text) = G[Len(text)]
    BY DEF Parse, Start
  <2>3. \A f : Turns(f, text, Len(text)) <=>
               f = [i \in 0 .. Len(text) |->
                    IF i = 0 THEN Start(text)
                    ELSE CHOOSE q \in {ParseCharacter(p, i) : p \in {f[i - 1]}} : TRUE]
    <3> TAKE f
    <3>1. [i \in 0 .. Len(text) |->
             IF i = 0 THEN Start(text)
             ELSE CHOOSE q \in {ParseCharacter(p, i) : p \in {f[i - 1]}} : TRUE] =
          [i \in 0 .. Len(text) |-> IF i = 0 THEN Start(text) ELSE ParseCharacter(f[i - 1], i)]
      BY <2>1, Zenon
    <3> QED
      BY <3>1 DEF Turns
  <2>4. G = F
    BY <2>3, Zenon
  <2> QED
    BY <2>2, <2>4
<1>7. Turns(F, text, Len(text))
  BY <1>3
<1> HIDE DEF F
<1>8. Len(text) \in Nat /\ \A i \in 0 .. Len(text) : F[i] = IF i = 0 THEN Start(text) ELSE ParseCharacter(F[i - 1], i)
  BY <1>7 DEF Turns
<1> QED
  BY <1>6, <1>8

\* What can stand in the buffer.
Bytes == Characters \union {Nul}

\* The states of the parser.
ParseStates ==
  [text : Seq(Bytes), state : {"crlf", "whitespace", "word"}, words : Seq(Seq(Bytes)),
   kept : BOOLEAN, spent : Nat, lines : Seq(Seq(Seq(Bytes)))]

\* The state in which a turn is in a word.
Opened(p) == IF p.state = "word" THEN p ELSE OpenWord(p)

\* Opening a word changes the words only.
LEMMA OpenedFacts ==
  ASSUME NEW p \in ParseStates
  PROVE  /\ Opened(p) \in ParseStates
         /\ Opened(p).text = p.text /\ Opened(p).spent = p.spent /\ Opened(p).lines = p.lines
         /\ Opened(p).state = "word"
         /\ p.state = "word" => Opened(p).words = p.words /\ Opened(p).kept = p.kept
         /\ p.state # "word" =>
              /\ Opened(p).words = IF Len(p.words) < MaxWords THEN Append(p.words, <<>>) ELSE p.words
              /\ Opened(p).kept <=> Len(p.words) < MaxWords
<1>1. <<>> \in Seq(Bytes)
  OBVIOUS
<1>2. Append(p.words, <<>>) \in Seq(Seq(Bytes))
  <2>1. p.words \in Seq(Seq(Bytes))
    BY DEF ParseStates
  <2> QED
    BY <1>1, <2>1, AppendProperties
<1>3. CASE p.state = "word"
  BY <1>3 DEF Opened
<1>4. CASE p.state # "word"
  <2> DEFINE w == IF Len(p.words) < MaxWords THEN Append(p.words, <<>>) ELSE p.words
             k == (Len(p.words) < MaxWords)
  <2>1. w \in Seq(Seq(Bytes)) /\ k \in BOOLEAN
    BY <1>2 DEF ParseStates
  <2>2. Opened(p) = [p EXCEPT !.state = "word", !.words = w, !.kept = k]
    BY <1>4 DEF Opened, OpenWord
  <2> HIDE DEF w, k
  <2>3. /\ Opened(p) \in ParseStates /\ Opened(p).text = p.text /\ Opened(p).spent = p.spent
        /\ Opened(p).lines = p.lines /\ Opened(p).state = "word"
        /\ Opened(p).words = w /\ Opened(p).kept = k
    BY <2>1, <2>2 DEF ParseStates
  <2> QED
    BY <1>4, <2>3 DEF w, k
<1> QED
  BY <1>3, <1>4

\* What a turn does, by what it finds.
Blanked(text, i) == [text EXCEPT ![i] = Nul]

Turned(p, i, q) ==
  /\ p.state = "word" /\ IsSpace(p.text[i]) =>
       /\ q.text = Blanked(p.text, i) /\ q.state = "whitespace" /\ q.words = p.words
       /\ q.spent = p.spent /\ q.lines = p.lines
  /\ p.state # "word" /\ IsSpace(p.text[i]) =>
       /\ q.text = p.text /\ q.state = "whitespace" /\ q.words = p.words
       /\ q.spent = p.spent /\ q.lines = p.lines
  /\ p.state = "crlf" /\ p.text[i] = "\n" => q = p
  /\ p.state # "crlf" /\ p.text[i] = "\n" =>
       /\ q.text = Blanked(p.text, i) /\ q.state = "crlf" /\ q.words = <<>>
       /\ q.spent = i /\ q.lines = Append(p.lines, Opened(p).words)
  /\ ~IsSpace(p.text[i]) /\ p.text[i] # "\n" =>
       /\ q.text = p.text /\ q.state = "word" /\ q.kept = Opened(p).kept
       /\ q.words = IF Opened(p).kept
                    THEN [Opened(p).words EXCEPT ![Len(Opened(p).words)] = Append(@, p.text[i])]
                    ELSE Opened(p).words
       /\ q.spent = p.spent /\ q.lines = p.lines

\* A turn does what Turned says.
LEMMA Turn ==
  ASSUME NEW p \in ParseStates, NEW i \in 1 .. Len(p.text), NEW q, q = ParseCharacter(p, i)
  PROVE  q \in ParseStates /\ Turned(p, i, q)
<1> DEFINE o == Opened(p)
           ch == p.text[i]
<1>1. /\ o \in ParseStates
      /\ o.text = p.text /\ o.spent = p.spent /\ o.lines = p.lines /\ o.state = "word"
  BY OpenedFacts
<1>2. p.state = "word" => o = p
  BY DEF Opened
<1>3. IsSpace(ch) => ch # "\n"
  BY DEF IsSpace, Nul
<1>4. p.state = "word" \/ ~IsSpace(ch) =>
        (p.state = "crlf" /\ ch = "\n") \/ q = InWord(o, i)
  BY DEF ParseCharacter, Opened
<1>5. ch \in Bytes /\ i \in Nat /\ Nul \in Bytes /\ Blanked(p.text, i) \in Seq(Bytes)
  <2>1. p.text \in Seq(Bytes) /\ Nul \in Bytes
    BY DEF ParseStates, Bytes
  <2>2. ch \in Bytes /\ i \in Nat
    BY <2>1
  <2>3. Blanked(p.text, i) \in Seq(Bytes)
    BY <2>1, ExceptSeq DEF Blanked
  <2> QED
    BY <2>1, <2>2, <2>3
<1>6. o.lines \in Seq(Seq(Seq(Bytes))) /\ o.words \in Seq(Seq(Bytes)) /\ o.kept \in BOOLEAN
  BY <1>1 DEF ParseStates
<1>13. o.text[i] = ch
  BY <1>1
<1> HIDE DEF ch, o
<1>7. CASE p.state = "word" /\ IsSpace(ch)
  <2>1. q = Blank([o EXCEPT !.state = "whitespace"], i)
    BY <1>3, <1>4, <1>7, <1>13 DEF InWord
  <2>2. q = [[o EXCEPT !.state = "whitespace"] EXCEPT !.text = Blanked(p.text, i)]
    BY <1>1, <2>1 DEF Blank, Blanked, ParseStates
  <2>3. /\ q \in ParseStates /\ q.text = Blanked(p.text, i) /\ q.state = "whitespace"
        /\ q.words = o.words /\ q.spent = o.spent /\ q.lines = o.lines
    BY <1>1, <1>5, <2>2 DEF ParseStates
  <2> QED
    BY <1>1, <1>2, <1>3, <1>7, <2>3 DEF ch, Turned
<1>8. CASE p.state # "word" /\ IsSpace(ch)
  <2>1. q = [p EXCEPT !.state = "whitespace"]
    BY <1>3, <1>8 DEF ParseCharacter, ch
  <2>2. /\ q \in ParseStates /\ q.text = p.text /\ q.state = "whitespace"
        /\ q.words = p.words /\ q.spent = p.spent /\ q.lines = p.lines
    BY <2>1 DEF ParseStates
  <2> QED
    BY <1>3, <1>8, <2>2 DEF ch, Turned
<1>9. CASE p.state = "crlf" /\ ch = "\n"
  <2>1. q = p
    BY <1>3, <1>9 DEF ParseCharacter, ch
  <2> QED
    BY <1>3, <1>9, <2>1 DEF ch, Turned
<1>10. CASE p.state # "crlf" /\ ch = "\n"
  <2>1. q = Blank([o EXCEPT !.state = "crlf", !.words = <<>>, !.spent = i,
                            !.lines = Append(o.lines, o.words)], i)
    BY <1>1, <1>3, <1>4, <1>10 DEF InWord, ch
  <2> DEFINE x == Append(o.lines, o.words)
  <2>2. x \in Seq(Seq(Seq(Bytes))) /\ <<>> \in Seq(Seq(Bytes))
    BY <1>6, AppendProperties
  <2> HIDE DEF x
  <2>3. q = [[o EXCEPT !.state = "crlf", !.words = <<>>, !.spent = i, !.lines = x]
               EXCEPT !.text = Blanked(p.text, i)]
    BY <1>1, <2>1 DEF Blank, Blanked, ParseStates, x
  <2>4. /\ q \in ParseStates /\ q.text = Blanked(p.text, i) /\ q.state = "crlf"
        /\ q.words = <<>> /\ q.spent = i /\ q.lines = x
    BY <1>1, <1>5, <2>2, <2>3 DEF ParseStates
  <2> QED
    BY <1>1, <1>3, <1>10, <2>4 DEF ch, o, x, Turned
<1>11. CASE ~IsSpace(ch) /\ ch # "\n"
  <2> DEFINE x == IF o.kept THEN [o.words EXCEPT ![Len(o.words)] = Append(@, ch)] ELSE o.words
  <2>1. q = [o EXCEPT !.words = x]
    BY <1>4, <1>11, <1>13 DEF InWord
  <2>2. x \in Seq(Seq(Bytes))
    <3> DEFINE w == o.words
    <3>1. w \in Seq(Seq(Bytes)) /\ Len(w) \in Nat /\ DOMAIN w = 1 .. Len(w)
      BY <1>6
    <3> HIDE DEF w
    <3>2. CASE Len(w) = 0
      <4>1. [w EXCEPT ![Len(w)] = Append(@, ch)] = w
        BY <3>1, <3>2
      <4> QED
        BY <3>1, <4>1 DEF w
    <3>3. CASE Len(w) # 0
      <4>1. Len(w) \in 1 .. Len(w)
        BY <3>1, <3>3
      <4>2. Append(w[Len(w)], ch) \in Seq(Bytes)
        BY <1>5, <3>1, <4>1, AppendProperties
      <4> DEFINE e == Append(w[Len(w)], ch)
                 l == Len(w)
      <4>3. e \in Seq(Bytes) /\ l \in 1 .. Len(w)
        BY <4>1, <4>2
      <4> HIDE DEF e, l
      <4>4. [w EXCEPT ![l] = e] \in Seq(Seq(Bytes))
        BY <3>1, <4>3, ExceptSeq
      <4> QED
        BY <3>1, <4>4 DEF w, e, l
    <3> QED
      BY <3>2, <3>3
  <2> HIDE DEF x
  <2>3. /\ q \in ParseStates /\ q.text = o.text /\ q.state = "word" /\ q.kept = o.kept
        /\ q.words = x /\ q.spent = o.spent /\ q.lines = o.lines
    BY <1>1, <2>1, <2>2 DEF ParseStates
  <2> QED
    BY <1>1, <1>11, <2>3 DEF ch, o, x, Turned
<1>12. p.state \in {"crlf", "whitespace", "word"}
  BY DEF ParseStates
<1> QED
  BY <1>7, <1>8, <1>9, <1>10, <1>11, <1>12

\* What a parser that is in a line has of its words.
InLine(p, line) ==
  /\ Opened(p).words = Command(line)
  /\ Opened(p).kept <=> Len(Words(line)) <= MaxWords

\* A parser that has no words yet is at the start of a line.
LEMMA InEmptyLine ==
  ASSUME NEW p \in ParseStates, p.state = "crlf", p.words = <<>>
  PROVE  InLine(p, <<>>)
<1>1. <<>> \in Seq(Seq(Bytes)) /\ <<>> \in Seq(Bytes) /\ Len(<<>>) = 0
  BY EmptySeq
<1>2. Kept(<<>>) = <<>>
  <2>1. Len(<<>>) <= MaxWords
    BY <1>1, Limits
  <2> QED
    BY <1>1, <2>1, KeptFacts
<1>3. /\ Kept(Append(<<>>, <<>>)) = IF Len(Kept(<<>>)) < MaxWords THEN Append(Kept(<<>>), <<>>) ELSE Kept(<<>>)
      /\ Len(Append(<<>>, <<>>)) <= MaxWords <=> Len(Kept(<<>>)) < MaxWords
  BY <1>1, KeptNext
<1>4. Command(<<>>) = Kept(Append(<<>>, <<>>)) /\ Words(<<>>) = Append(<<>>, <<>>)
  BY WordsEmpty DEF Command, Kept
<1>5. p.state # "word"
  OBVIOUS
<1>6. /\ Opened(p).words = IF Len(p.words) < MaxWords THEN Append(p.words, <<>>) ELSE p.words
      /\ Opened(p).kept <=> Len(p.words) < MaxWords
  BY <1>5, OpenedFacts
<1> QED
  BY <1>2, <1>3, <1>4, <1>6 DEF InLine

\* A space ends the last word of the line.
LEMMA InLineSpace ==
  ASSUME NEW p \in ParseStates, NEW q \in ParseStates, NEW line \in Seq(Bytes), NEW ch \in Bytes,
         InLine(p, line), IsSpace(ch), q.state = "whitespace", q.words = p.words,
         p.state = "word" <=> ~Gap(line, Len(line))
  PROVE  InLine(q, Append(line, ch))
<1> DEFINE w == Words(line)
           t == Append(line, ch)
<1>1. w \in Seq(Seq(Bytes)) /\ Command(line) = Kept(w) /\ Command(t) = Kept(Words(t))
  BY WordsType DEF Command, Kept
<1>2. q.state # "word"
  OBVIOUS
<1>3. /\ Opened(q).words = IF Len(p.words) < MaxWords THEN Append(p.words, <<>>) ELSE p.words
      /\ Opened(q).kept <=> Len(p.words) < MaxWords
  BY <1>2, OpenedFacts
<1>4. CASE p.state = "word"
  <2>1. p.words = Kept(w)
    BY <1>1, <1>4, OpenedFacts DEF InLine
  <2>2. Words(t) = Append(w, <<>>)
    BY <1>4, WordsNext
  <2>3. <<>> \in Seq(Bytes)
    OBVIOUS
  <2> HIDE DEF w, t
  <2>4. /\ Kept(Append(w, <<>>)) = IF Len(Kept(w)) < MaxWords THEN Append(Kept(w), <<>>) ELSE Kept(w)
        /\ Len(Append(w, <<>>)) <= MaxWords <=> Len(Kept(w)) < MaxWords
    BY <1>1, <2>3, KeptNext
  <2>5. InLine(q, t)
    BY <1>1, <1>3, <2>1, <2>2, <2>4 DEF InLine
  <2> QED
    BY <2>5 DEF t
<1>5. CASE p.state # "word"
  <2>1. Words(t) = w
    BY <1>5, WordsNext
  <2>2. /\ Opened(p).words = IF Len(p.words) < MaxWords THEN Append(p.words, <<>>) ELSE p.words
        /\ Opened(p).kept <=> Len(p.words) < MaxWords
    BY <1>5, OpenedFacts
  <2> HIDE DEF t
  <2>3. InLine(q, t)
    BY <1>1, <1>3, <2>1, <2>2 DEF InLine
  <2> QED
    BY <2>3 DEF t
<1> QED
  BY <1>4, <1>5

\* A letter makes the last word of the line longer, or begins one.
LEMMA InLineLetter ==
  ASSUME NEW p \in ParseStates, NEW q \in ParseStates, NEW line \in Seq(Bytes), NEW ch \in Bytes,
         InLine(p, line), ~IsSpace(ch), q.state = "word", q.kept = Opened(p).kept,
         q.words = IF Opened(p).kept
                   THEN [Opened(p).words EXCEPT ![Len(Opened(p).words)] = Append(@, ch)]
                   ELSE Opened(p).words
  PROVE  InLine(q, Append(line, ch))
<1> DEFINE w == Words(line)
           t == Append(line, ch)
           o == Opened(p)
           c == Len(w)
           x == Append(w[c], ch)
<1>1. w \in Seq(Seq(Bytes)) /\ Command(line) = Kept(w) /\ Command(t) = Kept(Words(t))
  BY WordsType DEF Command, Kept
<1>2. c > 0 /\ Words(t) = [w EXCEPT ![c] = x]
  BY WordsNext
<1>3. x \in Seq(Bytes)
  <2>1. c \in 1 .. Len(w)
    BY <1>1, <1>2
  <2> QED
    BY <1>1, <2>1, AppendProperties
<1>4. o.words = Kept(w) /\ (o.kept <=> c <= MaxWords)
  BY <1>1 DEF InLine
<1>5. q.words = IF o.kept THEN [o.words EXCEPT ![Len(o.words)] = Append(o.words[Len(o.words)], ch)] ELSE o.words
  OBVIOUS
<1>6. Opened(q).words = q.words /\ Opened(q).kept = q.kept /\ q.kept = o.kept
  BY DEF Opened
<1> HIDE DEF w, t, o, c, x
<1>7. /\ Kept([w EXCEPT ![c] = x]) = IF c <= MaxWords THEN [Kept(w) EXCEPT ![Len(Kept(w))] = x] ELSE Kept(w)
      /\ Len([w EXCEPT ![c] = x]) = c
  BY <1>1, <1>2, <1>3, KeptLonger DEF c
<1>8. c <= MaxWords => Kept(w) = w
  BY <1>1, KeptFacts DEF c
<1>9. c <= MaxWords => Append(o.words[Len(o.words)], ch) = x
  BY <1>4, <1>8 DEF c, x
<1>10. q.words = Kept(Words(t))
  BY <1>2, <1>4, <1>5, <1>7, <1>9
<1>11. Len(Words(t)) = c
  BY <1>2, <1>7
<1>12. InLine(q, t)
  BY <1>1, <1>4, <1>6, <1>10, <1>11 DEF InLine
<1> QED
  BY <1>12 DEF t

(***************************************************************************)
(* What the parser has done after each turn                                *)
(***************************************************************************)
\* Where the parser is after i turns: it has dispatched the commands of what it has read,
\* and what it has not spent it has changed in its spaces only.
Alike(x, y) == x = y \/ (IsSpace(x) /\ IsSpace(y))

\* What is not spent is as it was read, but for blanked spaces.
Rest(text, p) ==
  /\ Len(p.text) = Len(text)
  /\ \A j \in 1 .. Len(text) : p.spent < j => Alike(p.text[j], text[j])

\* What is spent ends in a "\n", and its commands are those that were dispatched.
Spent(text, p, i) ==
  /\ p.spent \in 0 .. i
  /\ p.spent = 0 \/ text[p.spent] = "\n"
  /\ p.lines = CommandsOf(SubSeq(text, 1, i))
  /\ p.lines = CommandsOf(SubSeq(text, 1, p.spent))

\* The line that is being read begins after b.
Inside(text, p, i, b) ==
  /\ Begins(SubSeq(text, 1, i), b)
  /\ p.state = "crlf" <=> b = i
  /\ p.state = "whitespace" => IsSpace(text[i])
  /\ p.state = "word" => ~IsSpace(text[i])
  /\ InLine(p, SubSeq(text, b + 1, i))

\* The whole of it: what holds before turn i + 1.
Parsed(text, p, i) ==
  /\ p \in ParseStates
  /\ Rest(text, p)
  /\ \A j \in i + 1 .. Len(text) : p.text[j] = text[j]
  /\ Spent(text, p, i)
  /\ \E b : Inside(text, p, i, b)

\* Before its first turn the parser has read nothing.
LEMMA ParsedStart ==
  ASSUME NEW text \in Seq(Bytes)
  PROVE  Parsed(text, Start(text), 0)
<1> DEFINE p == Start(text)
<1>1. /\ p.text = text /\ p.state = "crlf" /\ p.words = <<>> /\ p.kept = FALSE /\ p.spent = 0
      /\ p.lines = <<>>
  BY DEF Start
<1>2. p \in ParseStates
  <2>1. <<>> \in Seq(Seq(Bytes)) /\ <<>> \in Seq(Seq(Seq(Bytes))) /\ 0 \in Nat
    BY EmptySeq
  <2> QED
    BY <2>1 DEF Start, ParseStates
<1> HIDE DEF p
<1>3. SubSeq(text, 1, 0) = <<>> /\ Len(<<>>) = 0
  BY SubSeqEmpty, EmptySeq
<1>4. Rest(text, p) /\ \A j \in 0 + 1 .. Len(text) : p.text[j] = text[j]
  BY <1>1 DEF Rest, Alike
<1>5. Spent(text, p, 0)
  <2>1. SubSeq(text, 1, p.spent) = <<>> /\ p.spent \in 0 .. 0
    BY <1>1, <1>3
  <2>2. CommandsOf(SubSeq(text, 1, 0)) = <<>> /\ CommandsOf(SubSeq(text, 1, p.spent)) = <<>>
    BY <1>3, <2>1, CommandsEmpty
  <2> QED
    BY <1>1, <2>1, <2>2 DEF Spent
<1>6. Inside(text, p, 0, 0)
  <2>1. Begins(<<>>, 0)
    BY <1>3 DEF Begins
  <2>2. SubSeq(text, 0 + 1, 0) = <<>>
    BY SubSeqEmpty
  <2>3. InLine(p, <<>>)
    BY <1>1, <1>2, InEmptyLine
  <2> QED
    BY <1>1, <1>3, <2>1, <2>2, <2>3 DEF Inside
<1>7. Parsed(text, p, 0)
  BY <1>2, <1>4, <1>5, <1>6 DEF Parsed
<1> QED
  BY <1>7 DEF p

\* What a line is made longer by.
LEMMA PartNext ==
  ASSUME NEW S, NEW text \in Seq(S), NEW i \in 1 .. Len(text), NEW m \in 1 .. i
  PROVE  /\ SubSeq(text, m, i - 1) \in Seq(S)
         /\ Len(SubSeq(text, m, i - 1)) = i - m
         /\ \A k \in 1 .. i - m : SubSeq(text, m, i - 1)[k] = text[m + k - 1]
         /\ SubSeq(text, m, i) = Append(SubSeq(text, m, i - 1), text[i])
<1>1. m \in Int /\ i \in Int /\ i - 1 \in Int /\ Len(text) \in Nat /\ text[i] \in S
      /\ \A k \in m .. i : text[k] \in S
  OBVIOUS
<1> DEFINE l == SubSeq(text, m, i - 1)
           c == i - m
<1>2. c \in Nat /\ (i - 1) - m + 1 = c /\ i - m + 1 = c + 1 /\ m + (c + 1) - 1 = i
  BY <1>1
<1>3. \A k \in m .. i - 1 : text[k] \in S
  BY <1>1
<1>4. l \in Seq(S)
  BY <1>1, <1>3, SubSeqProperties
<1>5. l = [k \in 1 .. c |-> text[m + k - 1]]
  BY <1>1, <1>2, SubSeqFunction
<1>6. SubSeq(text, m, i) = [k \in 1 .. c + 1 |-> text[m + k - 1]]
  BY <1>1, <1>2, SubSeqFunction
<1> HIDE DEF l, c
<1>7. l = [k \in 1 .. c |-> l[k]]
  BY <1>5
<1>8. Len(l) = c /\ Append(l, text[i]) = [k \in 1 .. c + 1 |-> IF k \in 1 .. c THEN l[k] ELSE text[i]]
  BY <1>2, <1>7, AppendFunction
<1>9. \A k \in 1 .. c + 1 : text[m + k - 1] = IF k \in 1 .. c THEN l[k] ELSE text[i]
  <2> TAKE k \in 1 .. c + 1
  <2>1. k \in 1 .. c \/ k = c + 1
    BY <1>2
  <2> QED
    BY <1>2, <1>5, <2>1
<1> QED
  BY <1>4, <1>5, <1>6, <1>8, <1>9 DEF l, c

\* A turn reads one more character.
LEMMA TurnStep ==
  ASSUME NEW text \in Seq(Bytes), NEW i \in 1 .. Len(text), NEW p, Parsed(text, p, i - 1),
         NEW q, q = ParseCharacter(p, i)
  PROVE  Parsed(text, q, i)
<1> DEFINE ch == text[i]
           t == SubSeq(text, 1, i - 1)
           T == SubSeq(text, 1, i)
           n == Len(text)
<1>1. /\ p \in ParseStates /\ Rest(text, p) /\ Spent(text, p, i - 1)
      /\ \A j \in (i - 1) + 1 .. n : p.text[j] = text[j]
  BY DEF Parsed
<1>2. PICK b : Inside(text, p, i - 1, b)
  BY DEF Parsed
<1> DEFINE l == SubSeq(text, b + 1, i - 1)
           L == SubSeq(text, b + 1, i)
<1>3. n \in Nat /\ i \in Nat /\ i - 1 \in Nat /\ i \in (i - 1) + 1 .. n /\ ch \in Bytes
      /\ Len(p.text) = n /\ i \in 1 .. Len(p.text)
  BY <1>1 DEF Rest
<1>4. p.text[i] = ch
  BY <1>1, <1>3
<1>5. t \in Seq(Bytes) /\ Len(t) = i - 1 /\ T = Append(t, ch)
  <2>1. 1 \in 1 .. i
    BY <1>3
  <2> QED
    BY <1>3, <2>1, PartNext
<1>6. b \in 0 .. i - 1 /\ Begins(t, b) /\ InLine(p, l)
      /\ (p.state = "crlf" <=> b = i - 1)
      /\ (p.state = "whitespace" => IsSpace(text[i - 1]))
      /\ (p.state = "word" => ~IsSpace(text[i - 1]))
  BY <1>2, <1>5 DEF Inside, Begins
<1>7. /\ l \in Seq(Bytes) /\ Len(l) = i - (b + 1) /\ L = Append(l, ch)
      /\ \A k \in 1 .. i - (b + 1) : l[k] = text[(b + 1) + k - 1]
  <2>1. b + 1 \in 1 .. i
    BY <1>3, <1>6
  <2> QED
    BY <1>3, <2>1, PartNext
<1>8. p.state \in {"crlf", "whitespace", "word"}
  BY <1>1 DEF ParseStates
<1>9. p.state = "word" <=> ~Gap(l, Len(l))
  <2>1. CASE b = i - 1
    <3>1. Len(l) = 0 /\ p.state = "crlf"
      BY <1>3, <1>6, <1>7, <2>1
    <3> QED
      BY <3>1 DEF Gap
  <2>2. CASE b # i - 1
    <3>1. Len(l) \in 1 .. i - (b + 1) /\ (b + 1) + Len(l) - 1 = i - 1 /\ Len(l) # 0 /\ Len(l) # Len(l) + 1
      BY <1>3, <1>6, <1>7, <2>2
    <3>2. l[Len(l)] = text[i - 1]
      BY <1>7, <3>1
    <3>3. Gap(l, Len(l)) <=> IsSpace(text[i - 1])
      BY <3>1, <3>2 DEF Gap
    <3> QED
      BY <1>6, <1>8, <2>2, <3>3
  <2> QED
    BY <2>1, <2>2
<1>10. Begins(T, IF ch = "\n" THEN i ELSE b)
  <2>1. Begins(Append(t, ch), IF ch = "\n" THEN Len(t) + 1 ELSE b)
    BY <1>3, <1>5, <1>6, BeginsNext
  <2>2. Len(t) + 1 = i
    BY <1>3, <1>5
  <2> QED
    BY <1>5, <2>1, <2>2
<1>11. CommandsOf(T) = IF ch = "\n" /\ p.state # "crlf" THEN Append(CommandsOf(t), Command(l)) ELSE CommandsOf(t)
  <2>1. CommandsOf(Append(t, ch)) =
          IF ch = "\n" /\ b < Len(t) THEN Append(CommandsOf(t), Command(SubSeq(t, b + 1, Len(t)))) ELSE CommandsOf(t)
    BY <1>3, <1>5, <1>6, CommandsNext
  <2>2. b < Len(t) <=> p.state # "crlf"
    BY <1>3, <1>5, <1>6
  <2>3. SubSeq(t, b + 1, Len(t)) = l
    <3>1. b + 1 \in Int /\ Len(t) \in Int /\ 1 \in Int /\ i - 1 \in Int
      BY <1>3, <1>5, <1>6
    <3>2. \A k \in 1 .. Len(t) - (b + 1) + 1 : (b + 1) + k - 1 \in 1 .. i - 1
      BY <1>3, <1>5, <1>6
    <3>3. t = [k \in 1 .. (i - 1) - 1 + 1 |-> text[1 + k - 1]]
      BY <3>1, SubSeqFunction
    <3>4. \A k \in 1 .. i - 1 : t[k] = text[k]
      BY <1>3, <3>3
    <3>5. l = [k \in 1 .. (i - 1) - (b + 1) + 1 |-> text[(b + 1) + k - 1]]
      BY <3>1, SubSeqFunction
    <3>6. Len(t) = i - 1
      BY <1>5
    <3> HIDE DEF t
    <3>7. SubSeq(t, b + 1, Len(t)) = [k \in 1 .. Len(t) - (b + 1) + 1 |-> t[(b + 1) + k - 1]]
      BY <3>1, SubSeqFunction
    <3> QED
      BY <3>2, <3>4, <3>5, <3>6, <3>7
  <2> QED
    BY <1>5, <2>1, <2>2, <2>3
<1>12. /\ p.spent \in 0 .. i - 1 /\ (p.spent = 0 \/ text[p.spent] = "\n")
       /\ p.lines = CommandsOf(t) /\ p.lines = CommandsOf(SubSeq(text, 1, p.spent))
       /\ \A j \in 1 .. n : p.spent < j => Alike(p.text[j], text[j])
  BY <1>1 DEF Spent, Rest
<1> HIDE DEF ch, t, T, n, l, L
<1>13. Blanked(p.text, i) \in Seq(Bytes) /\ Len(Blanked(p.text, i)) = n
       /\ \A j \in 1 .. n : Blanked(p.text, i)[j] = IF j = i THEN Nul ELSE p.text[j]
  <2>1. p.text \in Seq(Bytes) /\ Nul \in Bytes
    BY <1>1 DEF ParseStates, Bytes
  <2> QED
    BY <1>3, <2>1, ExceptSeq DEF Blanked
<1>14. \A j \in i + 1 .. n : j \in (i - 1) + 1 .. n /\ j \in 1 .. n /\ j # i
  BY <1>3
<1>15. IsSpace(ch) => ch # "\n"
  BY DEF IsSpace, Nul
<1>16. IsSpace(Nul)
  BY DEF IsSpace
<1>17. q \in ParseStates /\ Turned(p, i, q)
  BY <1>1, <1>3, Turn
<1>18. CASE IsSpace(ch)
  <2>1. /\ q.state = "whitespace" /\ q.words = p.words /\ q.spent = p.spent /\ q.lines = p.lines
        /\ q.text = Blanked(p.text, i) \/ q.text = p.text
    BY <1>4, <1>17, <1>18 DEF Turned
  <2>2. Rest(text, q)
    BY <1>3, <1>4, <1>12, <1>13, <1>16, <1>18, <2>1 DEF Rest, Alike, n
  <2>3. \A j \in i + 1 .. n : q.text[j] = text[j]
    BY <1>1, <1>13, <1>14, <2>1
  <2>4. Spent(text, q, i)
    <3>1. q.spent \in 0 .. i
      BY <1>3, <1>12, <2>1
    <3> QED
      BY <1>11, <1>12, <1>15, <1>18, <2>1, <3>1 DEF Spent, T
  <2>5. InLine(q, L)
    BY <1>1, <1>3, <1>6, <1>7, <1>9, <1>17, <1>18, <2>1, InLineSpace
  <2>6. Inside(text, q, i, b)
    <3>1. b # i /\ q.state # "crlf" /\ q.state # "word"
      BY <1>3, <1>6, <2>1
    <3> QED
      BY <1>10, <1>15, <1>18, <2>1, <2>5, <3>1 DEF Inside, T, L, ch
  <2> QED
    BY <1>17, <2>2, <2>3, <2>4, <2>6 DEF Parsed, n
<1>19. CASE ch = "\n" /\ p.state = "crlf"
  <2>1. q = p
    BY <1>4, <1>17, <1>19 DEF Turned
  <2>2. Spent(text, q, i)
    <3>1. q.spent \in 0 .. i
      BY <1>3, <1>12, <2>1
    <3> QED
      BY <1>11, <1>12, <1>19, <2>1, <3>1 DEF Spent, T
  <2>3. Inside(text, q, i, i)
    <3>1. l = <<>> /\ SubSeq(text, i + 1, i) = <<>>
      <4>1. b + 1 \in Int /\ i - 1 \in Int /\ i - 1 < b + 1 /\ i + 1 \in Int /\ i \in Int /\ i < i + 1
        BY <1>3, <1>6, <1>19
      <4> QED
        BY <4>1, SubSeqEmpty DEF l
    <3>2. InLine(q, <<>>)
      BY <1>6, <2>1, <3>1
    <3>3. q.state # "whitespace" /\ q.state # "word"
      BY <1>19, <2>1
    <3> QED
      BY <1>10, <1>19, <2>1, <3>1, <3>2, <3>3 DEF Inside, T
  <2>4. \A j \in i + 1 .. n : q.text[j] = text[j]
    BY <1>1, <1>14, <2>1
  <2> QED
    BY <1>1, <1>17, <2>1, <2>2, <2>3, <2>4 DEF Parsed, n
<1>20. CASE ch = "\n" /\ p.state # "crlf"
  <2>1. /\ q.text = Blanked(p.text, i) /\ q.state = "crlf" /\ q.words = <<>>
        /\ q.spent = i /\ q.lines = Append(p.lines, Opened(p).words)
    BY <1>4, <1>17, <1>20 DEF Turned
  <2>2. Rest(text, q)
    <3>1. \A j \in 1 .. n : i < j => j # i /\ p.spent < j
      BY <1>3, <1>12
    <3> QED
      BY <1>12, <1>13, <2>1, <3>1 DEF Rest, n
  <2>3. \A j \in i + 1 .. n : q.text[j] = text[j]
    BY <1>1, <1>13, <1>14, <2>1
  <2>4. Spent(text, q, i)
    <3>1. q.lines = CommandsOf(T)
      BY <1>6, <1>11, <1>12, <1>20, <2>1 DEF InLine
    <3>2. i \in 0 .. i
      BY <1>3
    <3> QED
      BY <1>20, <2>1, <3>1, <3>2 DEF Spent, T, ch
  <2>5. Inside(text, q, i, i)
    <3>1. SubSeq(text, i + 1, i) = <<>>
      <4>1. i + 1 \in Int /\ i \in Int /\ i < i + 1
        BY <1>3
      <4> QED
        BY <4>1, SubSeqEmpty
    <3>2. InLine(q, <<>>)
      BY <1>17, <2>1, InEmptyLine
    <3>3. q.state # "whitespace" /\ q.state # "word"
      BY <2>1
    <3> QED
      BY <1>10, <1>20, <2>1, <3>1, <3>2, <3>3 DEF Inside, T
  <2> QED
    BY <1>17, <2>2, <2>3, <2>4, <2>5 DEF Parsed, n
<1>21. CASE ~IsSpace(ch) /\ ch # "\n"
  <2>1. /\ q.text = p.text /\ q.state = "word" /\ q.kept = Opened(p).kept
        /\ q.words = IF Opened(p).kept
                     THEN [Opened(p).words EXCEPT ![Len(Opened(p).words)] = Append(@, ch)]
                     ELSE Opened(p).words
        /\ q.spent = p.spent /\ q.lines = p.lines
    BY <1>4, <1>17, <1>21 DEF Turned
  <2>2. Rest(text, q)
    BY <1>3, <1>12, <2>1 DEF Rest, n
  <2>3. \A j \in i + 1 .. n : q.text[j] = text[j]
    BY <1>1, <1>14, <2>1
  <2>4. Spent(text, q, i)
    <3>1. q.spent \in 0 .. i
      BY <1>3, <1>12, <2>1
    <3> QED
      BY <1>11, <1>12, <1>21, <2>1, <3>1 DEF Spent, T
  <2>5. InLine(q, L)
    BY <1>1, <1>3, <1>6, <1>7, <1>17, <1>21, <2>1, InLineLetter
  <2>6. Inside(text, q, i, b)
    <3>1. b # i /\ q.state # "crlf" /\ q.state # "whitespace"
      BY <1>3, <1>6, <2>1
    <3> QED
      BY <1>10, <1>21, <2>1, <2>5, <3>1 DEF Inside, T, L, ch
  <2> QED
    BY <1>17, <2>2, <2>3, <2>4, <2>6 DEF Parsed, n
<1> QED
  BY <1>18, <1>19, <1>20, <1>21

\* The parser in full.
LEMMA ParseFacts ==
  ASSUME NEW text \in Seq(Bytes)
  PROVE  Parsed(text, Parse(text), Len(text))
<1>1. PICK f : /\ f[0] = Start(text)
               /\ \A i \in 1 .. Len(text) : f[i] = ParseCharacter(f[i - 1], i)
               /\ Parse(text) = f[Len(text)]
  BY ParseTurns
<1> DEFINE N == {i \in Nat : i <= Len(text) => Parsed(text, f[i], i)}
<1>2. 0 \in N
  BY <1>1, ParsedStart
<1>3. Len(text) \in Nat
  OBVIOUS
<1>4. ASSUME NEW i \in Nat, i \in N PROVE i + 1 \in N
  <2>1. SUFFICES ASSUME i + 1 <= Len(text) PROVE Parsed(text, f[i + 1], i + 1)
    OBVIOUS
  <2> DEFINE j == i + 1
  <2>2. j \in 1 .. Len(text) /\ j - 1 = i /\ i <= Len(text)
    BY <1>3, <2>1
  <2>3. Parsed(text, f[j - 1], j - 1) /\ f[j] = ParseCharacter(f[j - 1], j)
    BY <1>1, <1>4, <2>2
  <2> HIDE DEF j
  <2>4. Parsed(text, f[j], j)
    BY <2>2, <2>3, TurnStep
  <2> QED
    BY <2>4 DEF j
<1>5. Len(text) \in N
  <2> HIDE DEF N
  <2> QED
    BY <1>2, <1>3, <1>4, AllNaturals
<1> QED
  BY <1>1, <1>3, <1>5

\* What the parser makes of a text some of whose spaces have been blanked is what the text
\* says; what it leaves are the characters that stand after those it has dispatched.
Understood(p, a) ==
  /\ p.spent \in 0 .. Len(a)
  /\ p.spent = 0 \/ a[p.spent] = "\n"
  /\ p.lines = CommandsOf(a)
  /\ p.lines = CommandsOf(SubSeq(a, 1, p.spent))
  /\ p.lines \in Seq(Seq(Seq(Bytes)))
  /\ Unspent(p) \in Seq(Bytes) /\ Len(Unspent(p)) <= Len(a)
  /\ Similar(Unspent(p), SubSeq(a, p.spent + 1, Len(a)))

\* Parse does what Understood says.
LEMMA ParseUnderstands ==
  ASSUME NEW text \in Seq(Bytes), NEW a \in Seq(Bytes), Similar(text, a)
  PROVE  Understood(Parse(text), a)
<1> DEFINE p == Parse(text)
           n == Len(text)
<1>1. Parsed(text, p, n)
  BY ParseFacts
<1>2. /\ n \in Nat /\ Len(a) = n
      /\ \A i \in 1 .. n : text[i] = a[i] \/ (IsSpace(text[i]) /\ IsSpace(a[i]))
  BY DEF Similar
<1> HIDE DEF p
<1>3. /\ p \in ParseStates /\ Len(p.text) = n
      /\ \A j \in 1 .. n : p.spent < j => Alike(p.text[j], text[j])
      /\ p.spent \in 0 .. n /\ (p.spent = 0 \/ text[p.spent] = "\n")
      /\ p.lines = CommandsOf(SubSeq(text, 1, n))
      /\ p.lines = CommandsOf(SubSeq(text, 1, p.spent))
  BY <1>1 DEF Parsed, Rest, Spent
<1>4. p.text \in Seq(Bytes) /\ p.lines \in Seq(Seq(Seq(Bytes)))
  BY <1>3 DEF ParseStates
<1>5. p.lines = CommandsOf(a)
  <2>1. SubSeq(text, 1, n) = text /\ CommandsOf(text) = CommandsOf(a)
    BY SubSeqFull, SimilarCommands
  <2> QED
    BY <1>3, <2>1
<1> DEFINE m == p.spent
<1>6. p.lines = CommandsOf(SubSeq(a, 1, m))
  <2>1. m \in 0 .. Len(text) /\ 1 \in 1 .. Len(text) + 1
    BY <1>2, <1>3
  <2> HIDE DEF m
  <2>2. /\ SubSeq(text, 1, m) \in Seq(Bytes) /\ SubSeq(a, 1, m) \in Seq(Bytes)
        /\ Similar(SubSeq(text, 1, m), SubSeq(a, 1, m))
    BY <2>1, SimilarPart
  <2>3. CommandsOf(SubSeq(text, 1, m)) = CommandsOf(SubSeq(a, 1, m))
    BY <2>2, SimilarCommands
  <2> QED
    BY <1>3, <2>3 DEF m
<1>7. m = 0 \/ a[m] = "\n"
  <2>1. ~IsSpace("\n")
    BY DEF IsSpace, Nul
  <2>2. m # 0 => m \in 1 .. n
    BY <1>2, <1>3
  <2> QED
    BY <1>2, <1>3, <2>1, <2>2
<1>8. /\ Unspent(p) \in Seq(Bytes) /\ Len(Unspent(p)) <= Len(a)
      /\ Similar(Unspent(p), SubSeq(a, m + 1, n))
  <2> DEFINE l == m + 1
  <2>1. /\ l \in Int /\ n \in Int /\ l \in 1 .. n + 1 /\ Len(p.text) = n
        /\ \A i \in l .. n : i \in 1 .. n /\ m < i
    BY <1>2, <1>3
  <2>2. Unspent(p) = SubSeq(p.text, l, n)
    BY <1>3 DEF Unspent
  <2> HIDE DEF l, n
  <2>3. \A i \in l .. n : p.text[i] \in Bytes /\ a[i] \in Bytes
    BY <1>2, <1>4, <2>1
  <2>4. /\ SubSeq(p.text, l, n) \in Seq(Bytes)
        /\ Len(SubSeq(p.text, l, n)) = IF l <= n THEN n - l + 1 ELSE 0
        /\ Len(SubSeq(a, l, n)) = IF l <= n THEN n - l + 1 ELSE 0
        /\ \A i \in 1 .. n - l + 1 : SubSeq(p.text, l, n)[i] = p.text[l + i - 1]
        /\ \A i \in 1 .. n - l + 1 : SubSeq(a, l, n)[i] = a[l + i - 1]
    BY <2>1, <2>3, SubSeqProperties
  <2>5. \A i \in 1 .. n - l + 1 : l + i - 1 \in l .. n
    BY <2>1
  <2>6. \A i \in l .. n : p.text[i] = a[i] \/ (IsSpace(p.text[i]) /\ IsSpace(a[i]))
    BY <1>2, <1>3, <2>1 DEF Alike
  <2>7. 1 .. Len(SubSeq(p.text, l, n)) = 1 .. n - l + 1
    BY <2>1, <2>4
  <2>8. Similar(SubSeq(p.text, l, n), SubSeq(a, l, n))
    BY <2>4, <2>5, <2>6, <2>7 DEF Similar
  <2>9. (IF l <= n THEN n - l + 1 ELSE 0) <= n
    BY <1>2, <1>3 DEF l, n
  <2> QED
    BY <1>2, <2>2, <2>4, <2>8, <2>9 DEF l
<1>9. p.spent \in 0 .. Len(a)
  BY <1>2, <1>3
<1>10. Understood(p, a)
  BY <1>2, <1>4, <1>5, <1>6, <1>7, <1>8, <1>9 DEF Understood
<1> QED
  BY <1>10 DEF p

(***************************************************************************)
(* From read to read                                                       *)
(***************************************************************************)
\* Text of whole lines.
Whole(text) == text = <<>> \/ text[Len(text)] = "\n"

\* Texts that are similar stay so when the same is read after them.
LEMMA SimilarConcat ==
  ASSUME NEW S, NEW s \in Seq(S), NEW t \in Seq(S), Similar(s, t), NEW u \in Seq(S)
  PROVE  Similar(s \o u, t \o u)
<1>1. /\ Len(s) \in Nat /\ Len(u) \in Nat /\ Len(t) = Len(s)
      /\ Len(s \o u) = Len(s) + Len(u) /\ Len(t \o u) = Len(s) + Len(u)
      /\ \A i \in 1 .. Len(s) : s[i] = t[i] \/ (IsSpace(s[i]) /\ IsSpace(t[i]))
      /\ \A i \in 1 .. Len(s) + Len(u) : (s \o u)[i] = IF i <= Len(s) THEN s[i] ELSE u[i - Len(s)]
      /\ \A i \in 1 .. Len(s) + Len(u) : (t \o u)[i] = IF i <= Len(s) THEN t[i] ELSE u[i - Len(s)]
  <2>1. /\ Len(s \o u) = Len(s) + Len(u)
        /\ \A i \in 1 .. Len(s) + Len(u) : (s \o u)[i] = IF i <= Len(s) THEN s[i] ELSE u[i - Len(s)]
    BY ConcatProperties
  <2>2. /\ Len(t \o u) = Len(t) + Len(u)
        /\ \A i \in 1 .. Len(t) + Len(u) : (t \o u)[i] = IF i <= Len(t) THEN t[i] ELSE u[i - Len(t)]
    BY ConcatProperties
  <2>3. /\ Len(s) = Len(t)
        /\ \A i \in 1 .. Len(s) : s[i] = t[i] \/ (IsSpace(s[i]) /\ IsSpace(t[i]))
    BY DEF Similar
  <2>4. Len(s) \in Nat /\ Len(u) \in Nat
    OBVIOUS
  <2> QED
    BY <2>1, <2>2, <2>3, <2>4
<1>2. \A i \in 1 .. Len(s) + Len(u) : i <= Len(s) => i \in 1 .. Len(s)
  BY <1>1
<1> QED
  BY <1>1, <1>2 DEF Similar

\* Whole lines after whole lines are whole lines.
LEMMA WholeConcat ==
  ASSUME NEW S, NEW s \in Seq(S), Whole(s), NEW t \in Seq(S), Whole(t)
  PROVE  Whole(s \o t)
<1>1. CASE t = <<>>
  <2>1. s \o t = s
    BY <1>1, ConcatEmptySeq
  <2> QED
    BY <2>1
<1>2. CASE t # <<>>
  <2>1. /\ Len(s) \in Nat /\ Len(t) \in Nat /\ Len(t) # 0 /\ Len(s \o t) = Len(s) + Len(t)
        /\ \A i \in 1 .. Len(s) + Len(t) : (s \o t)[i] = IF i <= Len(s) THEN s[i] ELSE t[i - Len(s)]
    BY <1>2, ConcatProperties, EmptySeq
  <2>2. /\ Len(s) + Len(t) \in 1 .. Len(s) + Len(t) /\ ~ (Len(s) + Len(t) <= Len(s))
        /\ (Len(s) + Len(t)) - Len(s) = Len(t)
    BY <2>1
  <2>3. (s \o t)[Len(s \o t)] = t[Len(t)]
    BY <2>1, <2>2
  <2> QED
    BY <1>2, <2>3 DEF Whole
<1> QED
  BY <1>1, <1>2

\* Where the server is in what it has read from a client: all that it has dispatched are the
\* whole lines of a first part, and what is in the buffer is the rest, some of its spaces
\* blanked.
Between(read, given, kept, done, pending) ==
  /\ done \in Seq(Bytes) /\ pending \in Seq(Bytes)
  /\ read = done \o pending
  /\ Whole(done)
  /\ given = CommandsOf(done)
  /\ Similar(kept, pending)

InStep(read, given, kept) == \E done, pending : Between(read, given, kept, done, pending)

\* A read, in data: the parser completes what the buffer has kept.
LEMMA ReadOn ==
  ASSUME NEW read, NEW given, NEW kept \in Seq(Bytes), InStep(read, given, kept),
         NEW chunk \in Seq(Bytes), NEW p, p = Parse(kept \o chunk)
  PROVE  /\ given \o p.lines = CommandsOf(read \o chunk)
         /\ InStep(read \o chunk, given \o p.lines, Unspent(p))
         /\ Unspent(p) \in Seq(Bytes) /\ Len(Unspent(p)) <= Len(kept) + Len(chunk)
         /\ p.lines \in Seq(Seq(Seq(Bytes)))
<1>1. PICK done, pending : Between(read, given, kept, done, pending)
  BY DEF InStep
<1>2. /\ done \in Seq(Bytes) /\ pending \in Seq(Bytes) /\ read = done \o pending /\ Whole(done)
      /\ given = CommandsOf(done) /\ Similar(kept, pending)
  BY <1>1 DEF Between
<1> DEFINE a == pending \o chunk
           text == kept \o chunk
<1>3. a \in Seq(Bytes) /\ text \in Seq(Bytes) /\ Similar(text, a)
  BY <1>2, ConcatProperties, SimilarConcat
<1>4. read \o chunk = done \o a
  BY <1>2, ConcatAssociative
<1>5. Len(a) = Len(kept) + Len(chunk)
  <2>1. Len(a) = Len(pending) + Len(chunk)
    BY <1>2, ConcatProperties
  <2> QED
    BY <1>2, <2>1 DEF Similar
<1> HIDE DEF a, text
<1>6. Understood(p, a)
  BY <1>3, ParseUnderstands DEF text
<1> DEFINE m == p.spent
           n == Len(a)
           first == SubSeq(a, 1, m)
           rest == SubSeq(a, m + 1, n)
<1>7. /\ m \in 0 .. n /\ n \in Nat /\ (m = 0 \/ a[m] = "\n")
      /\ p.lines = CommandsOf(a) /\ p.lines = CommandsOf(first)
      /\ p.lines \in Seq(Seq(Seq(Bytes)))
      /\ Unspent(p) \in Seq(Bytes) /\ Len(Unspent(p)) <= n /\ Similar(Unspent(p), rest)
  BY <1>3, <1>6 DEF Understood
<1>8. /\ first \in Seq(Bytes) /\ Len(first) = m /\ (m # 0 => first[m] = a[m])
      /\ rest \in Seq(Bytes) /\ Len(rest) = n - m
  <2> DEFINE l == m + 1
  <2>0. m \in Nat /\ n \in Nat /\ m <= n
    BY <1>7
  <2> HIDE DEF m, n
  <2>1. /\ m \in Int /\ n \in Int /\ 1 \in Int /\ l \in Int
        /\ (\A i \in 1 .. m : i \in 1 .. n)
        /\ (\A i \in l .. n : i \in 1 .. n)
        /\ m - 1 + 1 = m /\ (m # 0 => 1 + m - 1 = m /\ m \in 1 .. m)
        /\ (IF 1 <= m THEN m - 1 + 1 ELSE 0) = m
        /\ (IF l <= n THEN n - l + 1 ELSE 0) = n - m
    <3>1. m \in Int /\ n \in Int /\ 1 \in Int /\ l \in Int
      BY <2>0
    <3>2. \A i \in 1 .. m : i \in 1 .. n
      BY <2>0
    <3>3. \A i \in l .. n : i \in 1 .. n
      BY <2>0
    <3>4. m - 1 + 1 = m /\ (m # 0 => 1 + m - 1 = m /\ m \in 1 .. m)
      BY <2>0
    <3>5. (IF 1 <= m THEN m - 1 + 1 ELSE 0) = m
      BY <2>0
    <3>6. (IF l <= n THEN n - l + 1 ELSE 0) = n - m
      BY <2>0
    <3> QED
      BY <3>1, <3>2, <3>3, <3>4, <3>5, <3>6
  <2> HIDE DEF l
  <2>2. (\A i \in 1 .. m : a[i] \in Bytes) /\ (\A i \in l .. n : a[i] \in Bytes)
    <3>1. \A i \in 1 .. n : a[i] \in Bytes
      BY <1>3 DEF n
    <3> QED
      BY <2>1, <3>1
  <2>3. /\ first \in Seq(Bytes) /\ Len(first) = m
        /\ \A i \in 1 .. m - 1 + 1 : first[i] = a[1 + i - 1]
    BY <2>1, <2>2, SubSeqProperties
  <2>4. SubSeq(a, l, n) \in Seq(Bytes) /\ Len(SubSeq(a, l, n)) = n - m
    BY <2>1, <2>2, SubSeqProperties
  <2> QED
    BY <2>1, <2>3, <2>4 DEF l
<1>9. a = first \o rest
  <2>1. 1 \in 1 .. Len(a) + 1 /\ m \in 1 - 1 .. Len(a) /\ Len(a) \in m .. Len(a)
    BY <1>7
  <2> HIDE DEF m
  <2>2. first \o SubSeq(a, m + 1, Len(a)) = SubSeq(a, 1, Len(a))
    BY <1>3, <2>1, ConcatAdjacentSubSeq
  <2> QED
    BY <1>3, <2>2, SubSeqFull
<1>10. Whole(first)
  <2>1. m = 0 => first = <<>>
    BY <1>8, EmptySeq
  <2> QED
    BY <1>7, <1>8, <2>1 DEF Whole
<1> HIDE DEF m, n, first, rest
<1>11. given \o p.lines = CommandsOf(read \o chunk)
  <2>1. CommandsOf(done \o a) = CommandsOf(done) \o CommandsOf(a)
    BY <1>2, <1>3, CommandsConcat DEF Whole
  <2> QED
    BY <1>2, <1>4, <1>7, <2>1
<1>12. given \o p.lines = CommandsOf(done \o first)
  <2>1. CommandsOf(done \o first) = CommandsOf(done) \o CommandsOf(first)
    BY <1>2, <1>8, CommandsConcat DEF Whole
  <2> QED
    BY <1>2, <1>7, <2>1
<1>13. Between(read \o chunk, given \o p.lines, Unspent(p), done \o first, rest)
  <2>1. done \o first \in Seq(Bytes)
    BY <1>2, <1>8, ConcatProperties
  <2>2. (done \o first) \o rest = done \o (first \o rest)
    <3>1. done \in Seq(Bytes) /\ first \in Seq(Bytes) /\ rest \in Seq(Bytes)
      BY <1>2, <1>8
    <3> QED
      BY <3>1, ConcatAssociative
  <2>3. Whole(done \o first)
    BY <1>2, <1>8, <1>10, WholeConcat
  <2> QED
    BY <1>4, <1>7, <1>8, <1>9, <1>12, <2>1, <2>2, <2>3 DEF Between
<1>14. Len(Unspent(p)) <= Len(kept) + Len(chunk)
  BY <1>5, <1>7 DEF n
<1> QED
  BY <1>7, <1>11, <1>13, <1>14 DEF InStep

(***************************************************************************)
(* The control server                                                      *)
(***************************************************************************)
\* What the server's and the client's variables hold.
ControlTypes ==
  /\ control \in {"closed", "listening", "accepted", "failed"} /\ receiving \in BOOLEAN
  /\ buffer \in Seq(Bytes) /\ Len(buffer) <= CommandBuffer
  /\ knocking \in BOOLEAN /\ hungUp \in BOOLEAN /\ visited \in Nat /\ sentCount \in Nat
  /\ unread \in Seq(Characters) /\ stream \in Seq(Characters)
  /\ torn \in BOOLEAN /\ dispatched \in Seq(Seq(Seq(Bytes)))

\* The inductive invariant: while a client has the server and no call has let go of a part
\* of its line, what was dispatched and what is in the buffer are all that was read.
ControlInv ==
  /\ ControlTypes
  /\ receiving => control = "accepted"
  /\ ~receiving => buffer = <<>>
  /\ control = "accepted" /\ ~torn => InStep(stream, dispatched, buffer)
  /\ EveryCommandOnce

\* Before anything was read.
LEMMA NothingInStep == InStep(<<>>, <<>>, <<>>) /\ CommandsOf(<<>>) = <<>>
<1>1. <<>> \in Seq(Bytes) /\ <<>> \o <<>> = <<>> /\ Len(<<>>) = 0
  BY EmptySeq, ConcatEmptySeq
<1>2. Between(<<>>, <<>>, <<>>, <<>>, <<>>)
  BY <1>1, CommandsEmpty DEF Between, Whole, Similar
<1> QED
  BY <1>2, CommandsEmpty DEF InStep

\* ControlInit has read nothing.
LEMMA ControlStarts == ControlInit => ControlInv
<1> SUFFICES ASSUME ControlInit PROVE ControlInv
  OBVIOUS
<1>1. /\ <<>> \in Seq(Bytes) /\ <<>> \in Seq(Characters) /\ <<>> \in Seq(Seq(Seq(Bytes)))
      /\ Len(<<>>) = 0 /\ 0 <= CommandBuffer
  BY EmptySeq, Limits
<1>2. ControlTypes
  BY <1>1 DEF ControlInit, ControlTypes
<1>3. EveryCommandOnce
  BY NothingInStep DEF ControlInit, EveryCommandOnce
<1> QED
  BY <1>2, <1>3 DEF ControlInit, ControlInv

\* A new client starts from nothing.
LEMMA AcceptStep == ControlInv /\ ControlAccept => ControlInv'
<1> SUFFICES ASSUME ControlInv, ControlAccept PROVE ControlInv'
  OBVIOUS
<1>1. /\ control = "listening" /\ control' = "accepted" /\ knocking' = FALSE /\ unread' = <<>>
      /\ hungUp' = FALSE /\ stream' = <<>> /\ torn' = FALSE /\ dispatched' = <<>>
      /\ receiving' = receiving /\ buffer' = buffer /\ visited' = visited /\ sentCount' = sentCount
  BY DEF ControlAccept
<1>2. <<>> \in Seq(Characters) /\ <<>> \in Seq(Seq(Seq(Bytes)))
  BY EmptySeq
<1>3. ControlTypes'
  BY <1>1, <1>2 DEF ControlInv, ControlTypes
<1>4. receiving = FALSE /\ buffer = <<>>
  BY <1>1 DEF ControlInv, ControlTypes
<1>5. InStep(stream', dispatched', buffer') /\ EveryCommandOnce'
  BY <1>1, <1>4, NothingInStep DEF EveryCommandOnce
<1> QED
  BY <1>1, <1>3, <1>4, <1>5 DEF ControlInv

\* A read.
LEMMA ReceiveStep == ControlInv /\ Receive => ControlInv'
<1> SUFFICES ASSUME ControlInv, Receive PROVE ControlInv'
  OBVIOUS
<1> DEFINE n == Min({ReadSize, Len(unread)})
           chunk == SubSeq(unread, 1, n)
           more == SubSeq(unread, n + 1, Len(unread))
           p == Parse(buffer \o chunk)
<1>1. /\ receiving /\ n > 0 /\ unread' = more /\ stream' = stream \o chunk
      /\ dispatched' = dispatched \o p.lines /\ buffer' = Unspent(p)
      /\ control' = control /\ receiving' = receiving /\ torn' = torn /\ visited' = visited
      /\ knocking' = knocking /\ hungUp' = hungUp /\ sentCount' = sentCount
  BY DEF Receive
<1>2. /\ ControlTypes /\ control = "accepted" /\ EveryCommandOnce
      /\ ~torn => InStep(stream, dispatched, buffer)
  BY <1>1 DEF ControlInv
<1>3. /\ buffer \in Seq(Bytes) /\ Len(buffer) <= CommandBuffer /\ Len(buffer) \in Nat
      /\ unread \in Seq(Characters) /\ stream \in Seq(Characters) /\ Len(unread) \in Nat
      /\ dispatched \in Seq(Seq(Seq(Bytes)))
  BY <1>2 DEF ControlTypes
<1>4. n \in 0 .. Len(unread) /\ Len(buffer) + n <= CommandBuffer
  <2> DEFINE S == {ReadSize, Len(unread)}
  <2>1. ReadSize \in Nat /\ Len(buffer) + ReadSize = CommandBuffer
    BY <1>3, Limits DEF ReadSize
  <2>2. S \in SUBSET Nat /\ S # {} /\ ReadSize \in S /\ Len(unread) \in S
    BY <1>3, <2>1
  <2> HIDE DEF S
  <2>3. Min(S) \in S /\ \A x \in S : Min(S) <= x
    BY <2>2, MinFacts
  <2>4. n \in Nat /\ n <= ReadSize /\ n <= Len(unread)
    BY <2>2, <2>3 DEF S
  <2> QED
    BY <1>3, <2>1, <2>4
<1> HIDE DEF n
<1>5. chunk \in Seq(Characters) /\ Len(chunk) = n /\ more \in Seq(Characters)
  <2> DEFINE u == Len(unread)
             l == n + 1
  <2>1. /\ 1 \in Int /\ n \in Int /\ u \in Int /\ l \in Int
        /\ (\A i \in 1 .. n : i \in 1 .. u) /\ (\A i \in l .. u : i \in 1 .. u)
        /\ (IF 1 <= n THEN n - 1 + 1 ELSE 0) = n
    BY <1>3, <1>4
  <2>2. \A i \in 1 .. u : unread[i] \in Characters
    BY <1>3
  <2> HIDE DEF u, l
  <2>3. (\A i \in 1 .. n : unread[i] \in Characters) /\ (\A i \in l .. u : unread[i] \in Characters)
    BY <2>1, <2>2
  <2>4. chunk \in Seq(Characters) /\ Len(chunk) = n
    BY <2>1, <2>3, SubSeqProperties
  <2>5. SubSeq(unread, l, u) \in Seq(Characters)
    BY <2>1, <2>3, SubSeqProperties
  <2> QED
    BY <2>4, <2>5 DEF l, u
<1> HIDE DEF chunk, more
<1>6. chunk \in Seq(Bytes)
  <2>1. \A i \in 1 .. Len(chunk) : chunk[i] \in Bytes
    BY <1>5 DEF Bytes
  <2> QED
    BY <1>5, <2>1, SeqDef
<1>7. stream' \in Seq(Characters)
  BY <1>1, <1>3, <1>5, ConcatProperties
<1>8. /\ Unspent(p) \in Seq(Bytes) /\ p.lines \in Seq(Seq(Seq(Bytes)))
      /\ Len(Unspent(p)) <= Len(buffer) + Len(chunk)
  <2> DEFINE text == buffer \o chunk
  <2>1. text \in Seq(Bytes) /\ Len(text) = Len(buffer) + Len(chunk)
    BY <1>3, <1>6, ConcatProperties
  <2> HIDE DEF text
  <2>2. Similar(text, text)
    BY DEF Similar
  <2>3. Understood(Parse(text), text)
    BY <2>1, <2>2, ParseUnderstands
  <2> QED
    BY <2>1, <2>3 DEF Understood, text
<1>9. ControlTypes'
  <2>1. dispatched' \in Seq(Seq(Seq(Bytes)))
    BY <1>1, <1>3, <1>8, ConcatProperties
  <2>2. buffer' \in Seq(Bytes) /\ Len(buffer') <= CommandBuffer
    <3>1. Len(Unspent(p)) \in Nat
      BY <1>8
    <3> QED
      BY <1>1, <1>3, <1>4, <1>5, <1>8, <3>1, Limits
  <2> QED
    BY <1>1, <1>2, <1>5, <1>7, <2>1, <2>2 DEF ControlTypes
<1>10. ~torn => InStep(stream', dispatched', buffer') /\ dispatched' = CommandsOf(stream')
  BY <1>1, <1>2, <1>3, <1>6, ReadOn
<1> QED
  BY <1>1, <1>2, <1>9, <1>10 DEF ControlInv, EveryCommandOnce

\* When there is no more to read, what is lost is nothing or a part of a line.
LEMMA EndRecvStep == ControlInv /\ EndRecv => ControlInv'
<1> SUFFICES ASSUME ControlInv, EndRecv PROVE ControlInv'
  OBVIOUS
<1>1. /\ receiving' = FALSE /\ buffer' = <<>> /\ torn' = (torn \/ buffer # <<>>)
      /\ control' = control /\ stream' = stream /\ dispatched' = dispatched
      /\ visited' = visited /\ knocking' = knocking /\ unread' = unread /\ hungUp' = hungUp
      /\ sentCount' = sentCount
  BY DEF EndRecv, clientSide
<1>2. ControlTypes'
  <2>1. <<>> \in Seq(Bytes) /\ Len(<<>>) <= CommandBuffer
    BY EmptySeq, Limits
  <2>2. torn' \in BOOLEAN
    BY <1>1
  <2> QED
    BY <1>1, <2>1, <2>2 DEF ControlInv, ControlTypes
<1>3. ~torn' => ~torn /\ buffer = buffer'
  BY <1>1
<1>4. EveryCommandOnce'
  BY <1>1, <1>3 DEF ControlInv, EveryCommandOnce
<1> QED
  BY <1>1, <1>2, <1>3, <1>4 DEF ControlInv

\* The other steps read and dispatch nothing.
LEMMA HangUpStep == ControlInv /\ HangUp => ControlInv'
<1> SUFFICES ASSUME ControlInv, HangUp PROVE ControlInv'
  OBVIOUS
<1>1. /\ control' = "listening" /\ receiving' = FALSE /\ buffer' = <<>> /\ unread' = <<>>
      /\ hungUp' = TRUE /\ stream' = stream /\ torn' = torn /\ dispatched' = dispatched
      /\ visited' = visited /\ knocking' = knocking /\ sentCount' = sentCount
  BY DEF HangUp
<1>2. <<>> \in Seq(Bytes) /\ Len(<<>>) <= CommandBuffer /\ <<>> \in Seq(Characters)
  BY EmptySeq, Limits
<1>3. ControlTypes'
  BY <1>1, <1>2 DEF ControlInv, ControlTypes
<1>4. EveryCommandOnce'
  BY <1>1 DEF ControlInv, EveryCommandOnce
<1> QED
  BY <1>1, <1>3, <1>4 DEF ControlInv

\* Listening, failing to accept, and the start of a call.
LEMMA ServerStep ==
  ControlInv /\ (ControlListen \/ AcceptFails \/ BeginRecv) => ControlInv'
<1> SUFFICES ASSUME ControlInv, ControlListen \/ AcceptFails \/ BeginRecv PROVE ControlInv'
  OBVIOUS
<1>1. /\ buffer' = buffer /\ stream' = stream /\ torn' = torn /\ dispatched' = dispatched
      /\ visited' = visited /\ knocking' = knocking /\ unread' = unread /\ hungUp' = hungUp
      /\ sentCount' = sentCount
  BY DEF ControlListen, AcceptFails, BeginRecv, clientSide
<1>2. \/ control' \in {"listening", "failed"} /\ receiving' = receiving /\ control # "accepted"
      \/ control' = control /\ receiving' = TRUE /\ control = "accepted" /\ ~receiving
  BY DEF ControlListen, AcceptFails, BeginRecv
<1>3. ControlTypes'
  <2>1. control' \in {"closed", "listening", "accepted", "failed"} /\ receiving' \in BOOLEAN
    BY <1>2 DEF ControlInv, ControlTypes
  <2> QED
    BY <1>1, <2>1 DEF ControlInv, ControlTypes
<1>4. EveryCommandOnce'
  BY <1>1 DEF ControlInv, EveryCommandOnce
<1> QED
  BY <1>1, <1>2, <1>3, <1>4 DEF ControlInv

\* What the clients do.
LEMMA ClientStep ==
  ASSUME ControlInv,
         Knock \/ CloseEnd \/ (\E ch \in Characters : SendCharacter(ch))
           \/ UNCHANGED controlVars
  PROVE  ControlInv'
<1>1. /\ control' = control /\ receiving' = receiving /\ buffer' = buffer /\ stream' = stream
      /\ torn' = torn /\ dispatched' = dispatched
  BY DEF Knock, CloseEnd, SendCharacter, controlVars, serverSide
<1>2. ControlTypes'
  <2>1. unread' \in Seq(Characters)
    <3>1. unread \in Seq(Characters)
      BY DEF ControlInv, ControlTypes
    <3>2. CASE \E ch \in Characters : SendCharacter(ch)
      <4>1. PICK ch \in Characters : unread' = Append(unread, ch)
        BY <3>2 DEF SendCharacter
      <4> QED
        BY <3>1, <4>1, AppendProperties
    <3>3. CASE Knock \/ CloseEnd \/ UNCHANGED controlVars
      <4>1. unread' = unread
        BY <3>3 DEF Knock, CloseEnd, controlVars, clientSide
      <4> QED
        BY <3>1, <4>1
    <3> QED
      BY <3>2, <3>3
  <2>2. /\ knocking' \in BOOLEAN /\ hungUp' \in BOOLEAN
        /\ visited' \in Nat /\ sentCount' \in Nat
    <3>1. /\ knocking' = TRUE \/ knocking' = knocking
          /\ hungUp' = TRUE \/ hungUp' = hungUp
          /\ visited' = visited + 1 \/ visited' = visited
          /\ sentCount' = sentCount + 1 \/ sentCount' = sentCount
      BY DEF Knock, CloseEnd, SendCharacter, controlVars, clientSide
    <3>2. knocking \in BOOLEAN /\ hungUp \in BOOLEAN /\ visited \in Nat /\ sentCount \in Nat
      BY DEF ControlInv, ControlTypes
    <3>3. knocking' \in BOOLEAN /\ hungUp' \in BOOLEAN
      BY <3>1, <3>2
    <3>4. visited' \in Nat /\ sentCount' \in Nat
      BY <3>1, <3>2
    <3> QED
      BY <3>3, <3>4
  <2> QED
    BY <1>1, <2>1, <2>2 DEF ControlInv, ControlTypes
<1>3. EveryCommandOnce'
  BY <1>1 DEF ControlInv, EveryCommandOnce
<1> QED
  BY <1>1, <1>2, <1>3 DEF ControlInv

\* Every step keeps the invariant.
LEMMA ControlStep == ControlInv /\ [ControlNext]_controlVars => ControlInv'
  BY AcceptStep, ReceiveStep, EndRecvStep, HangUpStep, ServerStep, ClientStep
     DEF ControlNext, Serve

\* Between any two steps of the server and its clients the buffer holds what was read and
\* not dispatched: whatever the sizes of Buffer and ArgV, however the bytes are cut into
\* reads.
THEOREM ControlInvariant == ControlSpec => []ControlInv
  BY ControlStarts, ControlStep, PTL DEF ControlSpec

\* Writer_ControlRecv dispatches each line that a client has sent once and as it was sent,
\* although it parses what it keeps once more with every read, blanked by then; unless a
\* call has returned in the middle of a line.
THEOREM CommandsOnce == ControlSpec => []EveryCommandOnce
<1>1. ControlInv => EveryCommandOnce
  BY DEF ControlInv
<1> QED
  BY <1>1, ControlInvariant, PTL
=============================================================================
