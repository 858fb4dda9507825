--------------------------- MODULE CompoundPacket ---------------------------
(***************************************************************************)
(* RTCP compound packets: the builder (RTCPCompoundPacketBuilder), which   *)
(* counts the bytes of what it is given before it lays anything out, and   *)
(* the parser (RTCPCompoundPacket and the classes of its packets).  A      *)
(* packet is the sequence of its bytes; what the properties do not tell    *)
(* apart (timestamps, jitter, texts) is filler of the right length.        *)
(* Calls that fail leave the builder as it was.                            *)
(***************************************************************************)
EXTENDS Integers, SequencesExt

CONSTANTS
    MaxCount,       \* 31: report blocks or chunks in one packet
    MinPacket,      \* RTP_MINPACKETSIZE
    MaxItem         \* 255: the length of an SDES item

ASSUME CompoundAssumption ==
    MaxCount \in 1 .. 31 /\ MinPacket \in Nat /\ MaxItem \in 1 .. 255

VARIABLES
    builder,        \* the RTCPCompoundPacketBuilder
    asked,          \* for the properties: the builder as EndBuild found it
    received        \* an SDES packet from the network

packetVars == <<builder, asked, received>>

Header == 4         \* sizeof(RTCPCommonHeader)
SSRC == 4           \* sizeof(uint32_t)
SenderReport == 20
ReceiverReport == 24
SDESHeader == 2

SR == 200  RR == 201  SDES == 202  BYE == 203  APP == 204
PRIV == 8

Ceil(n, k) == (n + k - 1) \div k
RoundUp(n) == 4 * Ceil(n, 4)
Fill(byte, n) == [i \in 1 .. n |-> byte]
TotalOf(q) == FoldLeft(LAMBDA sum, n : sum + n, 0, q)
Sizes(q) == [i \in DOMAIN q |-> Len(q[i])]

NewBuilder ==
    [building |-> FALSE, maximum |-> 0, report |-> "none", ssrc |-> 0,
     blocks |-> <<>>, sources |-> <<>>, apps |-> <<>>, byes |-> <<>>,
     packet |-> <<>>]
-----------------------------------------------------------------------------
(* The bytes needed *)

IsSR(b) == b.report = "SR"
HeaderLength(b) == SSRC + IF IsSR(b) THEN SenderReport ELSE 0

BlocksNeed(b, n) ==
    n * ReceiverReport + Ceil(n, MaxCount) * (Header + SSRC) + IF IsSR(b) THEN SenderReport ELSE 0

ReportNeeds(b) ==
    IF b.report = "none" THEN 0
    ELSE IF b.blocks = <<>> THEN Header + HeaderLength(b)
    ELSE BlocksNeed(b, Len(b.blocks))

ReportNeedsWithBlock(b) == BlocksNeed(b, Len(b.blocks) + 1)

\* A mutant: the zero that ends the list of items is not counted.
ChunkNeedsNoEnd(n) == RoundUp(n) + SSRC

ChunkNeeds(n) == RoundUp(n + 1) + SSRC
ItemsSize(s) == TotalOf(Sizes(s.items))
ChunksNeed(q) == TotalOf([i \in DOMAIN q |-> ChunkNeeds(ItemsSize(q[i]))])
SDESHeaders(n) == Ceil(n, MaxCount) * Header

SDESNeeds(b) == ChunksNeed(b.sources) + SDESHeaders(Len(b.sources))

SDESNeedsWithItem(b, n) ==
    ChunksNeed(Front(b.sources)) + ChunkNeeds(ItemsSize(Last(b.sources)) + SDESHeader + n)
        + SDESHeaders(Len(b.sources))

\* Without a source yet the answer is 0.
SDESNeedsWithSource(b) ==
    IF b.sources = <<>> THEN 0
    ELSE ChunksNeed(b.sources) + 2 * SSRC + SDESHeaders(Len(b.sources) + 1)

PacketsNeed(b) == TotalOf(Sizes(b.apps)) + TotalOf(Sizes(b.byes))
Needed(b) == PacketsNeed(b) + ReportNeeds(b) + SDESNeeds(b)
-----------------------------------------------------------------------------
(* The calls: a condition on the builder, and what the call makes of it *)

CanInitBuild(b, n) == ~b.building /\ b.packet = <<>> /\ n >= MinPacket
InitBuild(b, n) == [b EXCEPT !.building = TRUE, !.maximum = n]

\* The space left is an unsigned difference.
CanStart(b, n) ==
    LET total == PacketsNeed(b) + SDESNeeds(b)
    IN  /\ b.building /\ b.report = "none"
        /\ total > b.maximum \/ n <= b.maximum - total

CanStartSenderReport(b) == CanStart(b, Header + SSRC + SenderReport)
CanStartReceiverReport(b) == CanStart(b, Header + SSRC)
StartReport(b, type, s) == [b EXCEPT !.report = type, !.ssrc = s]

\* blk: [ssrc, lost]
CanAddReportBlock(b) ==
    /\ b.building /\ b.report # "none"
    /\ PacketsNeed(b) + SDESNeeds(b) + ReportNeedsWithBlock(b) <= b.maximum
AddReportBlock(b, blk) == [b EXCEPT !.blocks = Append(@, blk)]

CanAddSDESSource(b) ==
    b.building /\ PacketsNeed(b) + ReportNeeds(b) + SDESNeedsWithSource(b) <= b.maximum
AddSDESSource(b, s) == [b EXCEPT !.sources = Append(@, [ssrc |-> s, items |-> <<>>])]

CanAddItem(b, n) ==
    /\ b.building /\ b.sources # <<>>
    /\ PacketsNeed(b) + ReportNeeds(b) + SDESNeedsWithItem(b, n) <= b.maximum
AddItem(b, bytes) == [b EXCEPT !.sources[Len(b.sources)].items = Append(@, bytes)]

CanAddSDESNormalItem(b, n) == CanAddItem(b, n)
AddSDESNormalItem(b, id, n) == AddItem(b, <<id, n>> \o Fill(id, n))

\* prefix and value are lengths.
PrivateLength(prefix, value) == prefix + 1 + value
CanAddSDESPrivateItem(b, prefix, value) ==
    PrivateLength(prefix, value) <= MaxItem /\ CanAddItem(b, PrivateLength(prefix, value))
AddSDESPrivateItem(b, prefix, value) ==
    AddItem(b, <<PRIV, PrivateLength(prefix, value), prefix>> \o Fill(PRIV, prefix + value))

\* The length counts words, in 16 bits.
HeaderBytes(type, count, n) ==
    LET words == (n \div 4 - 1) % 65536
    IN  <<128 + count, type, words \div 256, words % 256>>
Word(s) == <<0, 0, 0, s>>
Words(q) == FlattenSeq([i \in DOMAIN q |-> Word(q[i])])

\* The reason follows its length and is filled up to a word; n is its length.
ByeSize(count, n) ==
    IF n = 0 THEN Header + SSRC * count ELSE RoundUp(Header + SSRC * count + 1 + n)
ByeBytes(ssrcs, n) ==
    LET size == ByeSize(Len(ssrcs), n)
        body == Words(ssrcs) \o IF n = 0 THEN <<>> ELSE <<n>> \o Fill(9, n)
    IN  HeaderBytes(BYE, Len(ssrcs), size) \o body \o Fill(0, size - Header - Len(body))

CanAddPacket(b, size) == b.building /\ Needed(b) + size <= b.maximum
CanAddBYEPacket(b, ssrcs, n) == Len(ssrcs) <= 31 /\ CanAddPacket(b, ByeSize(Len(ssrcs), n))
AddBYEPacket(b, ssrcs, n) == [b EXCEPT !.byes = Append(@, ByeBytes(ssrcs, n))]

AppSize(n) == Header + 2 * SSRC + n
AppBytes(subtype, s, n) == HeaderBytes(APP, subtype, AppSize(n)) \o Word(s) \o Fill(5, 4 + n)
CanAddAPPPacket(b, subtype, n) ==
    subtype <= 31 /\ n % 4 = 0 /\ n \div 4 + 2 <= 65535 /\ CanAddPacket(b, AppSize(n))
AddAPPPacket(b, subtype, s, n) == [b EXCEPT !.apps = Append(@, AppBytes(subtype, s, n))]
-----------------------------------------------------------------------------
(* EndBuild *)

\* The groups of at most MaxCount.
Group(q, k) == SubSeq(q, (k - 1) * MaxCount + 1, IF k * MaxCount < Len(q) THEN k * MaxCount ELSE Len(q))

\* The number of packets lost is cut to 24 bits.
BlockBytes(blk) ==
    LET n == blk.lost % (256 * 256 * 256)
    IN  Word(blk.ssrc) \o <<1, n \div (256 * 256), (n \div 256) % 256, n % 256>> \o Fill(2, 16)

ReportPacket(b, k) ==
    LET blocks == Group(b.blocks, k)
        sr == k = 1 /\ IsSR(b)
        body == Word(b.ssrc) \o Fill(3, IF sr THEN SenderReport ELSE 0)
                    \o FlattenSeq([i \in DOMAIN blocks |-> BlockBytes(blocks[i])])
    IN  HeaderBytes(IF sr THEN SR ELSE RR, Len(blocks), Header + Len(body)) \o body

ChunkBytes(s) ==
    LET body == Word(s.ssrc) \o FlattenSeq(s.items)
    IN  body \o Fill(0, RoundUp(Len(body) + 1) - Len(body))

SDESPacket(b, k) ==
    LET sources == Group(b.sources, k)
        body == FlattenSeq([i \in DOMAIN sources |-> ChunkBytes(sources[i])])
    IN  HeaderBytes(SDES, Len(sources), Header + Len(body)) \o body

\* A report goes out even if it has no block.
ReportPackets(b) == IF b.blocks = <<>> THEN 1 ELSE Ceil(Len(b.blocks), MaxCount)

Layout(b) ==
    FlattenSeq([k \in 1 .. ReportPackets(b) |-> ReportPacket(b, k)])
        \o FlattenSeq([k \in 1 .. Ceil(Len(b.sources), MaxCount) |-> SDESPacket(b, k)])
        \o FlattenSeq(b.apps) \o FlattenSeq(b.byes)

CanEndBuild(b) == b.building /\ b.report # "none"
EndBuild(b) == [NewBuilder EXCEPT !.maximum = b.maximum, !.packet = Layout(b)]
-----------------------------------------------------------------------------
(* The parser: data is a sequence of bytes, offsets count from 0 *)

At0(data, o) == data[o + 1]
Version(data) == At0(data, 0) \div 64
HasPadding(data) == (At0(data, 0) \div 32) % 2 = 1
CountOf(data) == At0(data, 0) % 32
TypeOf(data) == At0(data, 1)
LengthOf(data) == 4 * (256 * At0(data, 2) + At0(data, 3) + 1)
WordAt(data, o) == At0(data, o + 3)
From(data, o) == SubSeq(data, o + 1, Len(data))

Invalid == [ok |-> FALSE, packets |-> <<>>]

ValidHeader(data) ==
    /\ Len(data) >= Header
    /\ Version(data) = 2
    /\ LengthOf(data) <= Len(data)
    /\ HasPadding(data) => LengthOf(data) = Len(data)

\* One packet after the other, from offset to offset.
ParseAll(data) ==
    LET parse[o \in Nat] ==
          LET next == From(data, o)
              rest == parse[o + LengthOf(next)]
          IN  IF next = <<>> THEN [ok |-> TRUE, packets |-> <<>>]
              ELSE IF ~ValidHeader(next) \/ ~rest.ok THEN Invalid
              ELSE [rest EXCEPT !.packets = <<SubSeq(next, 1, LengthOf(next))>> \o @]
    IN  parse[0]

ParseData(data) ==
    IF Len(data) < Header \/ TypeOf(data) \notin {SR, RR} THEN Invalid ELSE ParseAll(data)

\* Each constructor takes the padding off first.
PadCount(data) == IF HasPadding(data) THEN Last(data) ELSE 0
PaddingFits(data) == PadCount(data) % 4 = 0 /\ PadCount(data) < Len(data)
Unpadded(data) == Len(data) - PadCount(data)

KnownReport(data, extra) ==
    PaddingFits(data) /\ Unpadded(data) = Header + SSRC + extra + ReceiverReport * CountOf(data)
KnownAPP(data) == PaddingFits(data) /\ Unpadded(data) >= Header + 2 * SSRC

ReasonOffset(data) == Header + SSRC * CountOf(data)
KnownBYE(data) ==
    /\ PaddingFits(data)
    /\ ReasonOffset(data) <= Unpadded(data)
    /\ ReasonOffset(data) < Unpadded(data) =>
          At0(data, ReasonOffset(data)) <= Unpadded(data) - ReasonOffset(data) - 1

Outside == -1

\* Where the list of items that starts at from ends, in a packet of n bytes.
EndOfItems(data, from, n) ==
    LET end[o \in Nat] ==
          IF o >= n THEN Outside
          ELSE IF At0(data, o) = 0 THEN (IF RoundUp(o + 1) > n THEN Outside ELSE RoundUp(o + 1))
          ELSE IF o + SDESHeader > n \/ o + SDESHeader + At0(data, o + 1) > n THEN Outside
          ELSE end[o + SDESHeader + At0(data, o + 1)]
    IN  end[from]

\* Where the first k chunks end, in a packet of n bytes.
EndOfChunks(data, n, k) ==
    LET end[i \in Nat] ==
          LET o == end[i - 1]
          IN  IF i = 0 THEN Header
              ELSE IF o = Outside \/ n - o < 2 * SSRC THEN Outside
              ELSE EndOfItems(data, o + SSRC, n)
    IN  end[k]

\* A mutant: the chunks may reach into the padding.
KnownSDESPadded(data) == PaddingFits(data) /\ EndOfChunks(data, Len(data), CountOf(data)) = Len(data)

KnownSDES(data) == PaddingFits(data) /\ EndOfChunks(data, Unpadded(data), CountOf(data)) = Unpadded(data)

KnownFormat(data) ==
    CASE TypeOf(data) = SR -> KnownReport(data, SenderReport)
      [] TypeOf(data) = RR -> KnownReport(data, 0)
      [] TypeOf(data) = SDES -> KnownSDES(data)
      [] TypeOf(data) = BYE -> KnownBYE(data)
      [] TypeOf(data) = APP -> KnownAPP(data)
      [] OTHER -> TRUE
-----------------------------------------------------------------------------
(* Reading an accepted packet: these trust the constructor *)

\* GotoReport, GetSSRC, GetLostPacketCount: 24 bits with a sign.
Signed24(n) == IF n >= 128 * 256 * 256 THEN n - 256 * 256 * 256 ELSE n

ReadBlock(data, o) ==
    [ssrc |-> WordAt(data, o),
     lost |-> Signed24(256 * 256 * At0(data, o + 5) + 256 * At0(data, o + 6) + At0(data, o + 7))]
ReadBlocks(data) ==
    LET first == Header + SSRC + IF TypeOf(data) = SR THEN SenderReport ELSE 0
    IN  [i \in 1 .. CountOf(data) |-> ReadBlock(data, first + (i - 1) * ReceiverReport)]

\* GotoFirstItem, GotoNextItem: the items that start at from, to the zero byte.
ReadItems(data, from) ==
    LET items[o \in Nat] ==
          LET e == o + SDESHeader + At0(data, o + 1)
          IN  IF o >= Len(data) THEN <<<<Outside>>>>
              ELSE IF At0(data, o) = 0 THEN <<>>
              ELSE IF o + 1 >= Len(data) THEN <<<<Outside>>>>
              ELSE <<SubSeq(data, o + 1, e)>> \o items[e]
    IN  items[from]

\* GotoNextChunk: past the items of the chunk at o and the zeros after them.
NextChunk(data, o) ==
    LET items == ReadItems(data, o + SSRC)
    IN  RoundUp(o + SSRC + TotalOf(Sizes(items)) + 1)

\* GotoFirstChunk and GotoNextChunk, k times.
ChunkAt(data, k) ==
    LET at[i \in Nat] == IF i = 0 THEN Header ELSE NextChunk(data, at[i - 1])
    IN  at[k]

ReadChunk(data, o) == [ssrc |-> WordAt(data, o), items |-> ReadItems(data, o + SSRC)]
ReadChunks(data) == [k \in 1 .. CountOf(data) |-> ReadChunk(data, ChunkAt(data, k - 1))]

\* GetPRIVPrefixLength and GetPRIVValueLength of an item.
PrivPrefix(item) ==
    IF item[1] # PRIV \/ item[2] = 0 THEN 0
    ELSE IF item[3] > item[2] - 1 THEN 0 ELSE item[3]
PrivValue(item) ==
    IF item[1] # PRIV \/ item[2] = 0 THEN 0
    ELSE IF item[3] > item[2] - 1 THEN 0 ELSE item[2] - item[3] - 1

ReadSSRCs(data) == [i \in 1 .. CountOf(data) |-> WordAt(data, Header + SSRC * (i - 1))]
ReasonLength(data) ==
    IF ReasonOffset(data) < Unpadded(data) THEN At0(data, ReasonOffset(data)) ELSE 0
APPDataLength(data) == Unpadded(data) - Header - 2 * SSRC
-----------------------------------------------------------------------------
(* One builder, one call at a time, and packets from the network *)

BuilderInit == builder = NewBuilder /\ asked = NewBuilder /\ received = <<>>

Call(can, b) == can /\ builder' = b /\ UNCHANGED <<asked, received>>

CallInitBuild(n) == Call(CanInitBuild(builder, n), InitBuild(builder, n))
CallStartReport(s) ==
    \/ Call(CanStartSenderReport(builder), StartReport(builder, "SR", s))
    \/ Call(CanStartReceiverReport(builder), StartReport(builder, "RR", s))
CallAddReportBlock(blk) == Call(CanAddReportBlock(builder), AddReportBlock(builder, blk))
CallAddSDESSource(s) == Call(CanAddSDESSource(builder), AddSDESSource(builder, s))
CallAddNormalItem(id, n) ==
    Call(CanAddSDESNormalItem(builder, n), AddSDESNormalItem(builder, id, n))
CallAddPrivateItem(prefix, value) ==
    Call(CanAddSDESPrivateItem(builder, prefix, value), AddSDESPrivateItem(builder, prefix, value))
CallAddBYEPacket(ssrcs, n) ==
    Call(CanAddBYEPacket(builder, ssrcs, n), AddBYEPacket(builder, ssrcs, n))
CallAddAPPPacket(subtype, s, n) ==
    Call(CanAddAPPPacket(builder, subtype, n), AddAPPPacket(builder, subtype, s, n))
CallEndBuild ==
    /\ CanEndBuild(builder)
    /\ builder' = EndBuild(builder) /\ asked' = builder
    /\ UNCHANGED received

Receive(data) == received = <<>> /\ received' = data /\ UNCHANGED <<builder, asked>>

ByteValues == {n \in Nat : n < 256}

\* RTPUDPV4TRANS_MAXPACKSIZE and the same of the other transmitters.  The length
\* of a packet of 2^18 bytes would not fit its header.
MaxPackSize == 65535

\* Any calls with any arguments, and any packets.
BuilderNext ==
    \/ \E n \in Nat : n <= MaxPackSize /\ CallInitBuild(n)
    \/ \E s \in ByteValues :
          \/ CallStartReport(s) \/ CallAddSDESSource(s)
          \/ \E lost \in Int : CallAddReportBlock([ssrc |-> s, lost |-> lost])
          \/ \E subtype \in Nat, n \in Nat : CallAddAPPPacket(subtype, s, n)
    \/ \E id \in 1 .. 7, n \in ByteValues : CallAddNormalItem(id, n)
    \/ \E prefix \in ByteValues, value \in ByteValues : CallAddPrivateItem(prefix, value)
    \/ \E ssrcs \in Seq(ByteValues), n \in ByteValues : CallAddBYEPacket(ssrcs, n)
    \/ CallEndBuild
    \/ \E data \in Seq(ByteValues) : Receive(data)

BuilderSpec == BuilderInit /\ [][BuilderNext]_packetVars
-----------------------------------------------------------------------------
(* Properties *)

Builders ==
    [building : BOOLEAN, maximum : Nat, report : {"none", "SR", "RR"}, ssrc : ByteValues,
     blocks : Seq([ssrc : ByteValues, lost : Int]),
     sources : Seq([ssrc : ByteValues, items : Seq(Seq(ByteValues))]),
     apps : Seq(Seq(ByteValues)), byes : Seq(Seq(ByteValues)), packet : Seq(ByteValues)]

BuilderTypeOK ==
    /\ {builder, asked} \subseteq Builders /\ received \in Seq(ByteValues)
    /\ builder.packet # <<>> => ~builder.building

OfType(packets, types) ==
    LET kept[i \in Nat] ==
          IF i = 0 THEN <<>>
          ELSE IF TypeOf(packets[i]) \in types THEN Append(kept[i - 1], packets[i])
          ELSE kept[i - 1]
    IN  kept[Len(packets)]

\* What a block says that is read again: its loss, in 24 bits.
Sent24(blk) == [blk EXCEPT !.lost = Signed24(@ % (256 * 256 * 256))]

Collect(packets, Read(_)) == FlattenSeq([i \in DOMAIN packets |-> Read(packets[i])])

\* The parser takes what the builder laid out apart into what it was given: the
\* packet has the size that was counted and allocated, begins with the one
\* report, every packet in it is of a known format, and blocks, chunks with their
\* items, APP and BYE packets come back complete and in order, however they were
\* spread over packets; nothing is larger than its count of 31 allows.
BuildIsRead ==
    builder.packet # <<>> =>
        LET p == ParseData(builder.packet)
            sdes == OfType(p.packets, {SDES})
        IN  /\ Len(builder.packet) = Needed(asked)
            /\ p.ok /\ \A i \in DOMAIN p.packets : KnownFormat(p.packets[i])
            /\ \A i \in DOMAIN p.packets :
                  TypeOf(p.packets[i]) \in {SR, RR, SDES} => CountOf(p.packets[i]) <= MaxCount
            /\ Len(OfType(p.packets, {SR})) = IF IsSR(asked) THEN 1 ELSE 0
            /\ Collect(OfType(p.packets, {SR, RR}), ReadBlocks)
                 = [i \in DOMAIN asked.blocks |-> Sent24(asked.blocks[i])]
            /\ Collect(sdes, ReadChunks) = asked.sources
            /\ OfType(p.packets, {APP}) = asked.apps /\ OfType(p.packets, {BYE}) = asked.byes

\* Whatever the network sends, the walk over the chunks and items of an SDES
\* packet that its constructor took for a known format stays inside the packet,
\* meets as many chunks as the header says, ends at the end of the last one, and
\* no item of it claims a prefix longer than itself.
WalkStaysInside ==
    received # <<>> /\ KnownSDES(received) =>
        LET chunks == ReadChunks(received)
        IN  /\ Len(chunks) = CountOf(received)
            /\ \A i \in DOMAIN chunks : <<Outside>> \notin ToSet(chunks[i].items)
            /\ Header + TotalOf([i \in DOMAIN chunks |-> ChunkNeeds(ItemsSize(chunks[i]))])
                    = Unpadded(received)
            /\ \A i \in DOMAIN chunks : \A j \in DOMAIN chunks[i].items :
                  LET item == chunks[i].items[j]
                  IN  SDESHeader + PrivPrefix(item) + PrivValue(item) <= Len(item)
=============================================================================
