------------------------------ MODULE RtpPacket ------------------------------
(***************************************************************************)
(* RTP packets, byte by byte: RTPPacketBuilder, which numbers and stamps   *)
(* them, the constructors of RTPPacket that lay them out, and              *)
(* RTPPacket::ParseRawPacket that takes a received one apart.  A random     *)
(* number is any of a few.                                                 *)
(***************************************************************************)
EXTENDS Integers, SequencesExt

CONSTANTS
    SeqWrap, StampWrap,     \* 2^16, and 2^32 (at most 2^30 in a run)
    CountWrap,              \* of numpackets and numpayloadbytes, 2^32
    RandomSeqs,             \* the first sequence numbers
    RandomStamps,           \* the first timestamps
    RandomSSRCs,
    MaxCSRCs,               \* RTP_MAXCSRCS, 15
    Unset                   \* a default that was not given

ASSUME RtpPacketAssumption ==
    /\ {SeqWrap, StampWrap, CountWrap} \subseteq Nat \ {0} /\ SeqWrap <= 65536
    /\ RandomSeqs \subseteq 0 .. SeqWrap - 1 /\ RandomSeqs # {}
    /\ RandomStamps \subseteq 0 .. StampWrap - 1 /\ RandomStamps # {}
    /\ (StampWrap - 1) \div 65536 < 65536
    /\ \A n \in RandomSSRCs : n \in Nat /\ n \div 65536 < 65536
    /\ RandomSSRCs # {}
    /\ MaxCSRCs \in Nat /\ MaxCSRCs <= 15

VARIABLES
    rtpbuilder,     \* the RTPPacketBuilder
    clock,          \* the time, in ticks
    rtpasked,       \* what the last packet built should hold
    wire,           \* its bytes, or those of a packet received
    counted         \* history: [bytes, stamps] of the packets of this SSRC

rtpVars == <<rtpbuilder, clock, rtpasked, wire, counted>>

HeaderSize == 12
ExtensionHeader == 4
NoExtension == [id |-> -1, data |-> <<>>]
Nothing == [payload |-> <<>>]

NewRtpBuilder ==
    [init |-> FALSE, max |-> 0, ssrc |-> 0, timestamp |-> 0, seqnr |-> 0, csrcs |-> <<>>,
     numpackets |-> 0, numpayloadbytes |-> 0, pt |-> Unset, mark |-> Unset, inc |-> Unset,
     lastwallclocktime |-> 0, lastrtptimestamp |-> 0, prevrtptimestamp |-> 0]

RtpInit ==
    /\ rtpbuilder = NewRtpBuilder /\ clock = 0
    /\ rtpasked = Nothing /\ wire = <<>>
    /\ counted = <<>>

Octets == {n \in Nat : n < 256}
Uint16 == {n \in Nat : n < 65536}
Uint32 == {n \in Nat : n \div 65536 < 65536}

htons(n) == <<(n \div 256) % 256, n % 256>>
htonl(n) == <<(n \div 16777216) % 256, (n \div 65536) % 256, (n \div 256) % 256, n % 256>>
ntohs(b) == 256 * b[1] + b[2]
ntohl(b) == 16777216 * b[1] + 65536 * b[2] + 256 * b[3] + b[4]

\* The size bytes that begin behind the first from.
Bytes(s, from, size) == SubSeq(s, from + 1, from + size)
-----------------------------------------------------------------------------
(* RTPPacket::BuildPacket and FillPacketHeader: the bytes of p, a record    *)
(* [pt, mark, seq, stamp, ssrc, csrcs, ext, payload].                        *)

FixedHeader(p) ==
    LET flag(b, v) == IF b THEN v ELSE 0
    IN  <<2 * 64 + flag(p.ext # NoExtension, 16) + Len(p.csrcs), flag(p.mark, 128) + (p.pt % 128)>>
        \o htons(p.seq) \o htonl(p.stamp) \o htonl(p.ssrc)

\* Four bytes for each.
CSRCBytes(csrcs) ==
    [i \in 1 .. 4 * Len(csrcs) |-> htonl(csrcs[(i - 1) \div 4 + 1])[((i - 1) % 4) + 1]]

ExtensionBytes(ext) ==
    IF ext = NoExtension THEN <<>>
    ELSE htons(ext.id) \o htons(Len(ext.data) \div 4) \o ext.data

RtpBytes(p) == FixedHeader(p) \o CSRCBytes(p.csrcs) \o ExtensionBytes(p.ext) \o p.payload

PacketLength(p) ==
    HeaderSize + 4 * Len(p.csrcs) + Len(p.payload)
        + IF p.ext = NoExtension THEN 0 ELSE ExtensionHeader + Len(p.ext.data)

LooksLikeRTCP(pt) == pt \in {72, 73}

CanBuildPacket(p, maxsize) == p.pt <= 127 /\ ~LooksLikeRTCP(p.pt) /\ PacketLength(p) <= maxsize

-----------------------------------------------------------------------------
(* RTPPacketBuilder *)

RtpUnchanged == UNCHANGED <<clock, rtpasked, wire>>

CreateNewSSRC(b) ==
    \E s \in RandomSSRCs, t \in RandomStamps, n \in RandomSeqs :
        rtpbuilder' = [b EXCEPT !.ssrc = s, !.timestamp = t, !.seqnr = n,
                                !.numpackets = 0, !.numpayloadbytes = 0]

InitBuilder(max) ==
    /\ ~rtpbuilder.init /\ max > 0
    /\ CreateNewSSRC([rtpbuilder EXCEPT !.init = TRUE, !.max = max, !.csrcs = <<>>,
                                        !.pt = Unset, !.mark = Unset, !.inc = Unset])
    /\ counted' = <<>> /\ RtpUnchanged

DestroyBuilder ==
    /\ rtpbuilder.init
    /\ rtpbuilder' = [rtpbuilder EXCEPT !.init = FALSE]
    /\ UNCHANGED counted /\ RtpUnchanged

NewSSRC ==
    /\ rtpbuilder.init
    /\ CreateNewSSRC(rtpbuilder)
    /\ counted' = <<>> /\ RtpUnchanged

SetUp(b) == rtpbuilder.init /\ rtpbuilder' = b /\ UNCHANGED counted /\ RtpUnchanged

SetMaximumPacketSize(max) == max > 0 /\ SetUp([rtpbuilder EXCEPT !.max = max])

\* A mutant: the list is not searched first.
AddCSRCUnsearched(c) ==
    /\ Len(rtpbuilder.csrcs) < MaxCSRCs
    /\ SetUp([rtpbuilder EXCEPT !.csrcs = Append(@, c)])

AddCSRC(c) ==
    /\ Len(rtpbuilder.csrcs) < MaxCSRCs
    /\ \A i \in DOMAIN rtpbuilder.csrcs : rtpbuilder.csrcs[i] # c
    /\ SetUp([rtpbuilder EXCEPT !.csrcs = Append(@, c)])

\* The last one takes the place of the deleted one.
DeleteCSRC(c) ==
    \E i \in DOMAIN rtpbuilder.csrcs :
        /\ rtpbuilder.csrcs[i] = c
        /\ LET rest == Front(rtpbuilder.csrcs)
           IN  SetUp([rtpbuilder EXCEPT
                        !.csrcs = IF i > Len(rest) THEN rest ELSE [rest EXCEPT ![i] = Last(rtpbuilder.csrcs)]])

ClearCSRCList == SetUp([rtpbuilder EXCEPT !.csrcs = <<>>])
SetDefaultPayloadType(pt) == SetUp([rtpbuilder EXCEPT !.pt = pt])
SetDefaultMark(m) == SetUp([rtpbuilder EXCEPT !.mark = m])
SetDefaultTimestampIncrement(inc) == SetUp([rtpbuilder EXCEPT !.inc = inc])

IncrementTimestamp(inc) ==
    SetUp([rtpbuilder EXCEPT !.timestamp = (@ + inc) % StampWrap])

IncrementTimestampDefault == rtpbuilder.inc # Unset /\ IncrementTimestamp(rtpbuilder.inc)

\* What both PrivateBuildPacket do once the packet is laid out.
PacketBuilt(p, inc) ==
    LET b == rtpbuilder
        new == b.numpackets = 0 \/ b.timestamp # b.prevrtptimestamp
    IN  /\ rtpbuilder' =
             [b EXCEPT !.lastwallclocktime = IF new THEN clock ELSE @,
                       !.lastrtptimestamp = IF new THEN b.timestamp ELSE @,
                       !.prevrtptimestamp = IF new THEN b.timestamp ELSE @,
                       !.numpayloadbytes = (@ + Len(p.payload)) % CountWrap,
                       !.numpackets = (@ + 1) % CountWrap,
                       !.timestamp = (@ + inc) % StampWrap, !.seqnr = (@ + 1) % SeqWrap]
        /\ wire' = RtpBytes(p)
        /\ rtpasked' = p
        /\ counted' = Append(counted, [bytes |-> Len(p.payload), stamp |-> p.stamp, at |-> clock])
        /\ UNCHANGED clock

Numbered(pt, mark, csrcs, ext, payload) ==
    [pt |-> pt, mark |-> mark, seq |-> rtpbuilder.seqnr, stamp |-> rtpbuilder.timestamp,
     ssrc |-> rtpbuilder.ssrc, csrcs |-> csrcs, ext |-> ext, payload |-> payload]

\* BuildPacket and BuildPacketEx with a payload type, a marker and an increment.
BuildPacketWith(pt, mark, inc, ext, payload) ==
    LET p == Numbered(pt, mark, rtpbuilder.csrcs, ext, payload)
    IN  rtpbuilder.init /\ CanBuildPacket(p, rtpbuilder.max) /\ PacketBuilt(p, inc)

DefaultsSet == Unset \notin {rtpbuilder.pt, rtpbuilder.inc} /\ rtpbuilder.mark # Unset

\* The same, with the defaults.
BuildDefault(ext, payload) ==
    DefaultsSet /\ BuildPacketWith(rtpbuilder.pt, rtpbuilder.mark, rtpbuilder.inc, ext, payload)

\* BuildPacketEX: only a header, before the payload in the caller's buffer.  It
\* looks neither at init nor at the defaults being set; its callers have done both.
BuildPacketEX(payload) ==
    /\ rtpbuilder.init /\ DefaultsSet
    /\ PacketBuilt(Numbered(rtpbuilder.pt, rtpbuilder.mark, <<>>, NoExtension, payload), rtpbuilder.inc)

Passes == clock' = clock + 1 /\ UNCHANGED <<rtpbuilder, rtpasked, wire, counted>>
-----------------------------------------------------------------------------
(* RTPPacket::ParseRawPacket of a packet that came in on the RTP port *)

CSRCCount(bytes) == bytes[1] % 16
Padded(bytes) == (bytes[1] \div 32) % 2 = 1
Extended(bytes) == (bytes[1] \div 16) % 2 = 1
Padding(bytes) == IF Padded(bytes) THEN bytes[Len(bytes)] ELSE 0
CSRCsEnd(bytes) == HeaderSize + 4 * CSRCCount(bytes)

\* A mutant: the header of the extension is taken for part of its length.
ExtensionEndShort(bytes) ==
    LET from == CSRCsEnd(bytes) + ExtensionHeader
    IN  IF ~Extended(bytes) THEN CSRCsEnd(bytes)
        ELSE IF from > Len(bytes) THEN from
        ELSE CSRCsEnd(bytes) + 4 * ntohs(Bytes(bytes, from - 2, 2))

\* A header extension that would begin behind the end has any length.
ExtensionEnd(bytes) ==
    LET from == CSRCsEnd(bytes) + ExtensionHeader
    IN  IF ~Extended(bytes) THEN CSRCsEnd(bytes)
        ELSE IF from > Len(bytes) THEN from
        ELSE from + 4 * ntohs(Bytes(bytes, from - 2, 2))

PayloadLength(bytes) == Len(bytes) - Padding(bytes) - ExtensionEnd(bytes)

Accepted(bytes) ==
    /\ Len(bytes) >= HeaderSize
    /\ bytes[1] \div 64 = 2
    /\ ~(bytes[2] >= 128 /\ LooksLikeRTCP(bytes[2] % 128))
    /\ Padded(bytes) => Padding(bytes) > 0
    /\ PayloadLength(bytes) >= 0

GetCSRC(bytes, i) == ntohl(Bytes(bytes, HeaderSize + 4 * (i - 1), 4))

ReadExtension(bytes) ==
    LET from == CSRCsEnd(bytes)
    IN  IF ~Extended(bytes) THEN NoExtension
        ELSE [id |-> ntohs(Bytes(bytes, from, 2)),
              data |-> Bytes(bytes, from + ExtensionHeader, ExtensionEnd(bytes) - from - ExtensionHeader)]

ParseRawPacket(bytes) ==
    [pt |-> bytes[2] % 128, mark |-> bytes[2] >= 128,
     seq |-> ntohs(Bytes(bytes, 2, 2)), stamp |-> ntohl(Bytes(bytes, 4, 4)),
     ssrc |-> ntohl(Bytes(bytes, 8, 4)),
     csrcs |-> [i \in 1 .. CSRCCount(bytes) |-> GetCSRC(bytes, i)],
     ext |-> ReadExtension(bytes),
     payload |-> Bytes(bytes, ExtensionEnd(bytes), PayloadLength(bytes))]

ReceiveRtp(bytes) ==
    /\ wire' = bytes /\ rtpasked' = Nothing
    /\ UNCHANGED <<rtpbuilder, clock, counted>>
-----------------------------------------------------------------------------
\* Any calls with any arguments, and any datagrams.
HeaderExtensions ==
    {NoExtension} \cup
    {e \in [id : Uint16, data : Seq(Octets)] : Len(e.data) % 4 = 0 /\ Len(e.data) \div 4 < 65536}

RtpNext ==
    \/ \E max \in Nat : InitBuilder(max) \/ SetMaximumPacketSize(max)
    \/ DestroyBuilder \/ NewSSRC \/ ClearCSRCList \/ IncrementTimestampDefault \/ Passes
    \/ \E n \in Uint32 : \/ AddCSRC(n) \/ DeleteCSRC(n)
                         \/ SetDefaultTimestampIncrement(n) \/ IncrementTimestamp(n)
    \/ \E pt \in Octets, mark \in BOOLEAN : SetDefaultPayloadType(pt) \/ SetDefaultMark(mark)
    \/ \E payload \in Seq(Octets) :
          \/ BuildPacketEX(payload) \/ ReceiveRtp(payload)
          \/ \E ext \in HeaderExtensions :
                \/ BuildDefault(ext, payload)
                \/ \E pt \in Octets, mark \in BOOLEAN, inc \in Uint32 :
                      BuildPacketWith(pt, mark, inc, ext, payload)

RtpSpec == RtpInit /\ [][RtpNext]_rtpVars
-----------------------------------------------------------------------------
RtpTypeOK ==
    /\ rtpbuilder.init \in BOOLEAN
    /\ rtpbuilder.timestamp \in 0 .. StampWrap - 1 /\ rtpbuilder.seqnr \in 0 .. SeqWrap - 1
    /\ Len(rtpbuilder.csrcs) <= MaxCSRCs /\ IsInjective(rtpbuilder.csrcs)
    /\ wire \in Seq(0 .. 255)

\* The packets at which the clock was read: a new timestamp, or the count is at 0.
ReadsClock(i) == (i - 1) % CountWrap = 0 \/ counted[i].stamp # counted[i - 1].stamp

PayloadBytes(q) == FoldLeft(LAMBDA n, c : n + c.bytes, 0, q)

SenderInfoIsRight ==
    LET b == rtpbuilder
    IN  /\ b.numpackets = Len(counted) % CountWrap
        /\ b.numpayloadbytes = PayloadBytes(counted) % CountWrap
        /\ counted # <<>> =>
              /\ b.lastrtptimestamp = Last(counted).stamp
              /\ b.lastwallclocktime = counted[Max({i \in DOMAIN counted : ReadsClock(i)})].at

ReadsBack ==
    LET sent == [rtpasked EXCEPT !.pt = @ % 128]
    IN  \/ Accepted(wire) /\ ParseRawPacket(wire) = sent
        \/ sent.mark /\ LooksLikeRTCP(sent.pt) /\ ~Accepted(wire)

StaysInside ==
    LET p == ParseRawPacket(wire)
        before == CSRCsEnd(wire) + IF Extended(wire) THEN ExtensionHeader + Len(p.ext.data) ELSE 0
    IN  before + Len(p.payload) + Padding(wire) = Len(wire)

(* A packet that is built is taken apart again into what it was built from,   *)
(* whatever CSRCs were added and deleted before, across the wraps of sequence  *)
(* number and timestamp.  Not so a payload type of more than seven bits, which  *)
(* comes out without the eighth, and one that reads as RTCP, which with the    *)
(* marker the receiver drops: only BuildPacketEX lets them pass.  Of           *)
(* any packet that is accepted, the CSRCs, the extension, the payload and the  *)
(* padding are inside it and fill it.  And the next sender report says how     *)
(* many packets and bytes were sent under this SSRC, and at which time the     *)
(* first packet with the last timestamp was built; only when the number of     *)
(* packets wraps between two of them is it the first one behind the wrap.      *)
RtpIsRead ==
    /\ rtpasked # Nothing => ReadsBack
    /\ Accepted(wire) => StaysInside
    /\ SenderInfoIsRight
=============================================================================
