------------------------------ MODULE MCPackets ------------------------------
(***************************************************************************)
(* What goes out, one part at a time, the others standing still: the       *)
(* datagrams of a message, the RTP packets, the RTCP compound packets, the  *)
(* reports and items they carry over time, the description they are filled  *)
(* from, and the limit on their size.                                       *)
(***************************************************************************)
EXTENDS UdpSend, RtcpReports, RtpPacket, SdesInfo, SessionLimits

VARIABLE part

Parts == {"message", "rtp", "compound", "reports", "sdes", "limits"}

mcVars == <<vars, rtpVars, packetVars, reportVars, sdesVars, limitVars, part>>

MCItems == <<2, 3>>

\* The items that are set, and their lengths, are those of this instance.
ASSUME PacketsAssumption == SDESItems = MCItems /\ 30 <= MaxItem

PacketsInit ==
    /\ Init /\ RtpInit /\ BuilderInit /\ ReportsInit /\ SdesInit /\ LimitsInit
    /\ part \in Parts
    /\ part = "message" \/ length = 0
    /\ part = "limits" \/ limit.session = SmallestSize
-----------------------------------------------------------------------------
(* RTP packets: numbered across both wraps, with and without CSRCs and a    *)
(* header extension, and received ones of many shapes.                      *)

Extensions == {NoExtension, [id |-> 258, data |-> <<1, 2, 3, 4>>]}
Payloads == {<<>>, <<7, 8, 9>>}
Contributors == {5, 70000, 6}
FirstStamps == RandomStamps \cup {(t + 3) % StampWrap : t \in RandomStamps}
Built == Len(counted)

Prepares ==
    \/ wire = <<>> /\ InitBuilder(24)
    \/ \E pt \in {0, 72, 224} : rtpbuilder.pt = Unset /\ SetDefaultPayloadType(pt)
    \/ rtpbuilder.pt # Unset /\ rtpbuilder.mark = Unset /\ SetDefaultMark(TRUE)
    \/ rtpbuilder.mark # Unset /\ rtpbuilder.inc = Unset /\ SetDefaultTimestampIncrement(3)
    \/ \E c \in Contributors : DefaultsSet /\ wire = <<>> /\ (AddCSRC(c) \/ DeleteCSRC(c))
    \/ Len(rtpbuilder.csrcs) = MaxCSRCs /\ Built = 0 /\ ClearCSRCList

Changes ==
    \/ Built = 1 /\ clock = 0 /\ (NewSSRC \/ DestroyBuilder \/ SetMaximumPacketSize(16))
    \/ Built = 1 /\ clock = 1 /\ rtpbuilder.timestamp \in FirstStamps
         /\ (IncrementTimestamp(1) \/ IncrementTimestampDefault)
    \/ Built > 0 /\ clock < 2 /\ Passes

Builds ==
    \E e \in Extensions, p \in Payloads :
        \/ Built < 2 /\ (BuildDefault(e, p) \/ BuildPacketWith(96, FALSE, 0, e, p))
        \/ Built < 3 /\ e = NoExtension /\ BuildPacketEX(p)

\* The flags and the count of the first byte, the second one, how many bytes and
\* what the rest is made of.
Arriving(p, x, c, second, n, f) ==
    <<128 + 32 * p + 16 * x + c, second>> \o [i \in 1 .. n - 2 |-> IF i % 4 = 2 THEN f ELSE 0]
Comes ==
    /\ rtpbuilder = NewRtpBuilder /\ wire = <<>>
    /\ \E p \in 0 .. 1, x \in 0 .. 1, c \in 0 .. 2, second \in {0, 200, 73},
          n \in {11, 12, 16, 20, 24}, f \in {0, 1, 2, 13} :
            ReceiveRtp(Arriving(p, x, c, second, n, f))

RtpCalls == Prepares \/ Changes \/ Builds \/ Comes
-----------------------------------------------------------------------------
(* Compound packets: enough blocks, sources and items to open a second      *)
(* packet of each kind, and SDES packets of many shapes received.           *)

PacketLosses == <<0, -1, 8458608, -70000>>
ItemCount == TotalOf([i \in DOMAIN builder.sources |-> Len(builder.sources[i].items)])
Chunks == {<<0, 0, 0, 0>>, <<1, 0, 0, 0>>, <<1, 1, 7, 0>>, <<8, 2, 1, 7>>, <<8, 1, 1, 0>>, <<1, 6, 0, 4>>, <<0, 0, 0, 4>>}

Assembles ==
    \/ received = <<>> /\ CallInitBuild(84)
    \/ CallStartReport(1)
    \/ \E i \in {Len(builder.blocks) + 1} :
         i < 4 /\ CallAddReportBlock([ssrc |-> i, lost |-> PacketLosses[i]])
    \/ Len(builder.sources) < 3 /\ CallAddSDESSource(Len(builder.sources) + 1)
    \/ ItemCount < 2 /\ \E n \in {0, 3} : CallAddNormalItem(1, n)
    \/ ItemCount < 2 /\ \E q \in {<<0, 1>>, <<1, 1>>} : CallAddPrivateItem(q[1], q[2])
    \/ builder.byes = <<>> /\ \E n \in {0, 3} : CallAddBYEPacket(<<1, 2>>, n)
    \/ builder.apps = <<>> /\ \E n \in {4, 72} : CallAddAPPPacket(3, 1, n)
    \/ CallEndBuild

Arrives ==
    /\ builder = NewBuilder
    /\ \E n \in 0 .. 4, c \in 0 .. 2, pad \in 0 .. 1 : \E w \in [1 .. n -> Chunks] :
         Receive(<<128 + c + 32 * pad, SDES, 0, n>> \o FlattenSeq(w))

CompoundNext == Assembles \/ Arrives
-----------------------------------------------------------------------------
(* Reports: sources that send between the packets, leave and come back, and *)
(* items that are set and asked for on the way.                             *)

Ready == \A i \in DOMAIN MCItems : reports.interval[i] # -1
Settings ==
    \/ ~Ready /\ reports.length[1] = 0 /\ SetLocal(1, 5)
    \/ ~Ready /\ reports.length[1] # 0 /\ reports.length[2] = 0 /\ SetLocal(2, 30)
    \/ \E i \in {Cardinality({k \in DOMAIN MCItems : reports.interval[k] # -1}) + 1} :
          ~Ready /\ reports.length[2] # 0 /\ SetInterval(i, i)
    \/ reports.processingsdes /\ reports.length[2] = 30 /\ SetLocal(2, 0)

ReportsNext ==
    \/ Settings
    \/ Ready /\ reports.sdesbuildcount < 3 /\ BuildNextPacket(FALSE)
    \/ Ready /\ reports.sdesbuildcount = 0 /\ BuildNextPacket(TRUE)
    \/ Ready /\ BuildBYEPacket(FALSE, 3)
    \/ Ready /\ \E p \in Peers : ~(peer[p].fresh /\ peer[p].num = MaxRtp) /\ PeerSends(p)
    \/ \E p \in Peers : PeerTimesOut(p)
    \/ PeerListed(1)
-----------------------------------------------------------------------------
NextMessage ==
    part = "message" /\ Next /\ UNCHANGED <<rtpVars, packetVars, reportVars, sdesVars, limitVars, part>>
NextRtp ==
    part = "rtp" /\ RtpCalls /\ UNCHANGED <<vars, packetVars, reportVars, sdesVars, limitVars, part>>
NextCompound ==
    part = "compound" /\ CompoundNext /\ UNCHANGED <<vars, rtpVars, reportVars, sdesVars, limitVars, part>>
NextReports ==
    part = "reports" /\ ReportsNext /\ UNCHANGED <<vars, rtpVars, packetVars, sdesVars, limitVars, part>>
NextSdes ==
    part = "sdes" /\ SdesNext /\ UNCHANGED <<vars, rtpVars, packetVars, reportVars, limitVars, part>>

NextLimits ==
    part = "limits" /\ LimitsNext /\ UNCHANGED <<vars, rtpVars, packetVars, reportVars, sdesVars, part>>

PacketsNext == NextMessage \/ NextRtp \/ NextCompound \/ NextReports \/ NextSdes \/ NextLimits

PacketsSpec == PacketsInit /\ [][PacketsNext]_mcVars

\* The variables of every part have their types.
PacketsTypeOK ==
    TypeOK /\ RtpTypeOK /\ BuilderTypeOK /\ ReportsTypeOK /\ SdesTypeOK /\ LimitsTypeOK
=============================================================================
