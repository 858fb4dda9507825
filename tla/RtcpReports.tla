----------------------------- MODULE RtcpReports ----------------------------
(***************************************************************************)
(* What goes into the RTCP packets of a session (RTCPPacketBuilder): the   *)
(* report blocks of the sources that sent RTP since the packet before, and *)
(* the items of the own SDES information that are due, spread over packets *)
(* when one is full.  Whether one is full is for the builder of            *)
(* CompoundPacket to say.  The fraction lost and the other numbers of a    *)
(* block are left out but for the packets its interval counts.             *)
(***************************************************************************)
EXTENDS CompoundPacket

CONSTANTS
    Peers,          \* the other sources, as SSRCs
    Own,            \* our SSRC
    MaxPacket,      \* maxpacketsize
    CnameLength,
    SDESItems,      \* the ids of the items, in the order of FillInSDES
    MaxRtp          \* bound: packets counted in an interval

ASSUME ReportsAssumption ==
    /\ Peers \subseteq 0 .. 255 /\ Own \in 0 .. 255 \ Peers
    /\ MaxPacket \in MinPacket .. MaxPackSize /\ CnameLength \in 0 .. MaxItem
    /\ SDESItems \in Seq(2 .. 7)
    /\ MaxRtp \in Nat \ {0}

\* RTP_MINPACKETSIZE is 600, and a name or an item at most 255 bytes long: next to
\* the own name there is room for one item or one block, whichever comes first.
ASSUME RoomAssumption ==
    LET report == Header + SSRC + SenderReport
    IN  /\ report + Header + ChunkNeeds(2 * SDESHeader + CnameLength + MaxItem) <= MaxPacket
        /\ report + ReceiverReport + Header + ChunkNeeds(SDESHeader + CnameLength) <= MaxPacket

VARIABLES
    reports,        \* the RTCPPacketBuilder
    peers,          \* the source list
    peer,           \* what of each source its reports depend on
    built           \* the last packet: for the properties

reportVars == <<reports, peers, peer, built>>

\* sent: INF_HasSentData; fresh: it sent RTP after prevbuildtime; num: the
\* packets received in its interval; waits: for the properties, the packets
\* built since its last block although it was due in each of them.
NewPeer ==
    [sent |-> FALSE, fresh |-> FALSE, csrc |-> FALSE, processed |-> FALSE, num |-> 0, waits |-> 0]

NewReports ==
    [firstpacket |-> TRUE, processingsdes |-> FALSE, sdesbuildcount |-> 0,
     due |-> {},        \* doname and the like, by place in SDESItems
     done |-> {},       \* ProcessedName and the like
     length |-> [i \in DOMAIN SDESItems |-> 0],       \* of the items in ownsdesinfo
     interval |-> [i \in DOMAIN SDESItems |-> -1]]    \* interval_name and the like

NoPacket == [first |-> <<>>, skipped |-> {}, second |-> <<>>, packet |-> <<>>, empty |-> {}]
-----------------------------------------------------------------------------
(* Report blocks *)

ClearAllSourceFlags(ps) == [p \in DOMAIN ps |-> [ps[p] EXCEPT !.processed = FALSE]]

ShouldProcess(r) == ~r.csrc /\ r.sent /\ (reports.firstpacket \/ r.fresh)

\* A mutant: a source is not marked as processed.
VisitSourceUnmarked(acc, p, maxcount) ==
    LET r == acc.ps[p]
    IN  IF acc.state # "going" \/ ~ShouldProcess(r) THEN acc
        ELSE IF r.processed THEN [acc EXCEPT !.skipped = @ \cup {p}]
        ELSE IF ~CanAddReportBlock(acc.b) THEN [acc EXCEPT !.state = "full"]
        ELSE [acc EXCEPT
                !.b = AddReportBlock(@, [ssrc |-> p, lost |-> 0]),
                !.added = Append(@, p),
                !.ps[p] = [@ EXCEPT !.num = 0],
                !.state = IF Len(acc.added) + 1 >= maxcount THEN "enough" ELSE @]

\* acc: [b, ps, added, skipped, empty, state]; state is "going", "full" or "enough".
VisitSource(acc, p, maxcount) ==
    LET r == acc.ps[p]
    IN  IF acc.state # "going" \/ ~ShouldProcess(r) THEN acc
        ELSE IF r.processed THEN [acc EXCEPT !.skipped = @ \cup {p}]
        ELSE IF ~CanAddReportBlock(acc.b) THEN [acc EXCEPT !.state = "full"]
        ELSE [acc EXCEPT
                !.b = AddReportBlock(@, [ssrc |-> p, lost |-> 0]),
                !.added = Append(@, p),
                !.empty = IF r.num = 0 THEN @ \cup {p} ELSE @,
                !.ps[p] = [@ EXCEPT !.num = 0, !.processed = TRUE],
                !.state = IF Len(acc.added) + 1 >= maxcount THEN "enough" ELSE @]

FillInReportBlocks(b, ps, maxcount) ==
    FoldLeft(LAMBDA acc, p : VisitSource(acc, p, maxcount),
             [b |-> b, ps |-> ps, added |-> <<>>, skipped |-> {}, empty |-> {}, state |-> "going"],
             peers)

IsFull(f) == f.state = "full"

\* No source is left that a block could be added for.
AtEndOfList(f) == \A p \in DOMAIN f.ps : ShouldProcess(f.ps[p]) => f.ps[p].processed
-----------------------------------------------------------------------------
(* The own SDES information *)

\* acc: [b, done, count, full]
VisitItem(acc, i, due) ==
    IF acc.full \/ i \notin due \/ i \in acc.done THEN acc
    ELSE IF ~CanAddSDESNormalItem(acc.b, reports.length[i]) THEN [acc EXCEPT !.full = TRUE]
    ELSE [acc EXCEPT !.b = AddSDESNormalItem(@, SDESItems[i], reports.length[i]),
                     !.done = @ \cup {i}, !.count = @ + 1]

FillInSDES(b, due, done) ==
    FoldLeft(LAMBDA acc, i : VisitItem(acc, i, due),
             [b |-> b, done |-> done, count |-> 0, full |-> FALSE], [i \in DOMAIN SDESItems |-> i])

DueItems(count) ==
    {i \in DOMAIN SDESItems : reports.interval[i] > 0 /\ count % reports.interval[i] = 0}

\* At any time, also between two packets of one round of items: the round keeps
\* the items it began with, and takes what they are when it comes to them.
SetInterval(i, n) ==
    /\ reports' = [reports EXCEPT !.interval[i] = n]
    /\ UNCHANGED <<peers, peer, built>>
SetLocal(i, length) ==
    /\ reports' = [reports EXCEPT !.length[i] = length]
    /\ UNCHANGED <<peers, peer, built>>
-----------------------------------------------------------------------------
(* BuildNextPacket *)

CNAME == 1

Started(sender) == StartReport(InitBuild(NewBuilder, MaxPacket), IF sender THEN "SR" ELSE "RR", Own)
WithOwnSource(sender) == AddSDESSource(Started(sender), Own)
Opened(sender) == AddSDESNormalItem(WithOwnSource(sender), CNAME, CnameLength)

CanOpen(sender) ==
    LET b == InitBuild(NewBuilder, MaxPacket)
    IN  /\ CanInitBuild(NewBuilder, MaxPacket)
        /\ IF sender THEN CanStartSenderReport(b) ELSE CanStartReceiverReport(b)
        /\ CanAddSDESSource(Started(sender))
        /\ CanAddSDESNormalItem(WithOwnSource(sender), CnameLength)

\* prevbuildtime is now.  Which sources waited is for the properties.
Waited(r, reported) ==
    IF ~ShouldProcess(r) \/ reported THEN 0 ELSE r.waits + 1
Finish(b, ps, r, first, skipped, second, empty) ==
    /\ CanEndBuild(b)
    /\ reports' = [r EXCEPT !.firstpacket = FALSE]
    /\ peer' = [p \in DOMAIN ps |->
                   [ps[p] EXCEPT !.fresh = FALSE,
                                 !.waits = Waited(peer[p], p \in ToSet(first \o second))]]
    /\ built' = [first |-> first, skipped |-> skipped, second |-> second,
                 packet |-> Layout(b), empty |-> empty]
    /\ UNCHANGED peers

\* The number of sources, with the own one.
TotalCount == Len(peers) + 1

\* Nothing of the SDES information is left over from the packet before.
BuildReports(sender) ==
    \E f \in {FillInReportBlocks(Opened(sender), peer, TotalCount)} :
        /\ ~(IsFull(f) /\ f.added = <<>>)    \* ERR_RTP_RTCPPACKETBUILDER_PACKETFILLEDTOOSOON
        /\ IF IsFull(f) THEN Finish(f.b, f.ps, reports, f.added, f.skipped, <<>>, f.empty)
           ELSE \E count \in {reports.sdesbuildcount + 1} :
                \E s \in {FillInSDES(f.b, DueItems(count), {})} :
                    LET ps == ClearAllSourceFlags(f.ps)
                        r == [reports EXCEPT !.sdesbuildcount = count, !.due = DueItems(count),
                                             !.processingsdes = s.full,
                                             !.done = IF s.full THEN s.done ELSE {}]
                    IN  IF s.full \/ f.skipped = {}
                        THEN Finish(s.b, ps, r, f.added, f.skipped, <<>>, f.empty)
                        ELSE \E g \in {FillInReportBlocks(s.b, ps, Cardinality(f.skipped))} :
                                Finish(g.b, g.ps, r, f.added, f.skipped, g.added, f.empty \cup g.empty)

\* The packet before was full before all items were in.
BuildItems(sender) ==
    \E s \in {FillInSDES(Opened(sender), reports.due, reports.done)} :
        /\ s.count # 0                       \* PACKETFILLEDTOOSOON
        /\ IF s.full THEN Finish(s.b, peer, [reports EXCEPT !.done = s.done], <<>>, {}, <<>>, {})
           ELSE \E f \in {FillInReportBlocks(s.b, peer, TotalCount)} :
                   Finish(f.b, IF AtEndOfList(f) THEN ClearAllSourceFlags(f.ps) ELSE f.ps,
                          [reports EXCEPT !.processingsdes = FALSE, !.done = {}],
                          f.added, f.skipped, <<>>, f.empty)

BuildNextPacket(sender) ==
    /\ CanOpen(sender)
    /\ IF reports.processingsdes THEN BuildItems(sender) ELSE BuildReports(sender)

CanBuildBYEPacket(sender, reason) ==
    CanOpen(sender) /\ CanAddBYEPacket(Opened(sender), <<Own>>, reason)

\* It leaves the state of the reports alone.
BuildBYEPacket(sender, reason) ==
    /\ CanBuildBYEPacket(sender, reason)
    /\ built' = [NoPacket EXCEPT !.packet = Layout(AddBYEPacket(Opened(sender), <<Own>>, reason))]
    /\ UNCHANGED <<reports, peers, peer>>
-----------------------------------------------------------------------------
(* The sources *)

ReportsInit ==
    /\ reports = NewReports
    /\ peers = <<>> /\ peer = [p \in Peers |-> NewPeer]
    /\ built = NoPacket

\* RTP from p, whom the list gets if it did not have it.
PeerSends(p) ==
    /\ peers' = IF p \in ToSet(peers) THEN peers ELSE Append(peers, p)
    /\ peer' = [peer EXCEPT ![p].sent = TRUE, ![p].fresh = TRUE,
                            ![p].num = IF @ < MaxRtp THEN @ + 1 ELSE @]
    /\ UNCHANGED <<reports, built>>

\* p is listed as a contributor.
PeerListed(p) ==
    /\ p \in ToSet(peers)
    /\ peer' = [peer EXCEPT ![p].csrc = TRUE]
    /\ UNCHANGED <<reports, peers, built>>

\* The waiting is counted between departures: sources that leave and come back
\* can keep one waiting for ever.
PeerTimesOut(p) ==
    /\ \E i \in DOMAIN peers : peers[i] = p /\ peers' = RemoveAt(peers, i)
    /\ peer' = [q \in Peers |-> IF q = p THEN NewPeer ELSE [peer[q] EXCEPT !.waits = 0]]
    /\ UNCHANGED <<reports, built>>

\* Any calls, and any sources.
ReporterNext ==
    \/ \E i \in DOMAIN SDESItems :
          (\E n \in Int : SetInterval(i, n)) \/ \E n \in 0 .. MaxItem : SetLocal(i, n)
    \/ \E sender \in BOOLEAN :
          BuildNextPacket(sender) \/ \E reason \in ByteValues : BuildBYEPacket(sender, reason)
    \/ \E p \in Peers : PeerSends(p) \/ PeerListed(p) \/ PeerTimesOut(p)

ReporterSpec == ReportsInit /\ [][ReporterNext]_reportVars
-----------------------------------------------------------------------------
(* Properties *)

ReportsTypeOK ==
    /\ reports \in [firstpacket : BOOLEAN, processingsdes : BOOLEAN, sdesbuildcount : Nat,
                    due : SUBSET DOMAIN SDESItems, done : SUBSET DOMAIN SDESItems,
                    length : [DOMAIN SDESItems -> 0 .. MaxItem],
                    interval : [DOMAIN SDESItems -> Int]]
    /\ peers \in Seq(Peers) /\ IsInjective(peers)
    /\ peer \in [Peers -> [sent : BOOLEAN, fresh : BOOLEAN, csrc : BOOLEAN, processed : BOOLEAN,
                           num : 0 .. MaxRtp, waits : Nat]]

\* Full packets and leftover items starve nobody: a source that sends before
\* every packet is reported again after each other source at most twice and every
\* item in a packet of its own, unless sources leave meanwhile, whatever items are
\* set on the way; no packet is larger than the session allows; and a block about
\* no packet at all is the second one of its source in a packet.
ReportsReachAll ==
    /\ \A p \in Peers : peer[p].waits <= 2 * (Cardinality(Peers) - 1) + Len(SDESItems)
    /\ Len(built.packet) <= MaxPacket
    /\ built.empty \subseteq ToSet(built.first) \cap ToSet(built.second)
=============================================================================
