---------------------------- MODULE SourceTable ----------------------------
(***************************************************************************)
(* The source table of a session (RTPSources, RTPInternalSourceData) and   *)
(* the part of ProcessPolledData that feeds it, with the collision list.   *)
(* The table is a record and every operation a function from tables to     *)
(* tables, so that a compound packet is the fold of its items.  A time is  *)
(* abstracted to what a timeout asks of it: whether it is older than the   *)
(* timeout.  A stored packet is a count.                                   *)
(***************************************************************************)
EXTENDS Integers, SequencesExt

CONSTANTS
    Ssrcs, NoSsrc,
    Addresses,      \* the remote addresses
    HostOf,         \* the host of each of them
    Local,          \* the NULL address of a packet of our own
    NoAddress,      \* no address was set yet
    Cnames, NoName,
    ProbationCount,    \* RTP_PROBATIONCOUNT
    MaxProbation,      \* RTPINTERNALSOURCEDATA_MAXPROBATIONPACKETS
    MaxQueue,          \* bound: packets that wait at one source
    MaxPackets         \* bound: packets that arrive

ASSUME SourceAssumption ==
    /\ NoSsrc \notin Ssrcs /\ NoName \notin Cnames
    /\ {Local, NoAddress} \cap Addresses = {} /\ Local # NoAddress
    /\ DOMAIN HostOf = Addresses
    /\ ProbationCount \in Nat \ {0} /\ MaxProbation \in Nat \ {0, 1}
    /\ MaxQueue \in Nat /\ MaxPackets \in Nat

VARIABLES
    table,        \* the RTPSources object
    addresslist,  \* RTPCollisionList: "none", "fresh" or "old" for each address
    arrived,      \* packets that arrived
    ended         \* ClearSourceList was called, from Destroy

sourceVars == <<table, addresslist, arrived, ended>>

\* The times a source keeps: lastmsgtime, lastrtptime, byetime, lastnotetime.
Stamps == {"msg", "rtp", "bye", "note"}

Senders == Addresses \cup {Local}

\* A new source: its times are 0, older than any timeout.
NewSource ==
    [own |-> FALSE, validated |-> FALSE, sender |-> FALSE, csrc |-> FALSE,
     receivedbye |-> FALSE, cname |-> NoName, note |-> FALSE,
     rtpaddr |-> NoAddress, rtcpaddr |-> NoAddress,
     probation |-> 0, sentdata |-> FALSE, packets |-> 0, old |-> Stamps]

Sources == DOMAIN table.src
IsActive(r) == r.validated /\ ~r.receivedbye
Heard(r, stamps) == [r EXCEPT !.old = @ \ stamps]
One(p) == IF p THEN 1 ELSE 0

EmptyTable ==
    [list |-> <<>>, src |-> << >>, current |-> NoSsrc, owndata |-> NoSsrc,
     total |-> 0, senders |-> 0, active |-> 0,
     announced |-> {},      \* OnNewSource without an OnRemoveSource
     owncollision |-> FALSE,
     missed |-> 0]          \* for the properties: see ProcessCsrc
-----------------------------------------------------------------------------
(* The list and its cursor *)

GotoEntry(T, s) == [T EXCEPT !.current = IF s \in DOMAIN T.src THEN s ELSE NoSsrc]

Place(T, s) == CHOOSE i \in DOMAIN T.list : T.list[i] = s
AtPlace(T, i) == IF i \in DOMAIN T.list THEN T.list[i] ELSE NoSsrc
After(T, s) == AtPlace(T, Place(T, s) + 1)
Before(T, s) == AtPlace(T, Place(T, s) - 1)

DeleteEntry(T, s) ==
    [T EXCEPT !.list = RemoveAt(@, Place(T, s)),
              !.src = [x \in DOMAIN @ \ {s} |-> @[x]],
              !.current = After(T, s)]

ObtainSourceDataInstance(T, s) ==
    IF s \in DOMAIN T.src THEN GotoEntry(T, s)
    ELSE [T EXCEPT !.list = Append(@, s),
                   !.src = [x \in DOMAIN @ \cup {s} |-> IF x = s THEN NewSource ELSE @[x]],
                   !.current = NoSsrc,
                   !.total = @ + 1]

OnNewSource(T, s) == [T EXCEPT !.announced = @ \cup {s}]
OnRemoveSource(T, s) == [T EXCEPT !.announced = @ \ {s}]
-----------------------------------------------------------------------------
(* Collisions *)

IsFromSameHost(a, b) == b # Local /\ HostOf[a] = HostOf[b]

\* A mutant: the host is not compared with that of the other address.
ConflictAnyHost(addr, other, a) ==
    \/ addr # NoAddress /\ addr # a
    \/ /\ addr = NoAddress /\ other = Local /\ a # Local

\* The packet with sender a is in conflict with what source r, reached before
\* at addr (of this kind of packet) and other, is known by.
Conflict(addr, other, a) ==
    \/ addr # NoAddress /\ addr # a
    \/ /\ addr = NoAddress /\ other = Local /\ a # Local
    \/ /\ addr = NoAddress /\ other \in Addresses /\ ~IsFromSameHost(other, a)

Collides(T, s, a, isrtp) ==
    LET r == T.src[s]
    IN  IF isrtp THEN Conflict(r.rtpaddr, r.rtcpaddr, a) ELSE Conflict(r.rtcpaddr, r.rtpaddr, a)

OnSSRCCollision(T, s) == [T EXCEPT !.owncollision = @ \/ T.src[s].own]

SetAddress(T, s, a, isrtp) ==
    IF isrtp THEN [T EXCEPT !.src[s].rtpaddr = a] ELSE [T EXCEPT !.src[s].rtcpaddr = a]

CheckCollision(T, s, a, isrtp) ==
    IF Collides(T, s, a, isrtp) THEN OnSSRCCollision(T, s) ELSE SetAddress(T, s, a, isrtp)
-----------------------------------------------------------------------------
(* RTP *)

\* RTPSourceStats::ProcessPacket: next says whether the sequence number is the
\* one that probation waits for.
Accepts(r, next) ==
    r.sentdata \/ r.validated \/ (r.probation = 1 /\ next)

Probation(r, next) ==
    IF r.sentdata \/ r.validated THEN r.probation
    ELSE IF r.probation > 0 /\ next THEN r.probation - 1 ELSE ProbationCount

Stats(r, next) ==
    LET seen == [r EXCEPT !.probation = Probation(r, next), !.old = @ \ {"msg"}]
    IN  IF Accepts(r, next)
        THEN [seen EXCEPT !.sentdata = TRUE, !.validated = TRUE,
                          !.old = @ \ IF r.own THEN {} ELSE {"rtp"}]
        ELSE seen

\* dup: the queue has a packet of this sequence number.
Queued(r, dup) ==
    LET room == IF ~r.validated /\ r.packets = MaxProbation THEN r.packets - 1 ELSE r.packets
    IN  [r EXCEPT !.packets = IF dup /\ room > 0 THEN room ELSE room + 1]

SourceProcessRTPPacket(r, next, dup) ==
    LET seen == Stats(r, next)
    IN  Queued([seen EXCEPT !.sender = @ \/ (seen.validated /\ ~seen.own)], dup)

\* A source that is already known and becomes one by being listed is not
\* counted as active.
ProcessCsrc(T, c, a) ==
    LET U == ObtainSourceDataInstance(T, c)
        V == [U EXCEPT !.src[c].validated = TRUE, !.src[c].csrc = TRUE]
    IN  IF c \notin DOMAIN T.src
        THEN OnNewSource([V EXCEPT !.active = @ + One(IsActive(V.src[c]))], c)
        ELSE IF Collides(U, c, a, TRUE) THEN OnSSRCCollision(U, c)
        ELSE [SetAddress(V, c, a, TRUE) EXCEPT
                !.missed = @ + One(IsActive(V.src[c]) /\ ~IsActive(U.src[c]))]

ProcessCsrcs(T, csrcs, a) == FoldLeft(LAMBDA W, c : ProcessCsrc(W, c, a), T, csrcs)

\* p: [ssrc, next, dup, csrcs]
AcceptRTPPacket(T, p, a, created) ==
    LET s == p.ssrc
        r == T.src[s]
        q == SourceProcessRTPPacket(r, p.next, p.dup)
        U == [T EXCEPT !.src[s] = q,
                       !.senders = @ + One(~r.sender /\ q.sender),
                       !.active = @ + One(~IsActive(r) /\ IsActive(q))]
        V == IF created THEN OnNewSource(U, s) ELSE U
    IN  IF q.validated THEN ProcessCsrcs(V, p.csrcs, a) ELSE V

ProcessRTPPacket(T, p, a) ==
    LET s == p.ssrc
        created == s \notin DOMAIN T.src
        U == ObtainSourceDataInstance(T, s)
        V == IF created THEN SetAddress(U, s, a, TRUE) ELSE CheckCollision(U, s, a, TRUE)
    IN  IF ~created /\ Collides(U, s, a, TRUE) THEN V ELSE AcceptRTPPacket(V, p, a, created)
-----------------------------------------------------------------------------
(* RTCP: an item is [kind, ssrc, value] *)

\* The table with the source of an item, its address set or checked, and whether
\* the source is there to take the item: not if the address is in conflict.
GetRTCPSourceData(T, s, a) ==
    LET created == s \notin DOMAIN T.src
        U == ObtainSourceDataInstance(T, s)
        V == IF created THEN SetAddress(U, s, a, FALSE) ELSE CheckCollision(U, s, a, FALSE)
        W == IF created THEN OnNewSource(V, s) ELSE V
    IN  [table |-> W, found |-> created \/ ~Collides(U, s, a, FALSE)]

\* SR, RR: every path ends in SetLastMessageTime.
ProcessRTCPSenderInfo(T, s) == [T EXCEPT !.src[s] = Heard(@, {"msg"})]
ProcessRTCPReportBlock(T, s) == [T EXCEPT !.src[s] = Heard(@, {"msg"})]
UpdateReceiveTime(T, s) == [T EXCEPT !.src[s] = Heard(@, {"msg"})]
ProcessSDESPrivateItem(T, s) == [T EXCEPT !.src[s] = Heard(@, {"msg"})]

\* The first CNAME counts and validates, a note is always replaced.
SourceProcessSDESItem(r, kind, value) ==
    LET q == Heard(r, {"msg"})
    IN  CASE kind = "cname" /\ r.cname = NoName -> [q EXCEPT !.cname = value, !.validated = TRUE]
          [] kind = "note" -> [Heard(q, {"note"}) EXCEPT !.note = TRUE]
          [] OTHER -> q

ProcessSDESNormalItem(T, s, kind, value) ==
    LET q == SourceProcessSDESItem(T.src[s], kind, value)
    IN  [T EXCEPT !.src[s] = q, !.active = @ + One(~IsActive(T.src[s]) /\ IsActive(q))]

SourceProcessBYEPacket(r) == [Heard(r, {"msg", "bye"}) EXCEPT !.receivedbye = TRUE]

\* A mutant: a source that said BYE again is counted out again.
ProcessBYEAgain(T, s) ==
    IF s = T.owndata THEN T
    ELSE [T EXCEPT !.src[s] = SourceProcessBYEPacket(@), !.active = @ - One(T.src[s].validated)]

ProcessBYE(T, s) ==
    LET q == SourceProcessBYEPacket(T.src[s])
    IN  IF s = T.owndata THEN T
        ELSE [T EXCEPT !.src[s] = q, !.active = @ - One(IsActive(T.src[s]) /\ ~IsActive(q))]

ProcessItem(T, i, a) ==
    LET got == GetRTCPSourceData(T, i.ssrc, a)
        U == got.table
    IN  IF ~got.found THEN U
        ELSE CASE i.kind = "sr" -> ProcessRTCPSenderInfo(UpdateReceiveTime(U, i.ssrc), i.ssrc)
               [] i.kind = "rr" -> ProcessRTCPReportBlock(U, i.ssrc)
               [] i.kind = "priv" -> ProcessSDESPrivateItem(U, i.ssrc)
               [] i.kind \in {"cname", "note", "name"} -> ProcessSDESNormalItem(U, i.ssrc, i.kind, i.value)
               [] i.kind = "bye" -> ProcessBYE(U, i.ssrc)

ProcessRTCPCompoundPacket(T, items, a) == FoldLeft(LAMBDA U, i : ProcessItem(U, i, a), T, items)
-----------------------------------------------------------------------------
(* The own source *)

CreateOwnSSRC(T, s) ==
    IF T.owndata # NoSsrc \/ s \in DOMAIN T.src THEN T
    ELSE LET U == ObtainSourceDataInstance(T, s)
         IN  OnNewSource([U EXCEPT !.owndata = s, !.active = @ + 1,
                !.src[s] = [@ EXCEPT !.own = TRUE, !.validated = TRUE,
                                     !.rtpaddr = Local, !.rtcpaddr = Local]], s)

DeleteOwnSSRC(T) ==
    LET s == T.owndata
        r == T.src[s]
    IN  IF s = NoSsrc THEN T
        ELSE OnRemoveSource([DeleteEntry(T, s) EXCEPT
                !.owndata = NoSsrc, !.total = @ - 1,
                !.senders = @ - One(r.sender), !.active = @ - One(IsActive(r))], s)

SentRTPPacket(T) ==
    LET s == T.owndata
    IN  IF s = NoSsrc THEN T
        ELSE [T EXCEPT !.senders = @ + One(~T.src[s].sender),
                       !.src[s] = [Heard(@, {"msg", "rtp"}) EXCEPT !.sender = TRUE]]

\* No OnRemoveSource, and the cursor of the list is not reset.
ClearSourceList(T) ==
    [EmptyTable EXCEPT !.announced = T.announced, !.owncollision = T.owncollision]
-----------------------------------------------------------------------------
(* Timeouts.  Each walks the whole list and sets the counters anew. *)

Recount(T) ==
    [T EXCEPT !.current = NoSsrc, !.missed = 0,
              !.total = Len(T.list),
              !.senders = Quantify(DOMAIN T.src, LAMBDA s : T.src[s].sender),
              !.active = Quantify(DOMAIN T.src, LAMBDA s : IsActive(T.src[s]))]

Walk(T, Op(_, _)) == Recount(FoldLeft(Op, T, T.list))

Dropped(T, s) == OnRemoveSource(DeleteEntry(T, s), s)
Silent(T, s) == s # T.owndata /\ "msg" \in T.src[s].old
Gone(T, s) == s # T.owndata /\ T.src[s].receivedbye /\ "bye" \in T.src[s].old
ClearNote(r) == IF "note" \in r.old THEN [r EXCEPT !.note = FALSE] ELSE r
ClearSenderFlag(r) == IF "rtp" \in r.old THEN [r EXCEPT !.sender = FALSE] ELSE r

\* What each timeout does with one source; the last does all of it, the sender
\* flag of a removed source left alone.
DropSilent(U, s) == IF Silent(U, s) THEN Dropped(U, s) ELSE U
DropGone(U, s) == IF Gone(U, s) THEN Dropped(U, s) ELSE U
ForgetNote(U, s) == [U EXCEPT !.src[s] = ClearNote(@)]
ForgetSender(U, s) == [U EXCEPT !.src[s] = ClearSenderFlag(@)]
DropOrForget(U, s) ==
    IF Gone(U, s) \/ Silent(U, s) THEN Dropped(U, s)
    ELSE [U EXCEPT !.src[s] = ClearSenderFlag(ClearNote(@))]

Timeout(T) == Walk(T, DropSilent)
BYETimeout(T) == Walk(T, DropGone)
NoteTimeout(T) == Walk(T, ForgetNote)
SenderTimeout(T) == Walk(T, ForgetSender)
MultipleTimeouts(T) == Walk(T, DropOrForget)
-----------------------------------------------------------------------------
(* The walk of an application *)

HasData(T, s) == T.src[s].validated /\ T.src[s].packets > 0
FirstWithData(T, q) ==
    FoldLeft(LAMBDA c, s : IF c = NoSsrc /\ HasData(T, s) THEN s ELSE c, NoSsrc, q)
Onward(T, s) == SubSeq(T.list, Place(T, s) + 1, Len(T.list))
Backward(T, s) == Reverse(SubSeq(T.list, 1, Place(T, s) - 1))

GotoFirstSource(T) == [T EXCEPT !.current = AtPlace(T, 1)]
GotoNextSource(T) == [T EXCEPT !.current = After(T, @)]
GotoPreviousSource(T) == [T EXCEPT !.current = Before(T, @)]
GotoFirstSourceWithData(T) == [T EXCEPT !.current = FirstWithData(T, T.list)]
GotoNextSourceWithData(T) == [T EXCEPT !.current = FirstWithData(T, Onward(T, @))]
GotoPreviousSourceWithData(T) == [T EXCEPT !.current = FirstWithData(T, Backward(T, @))]
GetSourceInfo(T, s) == GotoEntry(T, s)
GetNextPacket(T) == [T EXCEPT !.src[T.current].packets = @ - One(HasData(T, T.current))]
-----------------------------------------------------------------------------
(* The session *)

\* RTPSession::Create has made the table and the own source.
SourceInit ==
    /\ \E s \in Ssrcs : table = CreateOwnSSRC(EmptyTable, s)
    /\ addresslist = [a \in Addresses |-> "none"]
    /\ arrived = 0
    /\ ended = FALSE

ReplaceOwnSSRC(T, s) == CreateOwnSSRC(DeleteOwnSSRC(T), s)

\* What ProcessPolledData does with one packet: T is the table after
\* ProcessRawPacket.  UpdateAddress lists the sender of a packet in conflict
\* with the own SSRC, and a sender not yet listed costs us our SSRC.
Resolve(T, a) ==
    IF T.owncollision
    THEN /\ addresslist' = [addresslist EXCEPT ![a] = "fresh"]
         /\ IF addresslist[a] = "none"
            THEN \E s \in Ssrcs \ DOMAIN T.src : table' = ReplaceOwnSSRC(T, s)
            ELSE table' = T
    ELSE /\ table' = T
         /\ UNCHANGED addresslist

\* ProcessRawPacket: a is Local for a packet of our own that is accepted.
Processed(result, a) ==
    /\ ~ended /\ arrived < MaxPackets
    /\ arrived' = arrived + 1
    /\ \E T \in {result} : Resolve(T, a)
    /\ UNCHANGED ended

ClearOwnCollisionFlag == [table EXCEPT !.owncollision = FALSE]

RtpArrives(p, a) ==
    /\ \A s \in Sources : table.src[s].packets < MaxQueue
    /\ Processed(ProcessRTPPacket(ClearOwnCollisionFlag, p, a), a)
RtcpArrives(items, a) ==
    Processed(ProcessRTCPCompoundPacket(ClearOwnCollisionFlag, items, a), a)

\* The same with an SDES item of an unknown type after these items: the rest of
\* the packet is not looked at, and ProcessPolledData returns the error before it
\* resolves a collision or comes to the timeouts.  A poll thread ends with it; an
\* application that calls Poll itself may go on.
RtcpFails(items, a) ==
    /\ ~ended /\ arrived < MaxPackets
    /\ arrived' = arrived + 1
    /\ table' = ProcessRTCPCompoundPacket(ClearOwnCollisionFlag, items, a)
    /\ UNCHANGED <<addresslist, ended>>

\* Under the lock of the table.
Quiet(T) == ~ended /\ table' = T /\ UNCHANGED <<addresslist, arrived, ended>>

\* After the packets: MultipleTimeouts and RTPCollisionList::Timeout.
TimeoutsDue ==
    /\ ~ended
    /\ table' = MultipleTimeouts(table)
    /\ addresslist' = [a \in Addresses |-> IF addresslist[a] = "old" THEN "none" ELSE addresslist[a]]
    /\ UNCHANGED <<arrived, ended>>

\* Time passes, and a timeout with it.
Ages(s, k) ==
    s \in Sources /\ k \notin table.src[s].old
        /\ Quiet([table EXCEPT !.src[s].old = @ \cup {k}])
AddressAges(a) ==
    /\ ~ended /\ addresslist[a] = "fresh"
    /\ addresslist' = [addresslist EXCEPT ![a] = "old"]
    /\ UNCHANGED <<table, arrived, ended>>

SendPacket == Quiet(SentRTPPacket(table))
OneTimeout ==
    \/ Quiet(Timeout(table))
    \/ Quiet(BYETimeout(table))
    \/ Quiet(NoteTimeout(table))
    \/ Quiet(SenderTimeout(table))
Goto ==
    \/ Quiet(GotoFirstSource(table))
    \/ Quiet(GotoFirstSourceWithData(table))
    \/ \E s \in Ssrcs : Quiet(GetSourceInfo(table, s))
Step ==
    /\ table.current # NoSsrc
    /\ \/ Quiet(GotoNextSource(table))
       \/ Quiet(GotoPreviousSource(table))
       \/ Quiet(GotoNextSourceWithData(table))
       \/ Quiet(GotoPreviousSourceWithData(table))
       \/ Quiet(GetNextPacket(table))
Destroy ==
    /\ ~ended /\ ended' = TRUE
    /\ table' = ClearSourceList(table)
    /\ addresslist' = [a \in Addresses |-> "none"]
    /\ UNCHANGED arrived
-----------------------------------------------------------------------------
(* Properties *)

SourceTypeOK ==
    /\ table.list \in Seq(Ssrcs) /\ IsInjective(table.list)
    /\ Sources = ToSet(table.list)
    /\ \A s \in Sources :
          table.src[s] \in [own : BOOLEAN, validated : BOOLEAN, sender : BOOLEAN, csrc : BOOLEAN,
                            receivedbye : BOOLEAN, cname : Cnames \cup {NoName}, note : BOOLEAN,
                            rtpaddr : Senders \cup {NoAddress}, rtcpaddr : Senders \cup {NoAddress},
                            probation : 0 .. ProbationCount, sentdata : BOOLEAN,
                            packets : 0 .. MaxQueue, old : SUBSET Stamps]
    /\ table.owndata \in Ssrcs \cup {NoSsrc}
    /\ table.owncollision \in BOOLEAN
    /\ addresslist \in [Addresses -> {"none", "fresh", "old"}]
    /\ arrived \in 0 .. MaxPackets /\ ended \in BOOLEAN

\* Of the three counters that every event of a source moves by one, the members
\* and the senders are what a count of the table gives.  The active members are
\* short of it by the sources already known that a packet's list of contributors
\* has validated since the last walk, and by no others: see ActiveIsCounted.
CountsAgree ==
    /\ table.total = Cardinality(Sources)
    /\ table.senders = Quantify(Sources, LAMBDA s : table.src[s].sender)
    /\ table.active + table.missed = Quantify(Sources, LAMBDA s : IsActive(table.src[s]))

\* rtpsources.h: GetActiveMemberCount returns the number of members that have been
\* validated and have not sent a BYE packet yet.  Not of those which a list of
\* contributors validates.
ActiveIsCounted == table.active = Quantify(Sources, LAMBDA s : IsActive(table.src[s]))

\* Whatever arrives, the RTP and the RTCP address of a source are on one host,
\* or both our own, and nobody else gets an address into the own source, which
\* the table always has; the application was told of the sources that exist and of
\* no others, and the cursor it walks with stands on one of them.
HostsAgree ==
    /\ ~ended => table.owndata \in Sources /\ table.announced = Sources
    /\ table.current \in Sources \cup {NoSsrc}
    /\ \A s \in Sources :
        LET r == table.src[s]
        IN  /\ r.own => s = table.owndata /\ r.rtpaddr = Local /\ r.rtcpaddr = Local
            /\ r.rtpaddr # NoAddress /\ r.rtcpaddr # NoAddress =>
                  \/ r.rtpaddr = Local /\ r.rtcpaddr = Local
                  \/ r.rtpaddr \in Addresses /\ r.rtcpaddr \in Addresses
                        /\ HostOf[r.rtpaddr] = HostOf[r.rtcpaddr]
=============================================================================
