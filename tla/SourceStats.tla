----------------------------- MODULE SourceStats -----------------------------
(***************************************************************************)
(* One source that sends RTP: its probation, the extension of its 16 bit   *)
(* sequence numbers, the numbers its report blocks are made of, and the    *)
(* order of its packets in the queue (RTPSourceStats::ProcessPacket and    *)
(* RTPInternalSourceData::ProcessRTPPacket, with ProbationStore).          *)
(*                                                                         *)
(* The packets are known by the number the sender gave them, counted from  *)
(* its first one and never wrapping; the network loses at most MaxGap - 1   *)
(* in a row, repeats them and delivers them up to MaxLate places late.     *)
(* 32 bit counters do not wrap, and the jitter is left out but for the     *)
(* step of the RTP timestamp it is computed from.                          *)
(***************************************************************************)
EXTENDS Integers, Sequences

CONSTANTS
    SeqNumbers,             \* 2^16
    TsNumbers,              \* 2^32
    TsStep,             \* the timestamp increment of the sender
    TsFirst,            \* the timestamp of its packet 0
    ProbationLength,    \* RTP_PROBATIONCOUNT
    ProbationPackets,   \* RTPINTERNALSOURCEDATA_MAXPROBATIONPACKETS
    MaxGap, MaxLate,    \* bounds on the network
    FirstPackets,       \* bound: the numbers the sender may start at
    LastPacket,         \* bound: the sender stops there
    MaxAccepted,        \* bound: packets accepted in a run
    MaxWaiting          \* bound: the application lets no more packets wait

ASSUME StatsAssumption ==
    /\ {SeqNumbers, TsNumbers, TsStep, ProbationLength, ProbationPackets, MaxGap} \subseteq Nat \ {0}
    /\ {TsFirst, MaxLate, LastPacket, MaxWaiting, MaxAccepted} \subseteq Nat
    /\ FirstPackets \subseteq (0 .. SeqNumbers - 1) \cap (0 .. LastPacket)
    /\ ProbationPackets \in 2 .. MaxWaiting - 1
    /\ 2 * (MaxGap + MaxLate) < SeqNumbers
    /\ TsStep * (MaxGap + MaxLate) < TsNumbers \div 16

VARIABLES
    source,     \* RTPSourceStats and validated
    waiting,    \* packetlist: the packets, each with the number it is sorted by
    newest,     \* the highest packet that arrived since the first accepted one, or -1
    history     \* for the properties

statsVars == <<source, waiting, newest, history>>

NewStats ==
    [sentdata |-> FALSE, validated |-> FALSE, probation |-> 0, prevseqnr |-> 0,
     numcycles |-> 0, baseseqnr |-> 0, exthighseqnr |-> 0, savedextseqnr |-> 0,
     packetsreceived |-> 0, numnewpackets |-> 0, prevtimestamp |-> 0]

\* offset: extended number of a packet less its own; strayed: a packet from an
\* earlier cycle came after one of a later; wrapped: a packet stored on probation
\* is of another cycle than its 16 bits say, seen from the first accepted one;
\* step: what the jitter took for the step of the timestamp, true: what it was;
\* lost: the packets reported lost in the intervals that ended.
NewHistory ==
    [offset |-> 0, strayed |-> FALSE, wrapped |-> FALSE, step |-> 0, true |-> 0,
     previous |-> 0, lost |-> 0]

StatsInit ==
    source = NewStats /\ waiting = <<>> /\ newest = -1 /\ history = NewHistory

Seq16(n) == n % SeqNumbers
Timestamp(n) == (TsFirst + TsStep * n) % TsNumbers
-----------------------------------------------------------------------------
(* RTPSourceStats::ProcessPacket *)

\* A mutant: number 0 is not told apart.
AcceptZero(s, n) ==
    LET seq == Seq16(n)
        base == IF seq = 0 THEN SeqNumbers - 1 ELSE seq - 1
    IN  [s EXCEPT !.sentdata = TRUE, !.validated = TRUE,
                  !.packetsreceived = @ + 1, !.numnewpackets = @ + 1,
                  !.baseseqnr = base, !.exthighseqnr = base + 1, !.savedextseqnr = base,
                  !.prevtimestamp = Timestamp(n)]

\* ACCEPTPACKETCODE
Accept(s, n) ==
    LET seq == Seq16(n)
        base == IF seq = 0 THEN SeqNumbers - 1 ELSE seq - 1
    IN  [s EXCEPT !.sentdata = TRUE, !.validated = TRUE,
                  !.packetsreceived = @ + 1, !.numnewpackets = @ + 1,
                  !.numcycles = IF seq = 0 THEN SeqNumbers ELSE @,
                  !.baseseqnr = base, !.exthighseqnr = base + 1, !.savedextseqnr = base,
                  !.prevtimestamp = Timestamp(n)]

\* A packet of a source that has not been accepted: [source, ext, accept].
Probe(s, n) ==
    LET seq == Seq16(n)
        next == s.probation > 0 /\ Seq16(s.prevseqnr + 1) = seq
        left == IF next THEN s.probation - 1 ELSE ProbationLength
        on == [s EXCEPT !.probation = left, !.prevseqnr = seq]
    IN  IF s.validated \/ left = 0
        THEN LET a == Accept(IF s.validated THEN s ELSE on, n)
             IN  [source |-> a, ext |-> a.exthighseqnr, accept |-> TRUE]
        ELSE [source |-> on, ext |-> seq, accept |-> FALSE]

Newer(s, seq) == seq >= Seq16(s.exthighseqnr)

\* The difference of the sequence numbers says whether they wrapped.
Wrapped(s, seq) ==
    LET max == Seq16(s.exthighseqnr)
    IN  ~Newer(s, seq) /\ Seq16(seq - max) < Seq16(max - seq)

Extend(s, n) ==
    LET seq == Seq16(n)
        cycles == IF Wrapped(s, seq) THEN s.numcycles + SeqNumbers ELSE s.numcycles
        ext == cycles + seq
        high == IF Newer(s, seq) \/ Wrapped(s, seq) THEN ext ELSE s.exthighseqnr
        t == [s EXCEPT !.packetsreceived = @ + 1, !.numnewpackets = @ + 1,
                       !.numcycles = cycles, !.exthighseqnr = high,
                       !.prevtimestamp = Timestamp(n)]
    IN  [source |-> t, ext |-> ext, accept |-> TRUE]

ProcessPacket(s, n) == IF s.sentdata THEN Extend(s, n) ELSE Probe(s, n)

\* diffts2: how far the timestamp moved, either way, if that is less than a 16th.
TimestampDiff(current, previous) ==
    LET up == (current - previous) % TsNumbers
        down == (previous - current) % TsNumbers
        small(d) == d < TsNumbers \div 16
    IN  IF current > previous
        THEN IF small(up) THEN up ELSE -down
        ELSE IF small(down) THEN -down ELSE up
-----------------------------------------------------------------------------
(* RTPInternalSourceData::ProcessRTPPacket *)

\* From the back, behind the first packet that is not above it; equal ones drop it.
Insert(q, p) ==
    LET below == {i \in DOMAIN q : q[i].ext <= p.ext}
        i == IF below = {} THEN 0 ELSE CHOOSE j \in below : \A k \in below : k <= j
    IN  IF i > 0 /\ q[i].ext = p.ext THEN q
        ELSE SubSeq(q, 1, i) \o <<p>> \o SubSeq(q, i + 1, Len(q))

\* A mutant: the queue grows for as long as the probation lasts.
ShortenNever(q, s) == q

\* On probation the queue is kept short.
Shorten(q, s) == IF ~s.validated /\ Len(q) = ProbationPackets THEN Tail(q) ELSE q

Cycle(n, h) == (n + h.offset) \div SeqNumbers

Note(n, r) ==
    LET first == r.accept /\ ~source.sentdata
        h == IF first THEN [history EXCEPT !.offset = r.ext - n] ELSE history
        later == source.sentdata
    IN  history' =
          [h EXCEPT
            !.wrapped = @ \/ (first /\ \E i \in DOMAIN waiting : Cycle(waiting[i].packet, h) # 0),
            !.strayed = @ \/ (later /\ n < newest /\ Cycle(n, h) < Cycle(newest, h)),
            !.step = IF later THEN TimestampDiff(Timestamp(n), source.prevtimestamp) ELSE 0,
            !.true = IF later THEN TsStep * (n - h.previous) ELSE 0,
            !.previous = n]

\* A packet of the source arrives.
StorePacket(n) ==
    \E r \in {ProcessPacket(source, n)} :
        /\ source' = r.source
        /\ waiting' = Insert(Shorten(waiting, r.source), [packet |-> n, ext |-> r.ext])
        /\ newest' = IF n > newest \/ (r.accept /\ ~source.sentdata) THEN n ELSE newest
        /\ Note(n, r)

Arrive ==
    /\ source.validated => Len(waiting) < MaxWaiting
    /\ source.packetsreceived < MaxAccepted
    /\ \E n \in (newest - MaxLate) .. (newest + MaxGap) :
         n \in 0 .. LastPacket /\ StorePacket(n)

\* The first packet may have any number: the sender starts at a random one.
ArriveFirst == newest = -1 /\ \E n \in FirstPackets : StorePacket(n)

\* A CNAME arrives: the source is validated before its probation is over.
ValidateByCNAME ==
    ~source.validated /\ source' = [source EXCEPT !.validated = TRUE]
    /\ UNCHANGED <<waiting, newest, history>>

TakePacket ==
    /\ source.validated /\ waiting # <<>>
    /\ waiting' = Tail(waiting)
    /\ UNCHANGED <<source, newest, history>>

\* What a report block says was lost: since the block before, and in all.
IntervalLost(s) == (s.exthighseqnr - s.savedextseqnr) - s.numnewpackets
CumulativeLost(s) == (s.exthighseqnr - s.baseseqnr) - s.packetsreceived

INF_StartNewInterval ==
    /\ source.sentdata
    /\ source' = [source EXCEPT !.numnewpackets = 0, !.savedextseqnr = source.exthighseqnr]
    /\ history' = [history EXCEPT !.lost = @ + IntervalLost(source)]
    /\ UNCHANGED <<waiting, newest>>

StatsNext ==
    \/ Arrive \/ ArriveFirst
    \/ ValidateByCNAME \/ TakePacket
    \/ INF_StartNewInterval
-----------------------------------------------------------------------------
StatsTypeOK ==
    /\ source \in
         [sentdata : BOOLEAN, validated : BOOLEAN, probation : 0 .. ProbationLength,
          prevseqnr : 0 .. SeqNumbers - 1, numcycles : Nat, baseseqnr : Nat, exthighseqnr : Nat,
          savedextseqnr : Nat, packetsreceived : Nat, numnewpackets : Nat,
          prevtimestamp : 0 .. TsNumbers - 1]
    /\ Len(waiting) <= MaxWaiting
    /\ newest \in -1 .. LastPacket

(* The extended numbers and the timestamp steps are those of the sender,    *)
(* through a wrap and through a probation that ends at number 0, unless a    *)
(* packet from before a wrap came after one from behind it; what the report  *)
(* blocks say was lost in each interval adds up to what they say was lost in *)
(* all; and the application gets the packets in the order they were sent,    *)
(* each once, also those that were stored on probation and those that came   *)
(* late (not so when the numbers wrapped while the source was on probation). *)
ArrivalsAreExact ==
    source.sentdata /\ ~history.strayed =>
        /\ source.exthighseqnr = newest + history.offset
        /\ history.step = history.true
        /\ history.lost + IntervalLost(source) = CumulativeLost(source)
        /\ ~history.wrapped =>
              \A i, j \in DOMAIN waiting : i < j => waiting[i].packet < waiting[j].packet
=============================================================================
