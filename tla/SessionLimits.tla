---------------------------- MODULE SessionLimits ----------------------------
(***************************************************************************)
(* The maximum packet size of a session (RTPSession), which is kept in      *)
(* four places: in the transmitter, which refuses what is longer, in the    *)
(* two packet builders, which are under buildermutex, and in the session.   *)
(* SetMaximumPacketSize changes one after the other, and the first back     *)
(* when the second fails, while packets are built under one size and sent   *)
(* under the next.  What the calls do besides (the source table, the flag   *)
(* sentpackets) is in RtpSession.                                           *)
(***************************************************************************)
EXTENDS Integers, Sequences

CONSTANTS
    Users,          \* the threads of the application
    Setter,         \* the one of them that calls SetMaximumPacketSize
    PollThread,
    NoUser,
    SmallestSize,   \* RTP_MINPACKETSIZE
    LargestSize,    \* RTPUDPV4TRANS_MAXPACKSIZE
    SizesAsked,     \* bound: the sizes asked for
    Lengths         \* bound: the lengths of packets

ASSUME LimitsAssumption ==
    /\ Setter \in Users /\ PollThread \notin Users /\ NoUser \notin Users \cup {PollThread}
    /\ SmallestSize \in Nat /\ LargestSize \in Nat /\ SmallestSize <= LargestSize
    /\ SizesAsked \subseteq Nat /\ Lengths \subseteq Nat

VARIABLES
    limit,          \* the four sizes
    buildermutex,   \* the thread that has it
    at,             \* where each thread is
    packet,         \* the packet a thread is sending, or the size it is setting
    byes            \* byepackets

limitVars == <<limit, buildermutex, at, packet, byes>>

\* changed: for the properties, whether a size was being set since the packet
\* was built.
NoPacketYet == [length |-> 0, changed |-> FALSE]

CreateWith(size) ==
    /\ limit = [transmitter |-> size, packets |-> size, reports |-> size, session |-> size]
    /\ buildermutex = NoUser
    /\ at = [u \in Users \cup {PollThread} |-> "idle"]
    /\ packet = [u \in Users \cup {PollThread} |-> NoPacketYet]
    /\ byes = <<>>

LimitsInit == \E size \in SizesAsked : SmallestSize <= size /\ size <= LargestSize /\ CreateWith(size)

IsSetting == at[Setter] \in {"builders", "restore", "remember"}
PacketOf(n) == [length |-> n, changed |-> IsSetting]
-----------------------------------------------------------------------------
(* SetMaximumPacketSize *)

\* The transmitter takes the size first.  It refuses one that is too large; then
\* nothing has happened.
NewSize(size) ==
    /\ at[Setter] = "idle"
    /\ SmallestSize <= size /\ size <= LargestSize
    /\ limit' = [limit EXCEPT !.transmitter = size]
    /\ at' = [at EXCEPT ![Setter] = "builders"]
    /\ packet' = [u \in DOMAIN packet |->
                     IF u = Setter THEN [length |-> size, changed |-> FALSE]
                     ELSE [packet[u] EXCEPT !.changed = TRUE]]
    /\ byes' = [i \in DOMAIN byes |-> [byes[i] EXCEPT !.changed = TRUE]]
    /\ UNCHANGED buildermutex

\* rtcpbuilder refuses only sizes below SmallestSize, so the third of the calls
\* never fails.
NewSizeBuilders ==
    /\ at[Setter] = "builders" /\ buildermutex = NoUser
    /\ limit' = [limit EXCEPT !.packets = packet[Setter].length, !.reports = packet[Setter].length]
    /\ at' = [at EXCEPT ![Setter] = "remember"]
    /\ UNCHANGED <<buildermutex, packet, byes>>

NewSizeRemembered ==
    /\ at[Setter] = "remember"
    /\ limit' = [limit EXCEPT !.session = packet[Setter].length]
    /\ at' = [at EXCEPT ![Setter] = "idle"]
    /\ UNCHANGED <<buildermutex, packet, byes>>

\* packetbuilder gets no memory for its new buffer.
NewSizeFails ==
    /\ at[Setter] = "builders" /\ buildermutex = NoUser
    /\ at' = [at EXCEPT ![Setter] = "restore"]
    /\ UNCHANGED <<limit, buildermutex, packet, byes>>

\* A mutant: the transmitter keeps the size.
NewSizeNotRestored ==
    /\ at[Setter] = "restore"
    /\ at' = [at EXCEPT ![Setter] = "idle"]
    /\ UNCHANGED <<limit, buildermutex, packet, byes>>

NewSizeRestored ==
    /\ at[Setter] = "restore"
    /\ limit' = [limit EXCEPT !.transmitter = limit.session]
    /\ at' = [at EXCEPT ![Setter] = "idle"]
    /\ UNCHANGED <<buildermutex, packet, byes>>

SetSessionPacketSize ==
    \/ \E size \in SizesAsked : NewSize(size)
    \/ NewSizeBuilders \/ NewSizeRemembered \/ NewSizeFails \/ NewSizeRestored
-----------------------------------------------------------------------------
(* Packets: SendPacket builds and sends under buildermutex, the poll thread  *)
(* sends what it has built after it has given the mutex up, and              *)
(* SendRTCPAPPPacket has a buildermutex of its own, which it gives maxpacksize.   *)

Starts(u, place, n) ==
    /\ at' = [at EXCEPT ![u] = place]
    /\ packet' = [packet EXCEPT ![u] = PacketOf(n)]

Ends(u, place) ==
    /\ at' = [at EXCEPT ![u] = place]
    /\ packet' = [packet EXCEPT ![u] = NoPacketYet]

SendPacketBuilt(u, n) ==
    /\ u \in Users /\ at[u] = "idle" /\ buildermutex = NoUser
    /\ n <= limit.packets
    /\ buildermutex' = u /\ Starts(u, "send", n)
    /\ UNCHANGED <<limit, byes>>

\* Refused or not, the call ends.
SendPacketOut(u) ==
    /\ at[u] = "send"
    /\ buildermutex' = NoUser /\ Ends(u, "idle")
    /\ UNCHANGED <<limit, byes>>

\* It takes buildermutex to read the SSRC, and then reads maxpacksize without it.
AppPacketAsked(u) ==
    /\ u \in Users /\ at[u] = "idle" /\ buildermutex = NoUser
    /\ Starts(u, "init", 0)
    /\ UNCHANGED <<limit, buildermutex, byes>>
AppPacketInit(u) ==
    /\ at[u] = "init"
    /\ Starts(u, "fill", limit.session)
    /\ UNCHANGED <<limit, buildermutex, byes>>

\* The own CNAME is read under buildermutex; what does not fit ends the call.
AppPacketFilled(u) ==
    /\ at[u] = "fill" /\ buildermutex = NoUser
    /\ \/ \E n \in Lengths : /\ n <= packet[u].length
                                  /\ at' = [at EXCEPT ![u] = "app"]
                                  /\ packet' = [packet EXCEPT ![u].length = n]
       \/ Ends(u, "idle")
    /\ UNCHANGED <<limit, buildermutex, byes>>
AppPacketOut(u) ==
    /\ at[u] = "app"
    /\ Ends(u, "idle")
    /\ UNCHANGED <<limit, buildermutex, byes>>

ReportBuilt(n) ==
    /\ at[PollThread] = "idle" /\ buildermutex = NoUser
    /\ byes = <<>> /\ n <= limit.reports
    /\ Starts(PollThread, "report", n)
    /\ UNCHANGED <<limit, buildermutex, byes>>

\* A packet the transmitter refuses ends the poll thread.
Refused(p) == p.length > limit.transmitter
ReportOut ==
    /\ at[PollThread] = "report"
    /\ Ends(PollThread, IF Refused(packet[PollThread]) THEN "ended" ELSE "idle")
    /\ UNCHANGED <<limit, buildermutex, byes>>

\* A collision: the BYE packet of the old SSRC waits for its time.
ByeBuilt(n) ==
    /\ at[PollThread] = "idle" /\ buildermutex = NoUser
    /\ n <= limit.reports
    /\ byes' = Append(byes, PacketOf(n))
    /\ UNCHANGED <<limit, buildermutex, at, packet>>
ByeOut ==
    /\ at[PollThread] = "idle" /\ byes # <<>>
    /\ byes' = Tail(byes)
    /\ at' = [at EXCEPT ![PollThread] = IF Refused(Head(byes)) THEN "ended" ELSE "idle"]
    /\ UNCHANGED <<limit, buildermutex, packet>>

LimitsNext ==
    \/ SetSessionPacketSize
    \/ \E u \in Users :
          \/ \E n \in Lengths : SendPacketBuilt(u, n)
          \/ SendPacketOut(u)
          \/ AppPacketAsked(u) \/ AppPacketInit(u) \/ AppPacketFilled(u) \/ AppPacketOut(u)
    \/ \E n \in Lengths : ReportBuilt(n) \/ (Len(byes) < 2 /\ ByeBuilt(n))
    \/ ReportOut \/ ByeOut
-----------------------------------------------------------------------------
(* Properties *)

LimitsTypeOK ==
    /\ limit \in [{"transmitter", "packets", "reports", "session"} -> SmallestSize .. LargestSize]
    /\ buildermutex \in Users \cup {NoUser}
    /\ at \in [Users \cup {PollThread} ->
                  {"idle", "builders", "restore", "remember", "send", "init", "fill", "app", "report", "ended"}]
    /\ packet \in [Users \cup {PollThread} -> [length : Nat, changed : BOOLEAN]]
    /\ byes \in Seq([length : Nat, changed : BOOLEAN])

\* With one thread that sets the size, the four places agree whenever it is not in
\* the call, also after a call that failed half way; and a packet that was built
\* within the limit is refused, and by that ends the poll thread, only if a size
\* was being set meanwhile.
LimitsAgree ==
    /\ IsSetting \/ \A k \in DOMAIN limit : limit[k] = limit.session
    /\ \A u \in DOMAIN packet :
          at[u] \in {"send", "app", "report"} /\ Refused(packet[u]) => packet[u].changed
    /\ \A i \in DOMAIN byes : Refused(byes[i]) => byes[i].changed
=============================================================================
