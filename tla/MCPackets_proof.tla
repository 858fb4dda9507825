-------------------------- MODULE MCPackets_proof ---------------------------
(***************************************************************************)
(* What is sent.  The UDP interface: every byte of a message is handed over *)
(* once, in order, for every limit, every length and both tests of the      *)
(* short message (UdpSend).  The packet size of a session: LimitsAgree for  *)
(* any number of threads, sizes and lengths (SessionLimits).  The           *)
(* description of a participant: EachPrefixOnce for any prefixes, values    *)
(* and limit (SdesInfo).  RTP packets: RtpIsRead for any packets, calls and *)
(* datagrams (RtpPacket).  RTCP packets over time: ReportsReachAll for any  *)
(* sources, items and intervals (RtcpReports).  At the end all of them      *)
(* together, as MCPackets runs them.                                        *)
(***************************************************************************)
EXTENDS MCPackets, CompoundPacket_proof, FiniteSetTheorems

\* A datagram that starts where the last one ended, is within the limit and
\* within the message keeps the order.
LEMMA Appended ==
    ASSUME TypeOK, InOrder, NEW from \in Nat, NEW size \in Nat,
           from = Handed, size <= Limit, from + size <= length,
           SendTo(from, size), length' = length
    PROVE  /\ out' \in Seq(Datagram)
           /\ InOrder'
           /\ Handed' = from + size
           /\ \A i \in 1 .. Len(out') :
                 \/ i \in 1 .. Len(out) /\ out'[i] = out[i]
                 \/ out'[i].size = size
<1> DEFINE d == [from |-> from, size |-> size]
<1>1. d \in Datagram /\ out \in Seq(Datagram) /\ out' = Append(out, d)
  BY DEF Datagram, TypeOK, SendTo
<1>2. /\ out' \in Seq(Datagram)
      /\ Len(out') = Len(out) + 1
      /\ Len(out) \in Nat
      /\ \A i \in 1 .. Len(out) : out'[i] = out[i]
      /\ out'[Len(out) + 1] = d
  BY <1>1
<1>3. out' # <<>> /\ Handed' = from + size
  BY <1>2 DEF Handed, End
<1>4. ASSUME NEW i \in 1 .. Len(out')
      PROVE  /\ out'[i].from = IF i = 1 THEN 0 ELSE End(out'[i - 1])
             /\ out'[i].size <= Limit
  <2>1. CASE i \in 1 .. Len(out)
    <3>1. out'[i] = out[i] /\ (i # 1 => out'[i - 1] = out[i - 1])
      BY <1>2, <2>1
    <3> QED BY <2>1, <3>1 DEF InOrder
  <2>2. CASE i = Len(out) + 1
    <3>1. i # 1 => out # <<>> /\ out'[i - 1] = out[Len(out)]
      BY <1>1, <1>2, <2>2
    <3>2. i = 1 => out = <<>>
      BY <1>1, <1>2, <2>2
    <3> QED BY <1>2, <2>2, <3>1, <3>2 DEF Handed
  <2> QED BY <1>2, <2>1, <2>2
<1>5. InOrder'
  BY <1>3, <1>4 DEF InOrder
<1>6. ASSUME NEW i \in 1 .. Len(out')
      PROVE  \/ i \in 1 .. Len(out) /\ out'[i] = out[i]
             \/ out'[i].size = size
  BY <1>2
<1> QED BY <1>2, <1>3, <1>5, <1>6
-----------------------------------------------------------------------------
\* While the call runs only full datagrams have gone out, as many as the loop
\* counted; a short message has sent none.
SendInv ==
    /\ TypeOK
    /\ InOrder
    /\ AllHanded
    /\ ~done => /\ Handed = index * Limit
                /\ index <= Count
                /\ Short => index = 0
                /\ \A i \in 1 .. Len(out) : out[i].size > 0

\* What division says of a message.
LEMMA Cut ==
    ASSUME TypeOK
    PROVE  /\ Limit \in Nat \ {0}
           /\ length \in Nat
           /\ Count \in Nat
           /\ Rest \in 0 .. Limit - 1
           /\ length = Count * Limit + Rest
           /\ Count * Limit \in Nat
<1>1. Limit \in Nat \ {0} /\ length \in Nat
  BY SendAssumption DEF TypeOK
<1>2. /\ Count \in Nat
      /\ Rest \in 0 .. Limit - 1
      /\ length = Count * Limit + Rest
  BY <1>1, Division DEF Count, Rest
<1> QED BY <1>1, <1>2, Product

LEMMA InitInv == Init => SendInv
<1> SUFFICES ASSUME Init PROVE SendInv
  OBVIOUS
<1>1. /\ length \in 0 .. MaxLength /\ out = <<>> /\ index = 0 /\ done = FALSE
      /\ Handed = 0
  BY DEF Init, Handed
<1>2. TypeOK
  <2>1. <<>> \in Seq(Datagram)
    OBVIOUS
  <2> QED BY <1>1, <2>1 DEF TypeOK
<1>3. InOrder
  BY <1>1, <1>2 DEF InOrder, TypeOK
<1> QED BY <1>1, <1>2, <1>3, Cut DEF SendInv, AllHanded

\* A short message: one datagram from byte 0.
LEMMA ShortInv == SendInv /\ SendShort => SendInv'
<1> SUFFICES ASSUME SendInv, SendShort PROVE SendInv'
  OBVIOUS
<1>1. /\ TypeOK /\ InOrder /\ ~done /\ Short /\ length' = length /\ index' = index
      /\ done' = TRUE /\ SendTo(0, length) /\ index = 0
  BY DEF SendInv, SendShort
<1>2. length \in Nat /\ Limit \in Nat /\ index * Limit = 0
  BY <1>1, Cut
<1>3. Handed = 0 /\ length <= Limit
  BY <1>1, <1>2 DEF SendInv, Short
<1>4. /\ out' \in Seq(Datagram)
      /\ InOrder'
      /\ Handed' = length
      /\ \A i \in 1 .. Len(out') :
            \/ i \in 1 .. Len(out) /\ out'[i] = out[i]
            \/ out'[i].size = length
  <2>1. 0 \in Nat /\ 0 + length = length
    BY <1>2
  <2> QED BY <1>1, <1>2, <1>3, <2>1, Appended
<1>5. TypeOK'
  BY <1>1, <1>4 DEF TypeOK
<1>6. AllHanded'
  BY <1>1, <1>2, <1>4 DEF SendInv, AllHanded
<1> QED BY <1>1, <1>4, <1>5, <1>6 DEF SendInv

\* A full datagram in the loop.
LEMMA FullInv == SendInv /\ SendFull => SendInv'
<1> SUFFICES ASSUME SendInv, SendFull PROVE SendInv'
  OBVIOUS
<1> DEFINE from == index * Limit
<1>1. /\ TypeOK /\ InOrder /\ ~done /\ ~Short /\ length' = length /\ ~done'
      /\ index \in Nat /\ index < Count /\ index' = index + 1 /\ done' \in BOOLEAN
      /\ SendTo(from, Limit) /\ Handed = from
  BY DEF SendInv, SendFull, TypeOK
<1>2. /\ Limit \in Nat \ {0} /\ length \in Nat /\ Count \in Nat
      /\ Rest \in Nat /\ length = Count * Limit + Rest
  BY <1>1, Cut
<1>3. /\ from \in Nat
      /\ index' * Limit = from + Limit
      /\ index' \in Nat /\ index' <= Count
  BY <1>1, <1>2, Product
<1>4. from + Limit <= length
  <2>1. index' * Limit <= Count * Limit /\ Count * Limit \in Nat
    <3>1. /\ index' \in Nat /\ Count \in Nat /\ Limit \in Nat
          /\ index' <= Count
      BY <1>2, <1>3
    <3> HIDE DEF from
    <3>2. ASSUME NEW a \in Nat, NEW b \in Nat, a <= b
          PROVE  a * Limit <= b * Limit /\ b * Limit \in Nat
      BY <3>1, <3>2, Product
    <3> QED BY <3>1, <3>2
  <2> QED BY <1>2, <1>3, <2>1
<1> HIDE DEF from
<1>5. /\ out' \in Seq(Datagram)
      /\ InOrder'
      /\ Handed' = from + Limit
      /\ \A i \in 1 .. Len(out') :
            \/ i \in 1 .. Len(out) /\ out'[i] = out[i]
            \/ out'[i].size = Limit
  <2>1. Limit \in Nat /\ Limit <= Limit
    BY <1>2
  <2> QED
    BY <1>1, <1>3, <1>4, <2>1, Appended, ZenonT(60)
<1>6. TypeOK'
  BY <1>1, <1>3, <1>5 DEF TypeOK
<1>7. AllHanded'
  BY <1>1 DEF AllHanded
<1>8. \A i \in 1 .. Len(out') : out'[i].size > 0
  BY <1>1, <1>2, <1>5 DEF SendInv
<1>9. Count' = Count /\ ~Short' /\ Handed' = index' * Limit
  BY <1>1, <1>3, <1>5 DEF Count, Short
<1> QED BY <1>1, <1>3, <1>5, <1>6, <1>7, <1>8, <1>9 DEF SendInv

\* The rest, if there is one.
LEMMA RestInv == SendInv /\ SendRest => SendInv'
<1> SUFFICES ASSUME SendInv, SendRest PROVE SendInv'
  OBVIOUS
<1> DEFINE from == Count * Limit
<1>1. /\ TypeOK /\ InOrder /\ ~done /\ length' = length /\ index' = index /\ done'
      /\ done' \in BOOLEAN /\ Handed = from
      /\ IF Rest # 0 THEN SendTo(from, Rest) ELSE out' = out
      /\ \A i \in 1 .. Len(out) : out[i].size > 0
  BY DEF SendInv, SendRest
<1>2. /\ Limit \in Nat /\ length \in Nat /\ Rest \in Nat /\ Rest <= Limit
      /\ from \in Nat /\ length = from + Rest
  BY <1>1, Cut
<1> HIDE DEF from
<1>3. CASE Rest = 0
  <2>1. out' = out /\ Handed' = length
    BY <1>1, <1>2, <1>3 DEF Handed
  <2>2. TypeOK' /\ InOrder'
    BY <1>1, <1>2, <2>1 DEF TypeOK, InOrder
  <2>3. AllHanded'
    BY <1>1, <2>1 DEF AllHanded
  <2> QED BY <1>1, <2>2, <2>3 DEF SendInv
<1>4. CASE Rest # 0
  <2>1. /\ out' \in Seq(Datagram)
        /\ InOrder'
        /\ Handed' = length
        /\ \A i \in 1 .. Len(out') :
              \/ i \in 1 .. Len(out) /\ out'[i] = out[i]
              \/ out'[i].size = Rest
    BY <1>1, <1>2, <1>4, Appended
  <2>2. TypeOK'
    BY <1>1, <2>1 DEF TypeOK
  <2>3. AllHanded'
    BY <1>1, <1>2, <1>4, <2>1 DEF AllHanded
  <2> QED BY <1>1, <2>1, <2>2, <2>3 DEF SendInv
<1> QED BY <1>3, <1>4

\* A new call starts like the first.
LEMMA AgainInv == SendInv /\ Again => SendInv'
<1> SUFFICES ASSUME Again PROVE SendInv'
  OBVIOUS
<1>1. Init'
  BY DEF Again, Init
<1> QED BY <1>1, InitInv, PTL

\* UdpSend: every reachable state satisfies the invariant.
LEMMA Invariance == Spec => []SendInv
<1>1. SendInv /\ [Next]_vars => SendInv'
  <2> SUFFICES ASSUME SendInv, [Next]_vars PROVE SendInv'
    OBVIOUS
  <2>1. CASE UNCHANGED vars
    BY <2>1 DEF vars, SendInv, TypeOK, InOrder, AllHanded, Handed, Count, Short, End
  <2> QED BY <2>1, ShortInv, FullInv, RestInv, AgainInv DEF Next
<1> QED BY <1>1, InitInv, PTL DEF Spec

\* sendmsg hands over each byte of the message once and in order, in datagrams
\* within the limit, and all of them by the time it returns.
THEOREM EveryByteOnce == Spec => []EveryByteHanded
<1>1. SendInv => EveryByteHanded
  BY DEF SendInv, EveryByteHanded
<1> QED BY <1>1, Invariance, PTL
-----------------------------------------------------------------------------
(* The packet size of a session *)

LimitsSpec == LimitsInit /\ [][LimitsNext]_limitVars

\* What the four sizes are at each place of the call that sets them.
SizesInv ==
    /\ limit.packets = limit.reports
    /\ at[Setter] \in {"builders", "restore"} => limit.packets = limit.session
    /\ at[Setter] = "remember" => /\ limit.transmitter = packet[Setter].length
                                  /\ limit.packets = packet[Setter].length
    /\ at[Setter] = "builders" => limit.transmitter = packet[Setter].length
    /\ ~IsSetting => limit.transmitter = limit.session /\ limit.packets = limit.session
    /\ IsSetting => packet[Setter].length \in SmallestSize .. LargestSize

\* A packet, or a length a packet is being given, is known to fit, or a size was
\* being set since; while one is being set, that is so of every packet.
Fits(p) ==
    /\ p.changed \/ p.length <= limit.transmitter
    /\ IsSetting => p.changed
Packet == [length : Nat, changed : BOOLEAN]
UnderWay == {"send", "fill", "app", "report"}
PacketsInv == \A u \in Users \cup {PollThread} : at[u] \in UnderWay => Fits(packet[u])
ByesInv == \A i \in DOMAIN byes : Fits(byes[i])
LimitsInv == LimitsTypeOK /\ SizesInv /\ PacketsInv /\ ByesInv

\* Create gives every part the same size.
LEMMA InitHasIt == LimitsInit => LimitsInv
PROOF
  <1> SUFFICES ASSUME LimitsInit PROVE LimitsInv
    OBVIOUS
  <1>1. PICK size \in SizesAsked : SmallestSize <= size /\ size <= LargestSize /\ CreateWith(size)
    BY DEF LimitsInit
  <1>2. LimitsTypeOK
    BY <1>1, LimitsAssumption DEF LimitsTypeOK, CreateWith, NoPacketYet
  <1>3. SizesInv /\ PacketsInv /\ ByesInv
    BY <1>1, LimitsAssumption
    DEF SizesInv, PacketsInv, ByesInv, CreateWith, IsSetting, UnderWay
  <1>4. QED
    BY <1>2, <1>3 DEF LimitsInv

\* Each step of the call that sets a size keeps it.
LEMMA SettingKeepsIt ==
    ASSUME LimitsInv, SetSessionPacketSize
    PROVE  LimitsInv'
PROOF
  <1> USE LimitsAssumption DEF LimitsInv, LimitsTypeOK
  <1>1. ASSUME NEW size \in SizesAsked, NewSize(size) PROVE LimitsInv'
    <2>1. size \in SmallestSize .. LargestSize
      BY <1>1 DEF NewSize
    <2>a. packet' \in [Users \cup {PollThread} -> Packet]
      BY <1>1, <2>1 DEF NewSize, Packet
    <2>b. byes' \in Seq(Packet) /\ \A i \in DOMAIN byes' : byes'[i].changed
      <3> DEFINE marked(i) == [byes[i] EXCEPT !.changed = TRUE]
      <3>1. byes' = [i \in 1 .. Len(byes) |-> marked(i)] /\ Len(byes) \in Nat
        BY <1>1 DEF NewSize
      <3>2. ASSUME NEW i \in 1 .. Len(byes) PROVE marked(i) \in Packet /\ marked(i).changed
        <4>1. byes \in Seq(Packet)
          BY DEF Packet
        <4>2. byes[i] \in Packet
          BY <4>1
        <4>3. QED
          BY <4>2 DEF Packet
      <3> HIDE DEF marked
      <3>3. QED
        BY <3>1, <3>2
    <2>2. LimitsTypeOK'
      BY <1>1, <2>1, <2>a, <2>b DEF NewSize, Packet
    <2>3. IsSetting' /\ ~IsSetting
      BY <1>1 DEF NewSize, IsSetting
    <2>4. SizesInv'
      BY <1>1, <2>1, <2>3 DEF NewSize, SizesInv
    <2>5. PacketsInv'
      <3> SUFFICES ASSUME NEW u \in Users \cup {PollThread}, at'[u] \in UnderWay
                   PROVE  Fits(packet[u])'
        BY DEF PacketsInv
      <3>1. u # Setter
        BY <1>1 DEF NewSize, UnderWay
      <3>2. packet'[u].changed
        BY <1>1, <3>1 DEF NewSize
      <3>3. QED
        BY <3>2 DEF Fits
    <2>c. ByesInv'
      BY <2>b DEF ByesInv, Fits
    <2>6. QED
      BY <2>2, <2>4, <2>5, <2>c
  <1>2. CASE NewSizeBuilders
    <2>1. LimitsTypeOK'
      BY <1>2 DEF NewSizeBuilders, SizesInv, IsSetting
    <2>2. SizesInv'
      BY <1>2 DEF NewSizeBuilders, SizesInv, IsSetting
    <2>3. PacketsInv' /\ ByesInv'
      BY <1>2 DEF NewSizeBuilders, PacketsInv, ByesInv, Fits, UnderWay, IsSetting
    <2>4. QED
      BY <2>1, <2>2, <2>3
  <1>3. CASE NewSizeRemembered
    <2>1. LimitsTypeOK'
      BY <1>3 DEF NewSizeRemembered, SizesInv, IsSetting
    <2>2. SizesInv'
      BY <1>3 DEF NewSizeRemembered, SizesInv, IsSetting
    <2>3. PacketsInv' /\ ByesInv'
      BY <1>3 DEF NewSizeRemembered, PacketsInv, ByesInv, Fits, UnderWay, IsSetting
    <2>4. QED
      BY <2>1, <2>2, <2>3
  <1>4. CASE NewSizeFails
    <2>1. LimitsTypeOK' /\ SizesInv'
      BY <1>4 DEF NewSizeFails, SizesInv, IsSetting
    <2>2. PacketsInv' /\ ByesInv'
      BY <1>4 DEF NewSizeFails, PacketsInv, ByesInv, Fits, UnderWay, IsSetting
    <2>3. QED
      BY <2>1, <2>2
  <1>5. CASE NewSizeRestored
    <2>1. LimitsTypeOK' /\ SizesInv'
      BY <1>5 DEF NewSizeRestored, SizesInv, IsSetting
    <2>2. PacketsInv' /\ ByesInv'
      BY <1>5 DEF NewSizeRestored, PacketsInv, ByesInv, Fits, UnderWay, IsSetting
    <2>3. QED
      BY <2>1, <2>2
  <1>6. QED
    BY <1>1, <1>2, <1>3, <1>4, <1>5 DEF SetSessionPacketSize

\* A thread other than the one that sets a size goes on: nothing but its place and
\* its packet changes, and that packet fits while it is under way.
LEMMA ThreadGoesOn ==
    ASSUME LimitsInv, NEW v \in Users \cup {PollThread}, v = Setter => ~IsSetting,
           NEW place \in {"idle", "send", "init", "fill", "app", "report", "ended"},
           NEW p \in Packet, place \in UnderWay => Fits(p),
           at' = [at EXCEPT ![v] = place], packet' = [packet EXCEPT ![v] = p],
           UNCHANGED <<limit, byes>>, buildermutex' \in Users \cup {NoUser}
    PROVE  LimitsInv'
PROOF
  <1> USE LimitsAssumption
  <1>1. LimitsTypeOK'
    BY DEF LimitsInv, LimitsTypeOK, Packet
  <1>2. IsSetting' <=> IsSetting
    BY DEF LimitsInv, LimitsTypeOK, IsSetting
  <1>3. at'[Setter] \in {"builders", "restore", "remember"} => v # Setter
    BY DEF LimitsInv, LimitsTypeOK
  <1>4. SizesInv'
    BY <1>2, <1>3 DEF LimitsInv, LimitsTypeOK, SizesInv, IsSetting
  <1>5. PacketsInv'
    <2> SUFFICES ASSUME NEW u \in Users \cup {PollThread}, at'[u] \in UnderWay
                 PROVE  Fits(packet[u])'
      BY DEF PacketsInv
    <2>1. CASE u = v
      BY <1>2, <2>1 DEF LimitsInv, LimitsTypeOK, Fits
    <2>2. CASE u # v
      BY <1>2, <2>2 DEF LimitsInv, LimitsTypeOK, PacketsInv, Fits
    <2>3. QED
      BY <2>1, <2>2
  <1>6. ByesInv'
    BY <1>2 DEF LimitsInv, ByesInv, Fits
  <1>7. QED
    BY <1>1, <1>4, <1>5, <1>6 DEF LimitsInv

\* What is built within the size of the builders or of the session fits.
LEMMA BuiltFits ==
    ASSUME LimitsInv, NEW n \in Nat, n <= limit.packets \/ n <= limit.session
    PROVE  PacketOf(n) \in Packet /\ Fits(PacketOf(n)) /\ NoPacketYet \in Packet
PROOF
  <1>1. IsSetting \in BOOLEAN
    BY DEF IsSetting
  <1>2. CASE IsSetting
    BY <1>1, <1>2 DEF PacketOf, Packet, Fits, NoPacketYet
  <1>3. CASE ~IsSetting
    BY <1>1, <1>3, LimitsAssumption
    DEF LimitsInv, LimitsTypeOK, SizesInv, PacketOf, Packet, Fits, NoPacketYet
  <1>4. QED
    BY <1>2, <1>3

\* So does a thread of the application that sends.
LEMMA UserKeepsIt ==
    ASSUME LimitsInv, NEW u \in Users,
           \/ \E n \in Lengths : SendPacketBuilt(u, n)
           \/ SendPacketOut(u)
           \/ AppPacketAsked(u) \/ AppPacketInit(u) \/ AppPacketFilled(u) \/ AppPacketOut(u)
    PROVE  LimitsInv'
PROOF
  <1> USE LimitsAssumption
  <1>a. u = Setter => (~IsSetting <=> at[u] \notin {"builders", "restore", "remember"})
    BY DEF IsSetting
  <1>b. NoPacketYet \in Packet /\ buildermutex \in Users \cup {NoUser}
    BY DEF NoPacketYet, Packet, LimitsInv, LimitsTypeOK
  <1>1. ASSUME NEW n \in Lengths, SendPacketBuilt(u, n) PROVE LimitsInv'
    <2>1. n \in Nat /\ n <= limit.packets
      BY <1>1 DEF SendPacketBuilt
    <2>2. PacketOf(n) \in Packet /\ Fits(PacketOf(n))
      BY <2>1, BuiltFits
    <2>3. QED
      BY <1>1, <1>a, <2>2, ThreadGoesOn DEF SendPacketBuilt, Starts
  <1>2. CASE SendPacketOut(u)
    BY <1>2, <1>a, <1>b, ThreadGoesOn DEF SendPacketOut, Ends, UnderWay
  <1>3. CASE AppPacketAsked(u)
    <2>1. PacketOf(0) \in Packet
      BY DEF PacketOf, Packet, IsSetting
    <2>2. QED
      BY <1>3, <1>a, <1>b, <2>1, ThreadGoesOn DEF AppPacketAsked, Starts, UnderWay
  <1>4. CASE AppPacketInit(u)
    <2>1. limit.session \in Nat /\ limit.session <= limit.session
      BY DEF LimitsInv, LimitsTypeOK
    <2>2. PacketOf(limit.session) \in Packet /\ Fits(PacketOf(limit.session))
      BY <2>1, BuiltFits
    <2>3. QED
      BY <1>4, <1>a, <1>b, <2>2, ThreadGoesOn DEF AppPacketInit, Starts
  <1>5. ASSUME NEW n \in Lengths, n <= packet[u].length, at[u] = "fill",
               at' = [at EXCEPT ![u] = "app"],
               packet' = [packet EXCEPT ![u].length = n],
               UNCHANGED <<limit, buildermutex, byes>>
        PROVE  LimitsInv'
    <2> DEFINE p == [length |-> n, changed |-> packet[u].changed]
    <2>1. packet[u] \in Packet /\ Fits(packet[u])
      BY <1>5 DEF LimitsInv, LimitsTypeOK, Packet, PacketsInv, UnderWay
    <2>2. p \in Packet /\ packet' = [packet EXCEPT ![u] = p]
      <3>1. p \in Packet /\ p = [packet[u] EXCEPT !.length = n]
        BY <1>5, <2>1 DEF Packet
      <3>2. QED
        BY <1>5, <3>1
    <2>3. p.length = n /\ p.changed = packet[u].changed /\ limit.transmitter \in Nat
      BY DEF LimitsInv, LimitsTypeOK
    <2> HIDE DEF p
    <2>4. Fits(p)
      BY <1>5, <2>1, <2>3 DEF Fits, Packet
    <2>5. QED
      BY <1>5, <1>a, <1>b, <2>2, <2>4, ThreadGoesOn
  <1>6. CASE AppPacketFilled(u)
    <2>1. CASE at[u] = "fill" /\ Ends(u, "idle") /\ UNCHANGED <<limit, buildermutex, byes>>
      BY <2>1, <1>a, <1>b, ThreadGoesOn DEF Ends, UnderWay
    <2>2. QED
      BY <1>5, <1>6, <2>1 DEF AppPacketFilled
  <1>7. CASE AppPacketOut(u)
    BY <1>7, <1>a, <1>b, ThreadGoesOn DEF AppPacketOut, Ends, UnderWay
  <1>8. QED
    BY <1>1, <1>2, <1>3, <1>4, <1>6, <1>7

\* And the poll thread.
LEMMA PollThreadKeepsIt ==
    ASSUME LimitsInv,
           \/ \E n \in Lengths : ReportBuilt(n) \/ ByeBuilt(n)
           \/ ReportOut \/ ByeOut
    PROVE  LimitsInv'
PROOF
  <1> USE LimitsAssumption
  <1>a. NoPacketYet \in Packet /\ buildermutex \in Users \cup {NoUser} /\ PollThread # Setter
    BY DEF NoPacketYet, Packet, LimitsInv, LimitsTypeOK
  <1>b. limit.packets = limit.reports /\ byes \in Seq(Packet)
    BY DEF LimitsInv, LimitsTypeOK, SizesInv, Packet
  <1>1. ASSUME NEW n \in Lengths, ReportBuilt(n) PROVE LimitsInv'
    <2>1. n \in Nat /\ n <= limit.packets
      BY <1>1, <1>b DEF ReportBuilt
    <2>2. PacketOf(n) \in Packet /\ Fits(PacketOf(n))
      BY <2>1, BuiltFits
    <2>3. QED
      BY <1>1, <1>a, <2>2, ThreadGoesOn DEF ReportBuilt, Starts
  <1>2. ASSUME NEW n \in Lengths, ByeBuilt(n) PROVE LimitsInv'
    <2>1. n \in Nat /\ n <= limit.packets
      BY <1>2, <1>b DEF ByeBuilt
    <2>2. PacketOf(n) \in Packet /\ Fits(PacketOf(n))
      BY <2>1, BuiltFits
    <2>3. /\ byes' \in Seq(Packet)
          /\ \A i \in DOMAIN byes' :
                \/ i \in DOMAIN byes /\ byes'[i] = byes[i]
                \/ byes'[i] = PacketOf(n)
      BY <1>2, <1>b, <2>2 DEF ByeBuilt
    <2>4. LimitsTypeOK'
      BY <1>2, <2>3 DEF LimitsInv, LimitsTypeOK, ByeBuilt, Packet
    <2>5. SizesInv' /\ PacketsInv'
      BY <1>2 DEF LimitsInv, SizesInv, PacketsInv, Fits, IsSetting, ByeBuilt
    <2>6. \A i \in DOMAIN byes' : Fits(byes'[i])
      BY <2>2, <2>3 DEF LimitsInv, ByesInv
    <2>7. ByesInv'
      BY <1>2, <2>6 DEF ByesInv, Fits, IsSetting, ByeBuilt
    <2>8. QED
      BY <2>4, <2>5, <2>7 DEF LimitsInv
  <1>3. CASE ReportOut
    BY <1>3, <1>a, ThreadGoesOn DEF ReportOut, Ends, UnderWay
  <1>4. CASE ByeOut
    <2>1. /\ byes' \in Seq(Packet)
          /\ \A i \in DOMAIN byes' : i + 1 \in DOMAIN byes /\ byes'[i] = byes[i + 1]
      BY <1>4, <1>b DEF ByeOut
    <2>2. at'[PollThread] \in {"idle", "ended"} /\ \A u \in Users : at'[u] = at[u]
      BY <1>4 DEF ByeOut, LimitsInv, LimitsTypeOK
    <2>3. IsSetting' <=> IsSetting
      BY <2>2 DEF IsSetting
    <2>4. LimitsTypeOK'
      BY <1>4, <2>1 DEF LimitsInv, LimitsTypeOK, ByeOut, Packet
    <2>5. SizesInv' /\ PacketsInv'
      BY <1>4, <2>2, <2>3 DEF LimitsInv, SizesInv, PacketsInv, Fits, UnderWay, ByeOut
    <2>6. ByesInv'
      BY <1>4, <2>1, <2>3 DEF LimitsInv, ByesInv, Fits, ByeOut
    <2>7. QED
      BY <2>4, <2>5, <2>6 DEF LimitsInv
  <1>5. QED
    BY <1>1, <1>2, <1>3, <1>4

\* The invariant says what LimitsAgree asks.
LEMMA InvariantSaysIt == LimitsInv => LimitsAgree
PROOF
  <1> SUFFICES ASSUME LimitsInv PROVE LimitsAgree
    OBVIOUS
  <1>1. IsSetting \/ \A k \in DOMAIN limit : limit[k] = limit.session
    BY DEF LimitsInv, LimitsTypeOK, SizesInv
  <1>2. limit.transmitter \in Nat
    BY LimitsAssumption DEF LimitsInv, LimitsTypeOK
  <1>3. ASSUME NEW p \in Packet, Fits(p), Refused(p) PROVE p.changed
    <2>1. p.length \in Nat /\ p.changed \in BOOLEAN
      BY DEF Packet
    <2>2. ~(p.length <= limit.transmitter)
      BY <1>2, <1>3, <2>1 DEF Refused
    <2>3. QED
      BY <1>3, <2>2 DEF Fits
  <1>4. \A v \in DOMAIN packet : packet[v] \in Packet /\ v \in Users \cup {PollThread}
    BY DEF LimitsInv, LimitsTypeOK, Packet
  <1>5. \A i \in DOMAIN byes : byes[i] \in Packet /\ Fits(byes[i])
    <2>1. byes \in Seq(Packet)
      BY DEF LimitsInv, LimitsTypeOK, Packet
    <2>2. QED
      BY <2>1 DEF LimitsInv, ByesInv
  <1>6. \A v \in DOMAIN packet :
           at[v] \in {"send", "app", "report"} /\ Refused(packet[v]) => packet[v].changed
    BY <1>3, <1>4 DEF LimitsInv, PacketsInv, UnderWay
  <1>7. QED
    BY <1>1, <1>3, <1>5, <1>6 DEF LimitsAgree

LEMMA LimitsNextKeepsIt == LimitsInv /\ [LimitsNext]_limitVars => LimitsInv'
<1> SUFFICES ASSUME LimitsInv, [LimitsNext]_limitVars PROVE LimitsInv'
  OBVIOUS
<1>1. CASE LimitsNext
  BY <1>1, SettingKeepsIt, UserKeepsIt, PollThreadKeepsIt DEF LimitsNext
<1>2. CASE UNCHANGED limitVars
  BY <1>2 DEF limitVars, LimitsInv, LimitsTypeOK, SizesInv, PacketsInv, ByesInv, Fits,
              IsSetting
<1> QED
  BY <1>1, <1>2

\* The four places in which a session (RTPSession::SetMaximumPacketSize) keeps its
\* packet size agree whenever no call sets it, and a packet is refused only if a
\* size was being set since it was built: for any number of threads and any sizes.
THEOREM LimitsSafety == LimitsSpec => []LimitsAgree
  BY InitHasIt, InvariantSaysIt, LimitsNextKeepsIt, PTL DEF LimitsSpec
-----------------------------------------------------------------------------
(* The description of a participant *)

Item == [prefix : PrivNames, value : Contents]
Given == {visit.given[i].prefix : i \in DOMAIN visit.given}

\* All items have different prefixes.
Distinct(s) == \A i, j \in DOMAIN s : s[i].prefix = s[j].prefix => i = j

\* The items from place c on.
FromPlace(c) == {p \in PrivNames : \E i \in DOMAIN privitems : c <= i /\ privitems[i].prefix = p}

\* The iterator is at place c: what it gave is not there any more or in front of
\* it, and what it owes is at c or behind.
StandsAt(c) ==
    /\ c \in DOMAIN privitems /\ privitems[c].prefix = curitem
    /\ FromPlace(c) \cap Given = {}
    /\ visit.owed \subseteq Given \cup FromPlace(c)

SdesInv ==
    /\ SdesTypeOK
    /\ privitems \in Seq(Item) /\ Distinct(privitems) /\ Len(privitems) <= MaxPrivItems
    /\ visit \in [given : Seq(Item), owed : SUBSET PrivNames] /\ Distinct(visit.given)
    /\ curitem = Bottom => visit.owed \subseteq Given
    /\ curitem \in PrivNames => \E c : StandsAt(c)

LEMMA WithoutOne ==
    ASSUME NEW S, NEW s \in Seq(S), NEW p \in DOMAIN s
    PROVE  LET r == RemoveAt(s, p)
           IN  /\ r \in Seq(S) /\ DOMAIN r = 1 .. Len(s) - 1 /\ Len(r) = Len(s) - 1
               /\ \A j \in 1 .. Len(s) - 1 : r[j] = IF j < p THEN s[j] ELSE s[j + 1]
<1> DEFINE r == RemoveAt(s, p)
           n == Len(s)
           a == SubSeq(s, 1, p - 1)
           b == SubSeq(s, p + 1, n)
<1>1. n \in Nat /\ DOMAIN s = 1 .. n /\ p \in 1 .. n
  OBVIOUS
<1>2. a \in Seq(S) /\ Len(a) = p - 1 /\ \A k \in 1 .. p - 1 : a[k] = s[k]
  BY <1>1
<1>3. b \in Seq(S) /\ Len(b) = n - p /\ \A k \in 1 .. n - p : b[k] = s[p + k]
  BY <1>1
<1>4. r = a \o b
  BY DEF RemoveAt
<1> HIDE DEF a, b, r, n
<1>5. r \in Seq(S) /\ Len(r) = n - 1 /\ DOMAIN r = 1 .. n - 1
  <2>1. r \in Seq(S) /\ Len(r) = Len(a) + Len(b)
    BY <1>2, <1>3, <1>4, ConcatProperties
  <2>2. Len(r) = n - 1
    BY <1>1, <1>2, <1>3, <2>1
  <2> QED
    BY <2>1, <2>2
<1>6. ASSUME NEW j \in 1 .. n - 1 PROVE r[j] = IF j < p THEN s[j] ELSE s[j + 1]
  <2>1. CASE j < p
    BY <1>1, <1>2, <1>3, <1>4, <2>1
  <2>2. CASE ~(j < p)
    <3>1. j - (p - 1) \in 1 .. n - p /\ r[j] = b[j - (p - 1)] /\ p + (j - (p - 1)) = j + 1
      BY <1>1, <1>2, <1>3, <1>4, <2>2
    <3>2. b[j - (p - 1)] = s[p + (j - (p - 1))]
      BY <1>3, <3>1
    <3> QED
      BY <2>2, <3>1, <3>2
  <2> QED
    BY <2>1, <2>2
<1> QED
  BY <1>5, <1>6 DEF r, n

\* What an item in a list is.
LEMMA ItemsAre ==
    ASSUME NEW s \in Seq(Item)
    PROVE  \A i \in DOMAIN s : /\ s[i] \in Item /\ s[i].prefix \in PrivNames
                              /\ s[i] \in [prefix : PrivNames, value : Contents]
<1> TAKE i \in DOMAIN s
<1>1. s[i] \in Item
  OBVIOUS
<1> QED
  BY <1>1 DEF Item

LEMMA SdesStarts == SdesInit => SdesInv
<1> SUFFICES ASSUME SdesInit PROVE SdesInv
  OBVIOUS
<1>1. /\ fields = [f \in Fields |-> Blank] /\ privitems = <<>> /\ curitem = Lost
      /\ visit = [given |-> <<>>, owed |-> {}]
  BY DEF SdesInit, NoVisit
<1>2. Lost \notin PrivNames /\ Lost # Bottom /\ MaxPrivItems \in Nat
  BY SdesAssumption
<1>3. SdesTypeOK
  BY <1>1 DEF SdesTypeOK
<1>4. /\ privitems \in Seq(Item) /\ Distinct(privitems) /\ Len(privitems) <= MaxPrivItems
      /\ visit \in [given : Seq(Item), owed : SUBSET PrivNames] /\ Distinct(visit.given)
  BY <1>1, <1>2 DEF Distinct
<1> QED
  BY <1>1, <1>2, <1>3, <1>4 DEF SdesInv

LEMMA SdesQuiet == ASSUME SdesInv, UNCHANGED <<privitems, curitem, visit>>,
                          fields' \in [Fields -> Contents \cup {Blank}]
                   PROVE  SdesInv'
<1>1. Given' = Given /\ \A k : FromPlace(k)' = FromPlace(k)
  BY DEF Given, FromPlace
<1>2. \A k : StandsAt(k) => StandsAt(k)'
  BY <1>1 DEF StandsAt
<1>3. SdesTypeOK'
  BY DEF SdesInv, SdesTypeOK
<1> QED
  BY <1>1, <1>2, <1>3 DEF SdesInv, Distinct

\* Where the iterator is, no one else has its prefix.
LEMMA PlaceIs ==
    ASSUME SdesInv, NEW p
    PROVE  /\ \A i, j \in PlacesOf(p) : i = j
           /\ PlacesOf(p) # {} => /\ FirstOf(p) \in DOMAIN privitems
                                  /\ privitems[FirstOf(p)].prefix = p
<1>1. \A i, j \in PlacesOf(p) : i = j
  BY DEF SdesInv, Distinct, PlacesOf
<1>2. ASSUME PlacesOf(p) # {} PROVE FirstOf(p) \in PlacesOf(p)
  <2>1. PICK i : i \in PlacesOf(p)
    BY <1>2
  <2>2. i \in Nat
    BY <2>1 DEF PlacesOf, SdesInv
  <2>3. \A j \in PlacesOf(p) : i <= j
    BY <1>1, <2>1, <2>2
  <2> QED
    BY <2>1, <2>3 DEF FirstOf
<1> QED
  BY <1>1, <1>2 DEF PlacesOf

LEMMA SdesReplaced ==
    ASSUME SdesInv, NEW p \in PrivNames, NEW c \in Contents, PlacesOf(p) # {},
           SetPrivateValue(p, c)
    PROVE  SdesInv'
<1>1. /\ privitems' = [i \in DOMAIN privitems |->
                          IF i \in PlacesOf(p) THEN [prefix |-> p, value |-> c] ELSE privitems[i]]
      /\ UNCHANGED <<fields, curitem, visit>>
  BY DEF SetPrivateValue
<1>2. DOMAIN privitems' = DOMAIN privitems /\ Len(privitems') = Len(privitems) /\ privitems' \in Seq(Item)
  <2>1. privitems \in Seq(Item) /\ [prefix |-> p, value |-> c] \in Item
    BY DEF SdesInv, Item
  <2> QED
    BY <1>1, <2>1
<1>3. \A i \in DOMAIN privitems : privitems'[i].prefix = privitems[i].prefix
  BY <1>1 DEF PlacesOf
<1>4. Given' = Given /\ \A k : FromPlace(k)' = FromPlace(k)
  <2>1. Given' = Given
    BY <1>1 DEF Given
  <2>2. ASSUME NEW k PROVE FromPlace(k)' = FromPlace(k)
    BY <1>2, <1>3 DEF FromPlace
  <2> QED
    BY <2>1, <2>2
<1>5. Distinct(privitems')
  BY <1>2, <1>3 DEF SdesInv, Distinct
<1>6. \A k : StandsAt(k) => StandsAt(k)'
  BY <1>1, <1>2, <1>3, <1>4 DEF StandsAt
<1>7. SdesTypeOK'
  BY <1>1, <1>2 DEF SdesInv, SdesTypeOK, Item
<1> QED
  BY <1>1, <1>2, <1>4, <1>5, <1>6, <1>7 DEF SdesInv

\* A new item is in front of the iterator.
LEMMA SdesAdded ==
    ASSUME SdesInv, NEW p \in PrivNames, NEW c \in Contents, PlacesOf(p) = {},
           Len(privitems) < MaxPrivItems, SetPrivateValue(p, c)
    PROVE  SdesInv'
<1> DEFINE new == [prefix |-> p, value |-> c]
           n == Len(privitems)
<1>0. /\ privitems \in Seq(Item) /\ new \in Item /\ n \in Nat /\ DOMAIN privitems = 1 .. n
      /\ MaxPrivItems \in Nat
  BY SdesAssumption DEF SdesInv, Item
<1>1. privitems' = <<new>> \o privitems /\ UNCHANGED <<fields, curitem, visit>>
  BY <1>0 DEF SetPrivateValue
<1> HIDE DEF new, n
<1>2. /\ privitems' \in Seq(Item) /\ Len(privitems') = n + 1 /\ DOMAIN privitems' = 1 .. n + 1
      /\ privitems'[1] = new /\ \A i \in 1 .. n : privitems'[i + 1] = privitems[i]
  BY <1>0, <1>1 DEF n
<1>3. \A i \in 2 .. n + 1 : i - 1 \in 1 .. n /\ privitems'[i] = privitems[i - 1]
  <2> SUFFICES ASSUME NEW i \in 2 .. n + 1
               PROVE  i - 1 \in 1 .. n /\ privitems'[i] = privitems[i - 1]
    OBVIOUS
  <2>1. i - 1 \in 1 .. n /\ i - 1 + 1 = i
    BY <1>0
  <2> QED
    BY <1>2, <2>1
<1>4. new.prefix = p /\ \A i \in 1 .. n : privitems[i].prefix # p
  BY <1>0 DEF PlacesOf, new
<1>5. Distinct(privitems')
  <2> SUFFICES ASSUME NEW i \in 1 .. n + 1, NEW j \in 1 .. n + 1,
                      privitems'[i].prefix = privitems'[j].prefix
               PROVE  i = j
    BY <1>2 DEF Distinct
  <2>1. (i = 1 \/ i \in 2 .. n + 1) /\ (j = 1 \/ j \in 2 .. n + 1)
    BY <1>0
  <2>2. CASE i = 1 \/ j = 1
    BY <1>2, <1>3, <1>4, <2>1, <2>2
  <2>3. CASE i \in 2 .. n + 1 /\ j \in 2 .. n + 1
    <3>0. privitems[i - 1].prefix = privitems[j - 1].prefix /\ i - 1 \in 1 .. n /\ j - 1 \in 1 .. n
      BY <1>3, <2>3
    <3>1. i - 1 = j - 1
      BY <1>0, <3>0 DEF SdesInv, Distinct
    <3> QED
      BY <2>3, <3>1
  <2> QED
    BY <2>1, <2>2, <2>3
<1>6. Given' = Given
  BY <1>1 DEF Given
<1>7. ASSUME NEW k, StandsAt(k) PROVE StandsAt(k + 1)'
  <2>1. k \in 1 .. n /\ k + 1 \in 2 .. n + 1 /\ k + 1 \in 1 .. n + 1
    BY <1>0, <1>7 DEF StandsAt
  <2>2. FromPlace(k + 1)' = FromPlace(k)
    <3>1. \A i \in 1 .. n : k <= i => i + 1 \in 1 .. n + 1 /\ k + 1 <= i + 1
      BY <1>0, <2>1
    <3>2. \A i \in 1 .. n + 1 : k + 1 <= i => i \in 2 .. n + 1 /\ k <= i - 1
      BY <1>0, <2>1
    <3>3. ASSUME NEW x \in FromPlace(k) PROVE x \in FromPlace(k + 1)'
      BY <1>0, <1>2, <3>1, <3>3 DEF FromPlace
    <3>4. ASSUME NEW x \in FromPlace(k + 1)' PROVE x \in FromPlace(k)
      <4>1. PICK i \in 1 .. n + 1 : k + 1 <= i /\ privitems'[i].prefix = x /\ x \in PrivNames
        BY <1>2, <3>4 DEF FromPlace
      <4>2. i - 1 \in 1 .. n /\ k <= i - 1 /\ privitems[i - 1].prefix = x
        BY <1>3, <3>2, <4>1
      <4> QED
        BY <1>0, <4>1, <4>2 DEF FromPlace
    <3> QED
      BY <3>3, <3>4
  <2>3. privitems'[k + 1].prefix = curitem'
    BY <1>1, <1>2, <1>7, <2>1 DEF StandsAt
  <2> QED
    BY <1>1, <1>2, <1>6, <1>7, <2>1, <2>2, <2>3 DEF StandsAt
<1>8. SdesTypeOK'
  BY <1>1, <1>2 DEF SdesInv, SdesTypeOK, Item
<1>9. Len(privitems') <= MaxPrivItems
  BY <1>0, <1>2 DEF n
<1> QED
  BY <1>1, <1>2, <1>5, <1>6, <1>7, <1>8, <1>9 DEF SdesInv

LEMMA SdesDeleted ==
    ASSUME SdesInv, NEW p \in PrivNames, DeletePrivatePrefix(p)
    PROVE  SdesInv'
<1> DEFINE n == Len(privitems)
<1>0. /\ privitems \in Seq(Item) /\ n \in Nat /\ DOMAIN privitems = 1 .. n
      /\ visit \in [given : Seq(Item), owed : SUBSET PrivNames]
  BY DEF SdesInv
<1>1. /\ visit' = [visit EXCEPT !.owed = @ \ {p}] /\ fields' = fields
      /\ visit'.given = visit.given /\ visit'.owed = visit.owed \ {p}
      /\ visit' \in [given : Seq(Item), owed : SUBSET PrivNames]
      /\ Given' = Given
  <2>1. visit' = [visit EXCEPT !.owed = visit.owed \ {p}] /\ fields' = fields
    BY DEF DeletePrivatePrefix
  <2>2. visit'.given = visit.given /\ visit'.owed = visit.owed \ {p}
    BY <1>0, <2>1
  <2> QED
    BY <1>0, <2>1, <2>2 DEF Given
<1>2. CASE PlacesOf(p) = {}
  <2>1. UNCHANGED <<privitems, curitem>>
    BY <1>2 DEF DeletePrivatePrefix
  <2>2. \A k : FromPlace(k)' = FromPlace(k)
    BY <2>1 DEF FromPlace
  <2>3. \A k : StandsAt(k) => StandsAt(k)'
    BY <1>1, <2>1, <2>2 DEF StandsAt
  <2> QED
    BY <1>1, <2>1, <2>3 DEF SdesInv, SdesTypeOK, Distinct
<1>3. CASE PlacesOf(p) # {}
  <2>1. PICK d \in 1 .. n : d = FirstOf(p) /\ privitems[d].prefix = p
    BY <1>0, <1>3, PlaceIs
  <2>2. /\ privitems' = RemoveAt(privitems, d)
        /\ curitem' = IF p = curitem THEN Lost ELSE curitem
    BY <1>3, <2>1 DEF DeletePrivatePrefix
  <2> HIDE DEF n
  <2>3. /\ privitems' \in Seq(Item) /\ DOMAIN privitems' = 1 .. n - 1 /\ Len(privitems') = n - 1
        /\ \A j \in 1 .. n - 1 : privitems'[j] = IF j < d THEN privitems[j] ELSE privitems[j + 1]
    BY <1>0, <2>1, <2>2, WithoutOne DEF n
  <2>4. \A i, j \in 1 .. n : privitems[i].prefix = privitems[j].prefix => i = j
    BY <1>0 DEF SdesInv, Distinct
  <2>12. /\ \A i \in 1 .. n : privitems[i].prefix \in PrivNames
         /\ \A i \in 1 .. n - 1 : privitems'[i].prefix \in PrivNames
    BY <1>0, <2>3, ItemsAre
  <2>5. Distinct(privitems')
    <3> SUFFICES ASSUME NEW i \in 1 .. n - 1, NEW j \in 1 .. n - 1,
                        privitems'[i].prefix = privitems'[j].prefix
                 PROVE  i = j
      BY <2>3 DEF Distinct
    <3> DEFINE a == IF i < d THEN i ELSE i + 1
               b == IF j < d THEN j ELSE j + 1
    <3>1. a \in 1 .. n /\ b \in 1 .. n /\ privitems'[i] = privitems[a] /\ privitems'[j] = privitems[b]
      BY <1>0, <2>1, <2>3
    <3>2. a = b
      <4> HIDE DEF a, b
      <4> QED
        BY <2>4, <3>1
    <3> QED
      BY <1>0, <2>1, <3>2
  <2>6. ASSUME NEW k, StandsAt(k), p # curitem
        PROVE  \E m : StandsAt(m)'
    <3>1. k \in 1 .. n /\ privitems[k].prefix = curitem /\ k # d
      BY <1>0, <2>1, <2>6 DEF StandsAt
    <3>0. PICK m \in Int : m = IF k < d THEN k ELSE k - 1
      BY <1>0, <3>1
    <3>2. m \in 1 .. n - 1 /\ privitems'[m] = privitems[k]
      <4>1. CASE k < d
        BY <1>0, <2>1, <2>3, <3>0, <3>1, <4>1
      <4>2. CASE ~(k < d)
        <5>1. k - 1 \in 1 .. n - 1 /\ ~(k - 1 < d) /\ k - 1 + 1 = k
          BY <1>0, <2>1, <3>0, <3>1, <4>2
        <5> QED
          BY <2>3, <3>0, <4>2, <5>1
      <4> QED
        BY <4>1, <4>2
    <3>3. FromPlace(m)' = FromPlace(k) \ {p}
      <4>1. ASSUME NEW i \in 1 .. n - 1, m <= i
            PROVE  privitems'[i].prefix \in FromPlace(k) \ {p}
        <5> DEFINE a == IF i < d THEN i ELSE i + 1
        <5>1. a \in 1 .. n /\ k <= a /\ a # d /\ privitems'[i] = privitems[a]
          BY <1>0, <2>1, <2>3, <3>0, <3>1, <4>1
        <5> HIDE DEF a
        <5> QED
          BY <1>0, <2>1, <2>4, <2>12, <5>1 DEF FromPlace
      <4>2. ASSUME NEW a \in 1 .. n, k <= a, privitems[a].prefix # p
            PROVE  \E i \in 1 .. n - 1 : m <= i /\ privitems'[i].prefix = privitems[a].prefix
        <5>1. a # d
          BY <2>1, <4>2
        <5>2. CASE a < d
          <6>1. a \in 1 .. n - 1 /\ m <= a /\ privitems'[a] = privitems[a]
            BY <1>0, <2>1, <2>3, <3>0, <3>1, <4>2, <5>2
          <6> QED
            BY <6>1
        <5>3. CASE ~(a < d)
          <6>1. a - 1 \in 1 .. n - 1 /\ m <= a - 1 /\ ~(a - 1 < d) /\ a - 1 + 1 = a
            BY <1>0, <2>1, <3>0, <3>1, <4>2, <5>1, <5>3
          <6>2. privitems'[a - 1] = privitems[a]
            BY <2>3, <6>1
          <6> QED
            BY <6>1, <6>2
        <5> QED
          BY <5>2, <5>3
      <4>3. ASSUME NEW x \in FromPlace(m)' PROVE x \in FromPlace(k) \ {p}
        BY <2>3, <4>1, <4>3 DEF FromPlace
      <4>4. ASSUME NEW x \in FromPlace(k) \ {p} PROVE x \in FromPlace(m)'
        <5>1. PICK a \in 1 .. n : k <= a /\ privitems[a].prefix = x /\ x \in PrivNames /\ x # p
          BY <1>0, <4>4 DEF FromPlace
        <5> QED
          BY <2>3, <4>2, <5>1 DEF FromPlace
      <4> QED
        BY <4>3, <4>4
    <3>4. curitem' = curitem
      BY <2>2, <2>6
    <3>5. StandsAt(m)'
      <4>1. m \in (DOMAIN privitems)' /\ (privitems[m].prefix = curitem)'
        BY <2>3, <3>1, <3>2, <3>4
      <4>2. FromPlace(k) \cap Given = {} /\ visit.owed \subseteq Given \cup FromPlace(k)
        BY <2>6 DEF StandsAt
      <4> QED
        BY <1>1, <3>3, <4>1, <4>2 DEF StandsAt
    <3> QED
      BY <3>5
  <2>7. curitem' \in PrivNames => curitem' = curitem /\ p # curitem
    BY <2>2, SdesAssumption
  <2>8. curitem' = Bottom => visit'.owed \subseteq Given
    <3>1. CASE curitem' = curitem
      BY <1>1, <3>1 DEF SdesInv
    <3>2. CASE curitem' # curitem
      <4>1. curitem' = Lost /\ curitem \in PrivNames
        BY <2>2, <3>2
      <4> QED
        BY <4>1, SdesAssumption
    <3> QED
      BY <3>1, <3>2
  <2>9. curitem' \in PrivNames => \E c : StandsAt(c)'
    <3> SUFFICES ASSUME curitem' \in PrivNames PROVE \E c : StandsAt(c)'
      OBVIOUS
    <3>1. PICK k : StandsAt(k)
      BY <2>7 DEF SdesInv
    <3> QED
      BY <2>6, <2>7, <3>1
  <2>13. \A i \in DOMAIN privitems' : privitems'[i] \in [prefix : PrivNames, value : Contents]
    BY <2>3, ItemsAre
  <2>10. SdesTypeOK'
    BY <1>1, <2>2, <2>13 DEF SdesInv, SdesTypeOK
  <2>11. Len(privitems') <= MaxPrivItems /\ Distinct(visit.given)'
    BY <1>0, <1>1, <2>3, SdesAssumption DEF SdesInv, n
  <2> QED
    BY <1>1, <2>3, <2>5, <2>8, <2>9, <2>10, <2>11 DEF SdesInv
<1> QED
  BY <1>2, <1>3

LEMMA SdesIgnored ==
    ASSUME SdesInv, NEW p \in PrivNames, NEW c \in Contents, PlacesOf(p) = {},
           ~(Len(privitems) < MaxPrivItems), SetPrivateValue(p, c)
    PROVE  SdesInv'
<1>1. Len(privitems) \in Nat /\ MaxPrivItems \in Nat
  BY SdesAssumption DEF SdesInv
<1>2. UNCHANGED <<fields, privitems, curitem, visit>>
  BY <1>1 DEF SetPrivateValue
<1> QED
  BY <1>2, SdesQuiet DEF SdesInv, SdesTypeOK

LEMMA SdesBegins == ASSUME SdesInv, GotoFirstPrivateValue PROVE SdesInv'
<1>1. /\ curitem' = PrefixAt(1) /\ UNCHANGED <<fields, privitems>>
      /\ visit' = [given |-> <<>>, owed |-> {privitems[i].prefix : i \in DOMAIN privitems}]
  BY DEF GotoFirstPrivateValue
<1>2. privitems \in Seq(Item) /\ Len(privitems) \in Nat /\ DOMAIN privitems = 1 .. Len(privitems)
  BY DEF SdesInv
<1>3. \A i \in DOMAIN privitems : privitems[i].prefix \in PrivNames
  BY <1>2, ItemsAre
<1>4. /\ visit' \in [given : Seq(Item), owed : SUBSET PrivNames]
      /\ Distinct(visit'.given) /\ Given' = {} /\ visit'.owed = {privitems[i].prefix : i \in DOMAIN privitems}
  <2>1. /\ visit'.given = <<>> /\ visit'.owed = {privitems[i].prefix : i \in DOMAIN privitems}
        /\ <<>> \in Seq(Item) /\ {privitems[i].prefix : i \in DOMAIN privitems} \subseteq PrivNames
    BY <1>1, <1>3
  <2>2. visit' \in [given : Seq(Item), owed : SUBSET PrivNames]
    BY <1>1, <2>1
  <2> QED
    BY <2>1, <2>2 DEF Distinct, Given
<1>5. CASE privitems = <<>>
  <2>1. curitem' = Bottom /\ visit'.owed = {}
    BY <1>1, <1>4, <1>5 DEF PrefixAt
  <2> QED
    BY <1>1, <1>4, <2>1, SdesAssumption DEF SdesInv, SdesTypeOK, Distinct
<1>6. CASE privitems # <<>>
  <2>1. 1 \in DOMAIN privitems /\ curitem' = privitems[1].prefix /\ curitem' \in PrivNames
    BY <1>1, <1>2, <1>3, <1>6 DEF PrefixAt
  <2>2. ASSUME NEW x \in visit'.owed PROVE x \in FromPlace(1)'
    BY <1>1, <1>2, <1>3, <1>4, <2>2 DEF FromPlace
  <2>3. StandsAt(1)'
    BY <1>1, <1>4, <2>1, <2>2 DEF StandsAt
  <2> QED
    BY <1>1, <1>4, <2>1, <2>3, SdesAssumption DEF SdesInv, SdesTypeOK, Distinct
<1> QED
  BY <1>5, <1>6

LEMMA SdesGoesOn == ASSUME SdesInv, GetNextPrivateValue PROVE SdesInv'
<1> DEFINE n == Len(privitems)
<1>1. /\ privitems \in Seq(Item) /\ n \in Nat /\ DOMAIN privitems = 1 .. n
      /\ visit \in [given : Seq(Item), owed : SUBSET PrivNames] /\ Distinct(visit.given)
      /\ Distinct(privitems)
  BY DEF SdesInv
<1>2. curitem \in PrivNames /\ UNCHANGED <<fields, privitems>>
  BY DEF GetNextPrivateValue
<1>3. PICK k : k \in 1 .. n /\ StandsAt(k)
  BY <1>1, <1>2 DEF SdesInv, StandsAt
<1>4. /\ curitem' = PrefixAt(k + 1)
      /\ visit' = [visit EXCEPT !.given = Append(visit.given, privitems[k])]
  <2>1. PICK i \in PlacesOf(curitem) :
          /\ curitem' = PrefixAt(i + 1)
          /\ visit' = [visit EXCEPT !.given = Append(visit.given, privitems[i])]
    BY DEF GetNextPrivateValue
  <2>2. k \in PlacesOf(curitem)
    BY <1>1, <1>3 DEF StandsAt, PlacesOf
  <2>3. i = k
    BY <2>1, <2>2, PlaceIs
  <2> QED
    BY <2>1, <2>3
<1> HIDE DEF n
<1>5. \A i \in 1 .. n : privitems[i] \in Item /\ privitems[i].prefix \in PrivNames
  BY <1>1, ItemsAre
<1>6. /\ visit'.given = Append(visit.given, privitems[k]) /\ visit'.owed = visit.owed
      /\ visit' \in [given : Seq(Item), owed : SUBSET PrivNames]
  <2>1. visit'.given = Append(visit.given, privitems[k]) /\ visit'.owed = visit.owed
    BY <1>1, <1>4
  <2>2. Append(visit.given, privitems[k]) \in Seq(Item)
    BY <1>1, <1>3, <1>5
  <2> QED
    BY <1>1, <1>4, <2>2, <2>1
<1> DEFINE g == visit.given
           l == Len(g)
<1>7. /\ g \in Seq(Item) /\ l \in Nat /\ DOMAIN g = 1 .. l /\ DOMAIN visit'.given = 1 .. l + 1
      /\ \A i \in 1 .. l : visit'.given[i] = g[i]
      /\ visit'.given[l + 1] = privitems[k]
  <2>1. g \in Seq(Item) /\ l \in Nat /\ DOMAIN g = 1 .. l /\ visit'.given = Append(g, privitems[k])
    BY <1>1, <1>6
  <2> HIDE DEF g
  <2> QED
    BY <2>1
<1>8. privitems[k].prefix = curitem /\ curitem \in FromPlace(k) /\ curitem \notin Given
  BY <1>1, <1>2, <1>3 DEF StandsAt, FromPlace
<1> HIDE DEF l
<1>9. Given' = Given \cup {curitem}
  <2>1. ASSUME NEW x \in Given' PROVE x \in Given \cup {curitem}
    <3>1. PICK i \in 1 .. l + 1 : x = visit'.given[i].prefix
      BY <1>7, <2>1 DEF Given
    <3>2. i \in 1 .. l \/ i = l + 1
      BY <1>7
    <3> QED
      BY <1>7, <1>8, <3>1, <3>2 DEF Given
  <2>2. ASSUME NEW x \in Given PROVE x \in Given'
    <3>1. PICK i \in 1 .. l : x = g[i].prefix
      BY <1>7, <2>2 DEF Given
    <3>2. i \in 1 .. l + 1
      BY <1>7
    <3> QED
      BY <1>7, <3>1, <3>2 DEF Given
  <2>3. curitem \in Given'
    <3>1. l + 1 \in 1 .. l + 1
      BY <1>7
    <3> QED
      BY <1>7, <1>8, <3>1 DEF Given
  <2> QED
    BY <2>1, <2>2, <2>3
<1>10. Distinct(visit'.given)
  <2>0. \A i \in 1 .. l : g[i].prefix # curitem
    BY <1>7, <1>8 DEF Given
  <2> SUFFICES ASSUME NEW i \in 1 .. l + 1, NEW j \in 1 .. l + 1,
                      visit'.given[i].prefix = visit'.given[j].prefix
               PROVE  i = j
    BY <1>7 DEF Distinct
  <2>1. (i \in 1 .. l \/ i = l + 1) /\ (j \in 1 .. l \/ j = l + 1)
    BY <1>7
  <2>2. CASE i \in 1 .. l /\ j \in 1 .. l
    BY <1>1, <1>7, <2>2 DEF Distinct
  <2>3. CASE ~(i \in 1 .. l /\ j \in 1 .. l)
    BY <1>7, <1>8, <2>0, <2>1, <2>3
  <2> QED
    BY <2>2, <2>3
<1>11. \A x : FromPlace(x)' = FromPlace(x)
  BY <1>2 DEF FromPlace
<1>12. visit.owed \subseteq Given \cup FromPlace(k) /\ FromPlace(k) \cap Given = {}
  BY <1>3 DEF StandsAt
<1>13. FromPlace(k) = {curitem} \cup FromPlace(k + 1) /\ curitem \notin FromPlace(k + 1)
  <2>1. \A i \in 1 .. n : k <= i <=> i = k \/ k + 1 <= i
    BY <1>1, <1>3
  <2>2. \A i \in 1 .. n : privitems[i].prefix = curitem => i = k
    BY <1>1, <1>3, <1>8 DEF Distinct
  <2>3. \A i \in 1 .. n : k + 1 <= i => i # k
    BY <1>1, <1>3
  <2>4. curitem \notin FromPlace(k + 1)
    BY <1>1, <2>2, <2>3 DEF FromPlace
  <2>5. FromPlace(k) = {curitem} \cup FromPlace(k + 1)
    BY <1>1, <1>2, <1>3, <1>8, <2>1 DEF FromPlace
  <2> QED
    BY <2>4, <2>5
<1>14. CASE k + 1 \in 1 .. n
  <2>1. curitem' = privitems[k + 1].prefix /\ curitem' \in PrivNames
    BY <1>1, <1>4, <1>5, <1>14 DEF PrefixAt
  <2>2. FromPlace(k + 1) \cap Given' = {} /\ visit'.owed \subseteq Given' \cup FromPlace(k + 1)
    BY <1>6, <1>9, <1>12, <1>13
  <2>3. StandsAt(k + 1)'
    BY <1>1, <1>2, <1>11, <1>14, <2>1, <2>2 DEF StandsAt
  <2> QED
    BY <1>2, <1>6, <1>10, <2>1, <2>3, SdesAssumption DEF SdesInv, SdesTypeOK, Distinct
<1>15. CASE k + 1 \notin 1 .. n
  <2>1. curitem' = Bottom
    BY <1>1, <1>4, <1>15 DEF PrefixAt
  <2>2. FromPlace(k + 1) = {}
    <3>1. \A i \in 1 .. n : ~(k + 1 <= i)
      BY <1>1, <1>3, <1>15
    <3> QED
      BY <1>1, <3>1 DEF FromPlace
  <2>3. visit'.owed \subseteq Given'
    BY <1>6, <1>9, <1>12, <1>13, <2>2
  <2> QED
    BY <1>2, <1>6, <1>10, <2>1, <2>3, SdesAssumption DEF SdesInv, SdesTypeOK, Distinct
<1> QED
  BY <1>14, <1>15

LEMMA SdesCleared == ASSUME SdesInv, ClearSdes PROVE SdesInv'
<1>1. /\ privitems' = <<>> /\ curitem' = (IF curitem = Bottom THEN Bottom ELSE Lost)
      /\ fields' = fields /\ visit' = [given |-> <<>>, owed |-> {}]
  BY DEF ClearSdes, NoVisit
<1>2. Lost \notin PrivNames /\ Bottom \notin PrivNames /\ MaxPrivItems \in Nat
  BY SdesAssumption
<1>3. SdesTypeOK'
  BY <1>1 DEF SdesInv, SdesTypeOK
<1>4. /\ privitems' \in Seq(Item) /\ Distinct(privitems') /\ Len(privitems') <= MaxPrivItems
      /\ visit' \in [given : Seq(Item), owed : SUBSET PrivNames] /\ Distinct(visit'.given)
  BY <1>1, <1>2 DEF Distinct
<1> QED
  BY <1>1, <1>2, <1>3, <1>4 DEF SdesInv, Distinct

LEMMA SdesNextKeepsIt == SdesInv /\ [SdesNext]_sdesVars => SdesInv'
<1> SUFFICES ASSUME SdesInv, [SdesNext]_sdesVars PROVE SdesInv'
  OBVIOUS
<1>1. ASSUME NEW f \in Fields, NEW c \in Contents, SetNonPrivateItem(f, c) PROVE SdesInv'
  <2>1. UNCHANGED <<privitems, curitem, visit>> /\ fields' \in [Fields -> Contents \cup {Blank}]
    BY <1>1 DEF SetNonPrivateItem, SdesInv, SdesTypeOK
  <2> QED
    BY <2>1, SdesQuiet
<1>2. ASSUME NEW p \in PrivNames, NEW c \in Contents, SetPrivateValue(p, c) PROVE SdesInv'
  BY <1>2, SdesReplaced, SdesAdded, SdesIgnored
<1>3. ASSUME NEW p \in PrivNames, DeletePrivatePrefix(p) PROVE SdesInv'
  BY <1>3, SdesDeleted
<1>4. CASE UNCHANGED sdesVars
  BY <1>4, SdesQuiet DEF sdesVars, SdesInv, SdesTypeOK
<1> QED
  BY <1>1, <1>2, <1>3, <1>4, SdesBegins, SdesGoesOn, SdesCleared DEF SdesNext

LEMMA SdesSays == SdesInv => EachPrefixOnce
<1> SUFFICES ASSUME SdesInv PROVE EachPrefixOnce
  OBVIOUS
<1>1. \A p \in PrivNames : \A i, j \in PlacesOf(p) : i = j
  BY PlaceIs
<1> QED
  BY <1>1 DEF SdesInv, Distinct, Given, EachPrefixOnce

\* Whatever order a participant's items are set, deleted, cleared and iterated over
\* in (RTCPSDESInfo), no prefix is there twice, and an iteration gives each item that
\* was there when it began, and is still there, once: for any prefixes and any limit.
THEOREM SdesSafety == SdesSpec => []EachPrefixOnce
<1>1. SdesInv /\ [SdesNext]_sdesVars => SdesInv'
  BY SdesNextKeepsIt
<1> QED
  BY SdesStarts, SdesSays, <1>1, PTL DEF SdesSpec
-----------------------------------------------------------------------------
(* RTP packets.  First the byte orders: ntohs and ntohl take apart what      *)
(* htons and htonl made, wherever in a packet it stands.                     *)

LEMMA Short16 ==
    ASSUME NEW n \in Uint16
    PROVE  /\ htons(n) \in Seq(Octets) /\ Len(htons(n)) = 2
           /\ \A b : b[1] = htons(n)[1] /\ b[2] = htons(n)[2] => ntohs(b) = n
<1>1. (n \div 256) % 256 \in Octets /\ n % 256 \in Octets
  BY DEF Octets, Uint16
<1>2. 256 * ((n \div 256) % 256) + (n % 256) = n
  BY DEF Uint16
<1> QED
  BY <1>1, <1>2 DEF htons, ntohs

LEMMA Long32 ==
    ASSUME NEW n \in Uint32
    PROVE  /\ htonl(n) \in Seq(Octets) /\ Len(htonl(n)) = 4
           /\ \A b : (\A i \in 1 .. 4 : b[i] = htonl(n)[i]) => ntohl(b) = n
<1>1. n \in Nat /\ n \div 65536 < 65536
  BY DEF Uint32
<1>2. /\ (n \div 16777216) % 256 \in Octets /\ (n \div 65536) % 256 \in Octets
      /\ (n \div 256) % 256 \in Octets /\ n % 256 \in Octets
  BY <1>1 DEF Octets
<1>3. 16777216 * ((n \div 16777216) % 256) + 65536 * ((n \div 65536) % 256)
        + 256 * ((n \div 256) % 256) + (n % 256) = n
  BY <1>1
<1>4. htonl(n) \in Seq(Octets) /\ Len(htonl(n)) = 4
  BY <1>2 DEF htonl
<1>5. ASSUME NEW b, \A i \in 1 .. 4 : b[i] = htonl(n)[i] PROVE ntohl(b) = n
  <2>1. b[1] = htonl(n)[1] /\ b[2] = htonl(n)[2] /\ b[3] = htonl(n)[3] /\ b[4] = htonl(n)[4]
    BY <1>5
  <2> QED
    BY <1>3, <2>1 DEF htonl, ntohl
<1> QED
  BY <1>4, <1>5

\* The same with the lengths known: w is m bytes of s and n of t.
Joins(w, s, t, m, n) ==
    /\ w \in Seq(Octets) /\ Len(w) = m + n
    /\ \A i \in 1 .. m : w[i] = s[i]
    /\ \A i \in 1 .. n : w[m + i] = t[i]

LEMMA JoinedAs ==
    ASSUME NEW s \in Seq(Octets), NEW t \in Seq(Octets), NEW m, NEW n, Len(s) = m, Len(t) = n
    PROVE  Joins(s \o t, s, t, m, n)
<1>1. ASSUME NEW x \in Seq(Octets), NEW y \in Seq(Octets)
      PROVE  Joins(x \o y, x, y, Len(x), Len(y))
  BY Joined DEF Joins
<1> QED
  BY <1>1

\* The bytes behind the first from of a packet.
LEMMA BytesAre ==
    ASSUME NEW w \in Seq(Octets), NEW from \in Nat, NEW size \in Nat, from + size <= Len(w)
    PROVE  /\ Bytes(w, from, size) \in Seq(Octets)
           /\ Len(Bytes(w, from, size)) = size
           /\ \A i \in 1 .. size : Bytes(w, from, size)[i] = w[from + i]
<1>1. \A i \in from + 1 .. from + size : w[i] \in Octets
  BY LenProperties, ElementOfSeq
<1>2. /\ SubSeq(w, from + 1, from + size) \in Seq(Octets)
      /\ Len(SubSeq(w, from + 1, from + size)) = IF from + 1 <= from + size THEN size ELSE 0
      /\ \A i \in 1 .. size : SubSeq(w, from + 1, from + size)[i] = w[from + i]
  <2>1. (from + size) - (from + 1) + 1 = size /\ \A i \in 1 .. size : (from + 1) + i - 1 = from + i
    OBVIOUS
  <2> QED
    BY <1>1, <2>1, SubSeqProperties
<1> QED
  BY <1>2 DEF Bytes

LEMMA ShortAt ==
    ASSUME NEW w \in Seq(Octets), NEW from \in Nat, NEW n \in Uint16, from + 2 <= Len(w),
           w[from + 1] = htons(n)[1], w[from + 2] = htons(n)[2]
    PROVE  ntohs(Bytes(w, from, 2)) = n
<1>1. \A i \in 1 .. 2 : Bytes(w, from, 2)[i] = w[from + i]
  <2>1. 2 \in Nat
    OBVIOUS
  <2> QED
    BY <2>1, BytesAre, Zenon
<1>2. Bytes(w, from, 2)[1] = htons(n)[1] /\ Bytes(w, from, 2)[2] = htons(n)[2]
  BY <1>1
<1> QED
  BY <1>2, Short16

LEMMA LongAt ==
    ASSUME NEW w \in Seq(Octets), NEW from \in Nat, NEW n \in Uint32, from + 4 <= Len(w),
           \A i \in 1 .. 4 : w[from + i] = htonl(n)[i]
    PROVE  ntohl(Bytes(w, from, 4)) = n
<1>1. \A i \in 1 .. 4 : Bytes(w, from, 4)[i] = w[from + i]
  <2>1. 4 \in Nat
    OBVIOUS
  <2> QED
    BY <2>1, BytesAre, Zenon
<1>2. \A i \in 1 .. 4 : Bytes(w, from, 4)[i] = htonl(n)[i]
  BY <1>1
<1> QED
  BY <1>2, Long32, Zenon

\* What a packet can be asked to hold.
Asked ==
    [pt : Octets, mark : BOOLEAN, seq : Uint16, stamp : Uint32, ssrc : Uint32,
     csrcs : {c \in Seq(Uint32) : Len(c) <= 15}, ext : HeaderExtensions, payload : Seq(Octets)]

LEMMA HeaderIs ==
    ASSUME NEW p \in Asked
    PROVE  LET h == FixedHeader(p)
           IN  /\ h \in Seq(Octets) /\ Len(h) = 12
               /\ h[1] = 128 + (IF p.ext # NoExtension THEN 16 ELSE 0) + Len(p.csrcs)
               /\ h[2] = (IF p.mark THEN 128 ELSE 0) + (p.pt % 128)
               /\ \A i \in 1 .. 2 : h[2 + i] = htons(p.seq)[i]
               /\ \A i \in 1 .. 4 : h[4 + i] = htonl(p.stamp)[i] /\ h[8 + i] = htonl(p.ssrc)[i]
<1> DEFINE a == 128 + (IF p.ext # NoExtension THEN 16 ELSE 0) + Len(p.csrcs)
           b == (IF p.mark THEN 128 ELSE 0) + (p.pt % 128)
           two == htons(p.seq)
           four == htonl(p.stamp)
           last == htonl(p.ssrc)
           s == <<a, b>> \o two
           t == s \o four
           h == t \o last
<1>1. p.csrcs \in Seq(Uint32) /\ Len(p.csrcs) \in Nat /\ Len(p.csrcs) <= 15 /\ p.pt \in Octets
  BY LenProperties DEF Asked
<1>2. a \in Octets /\ b \in Octets
  <2> DEFINE f == IF p.ext # NoExtension THEN 16 ELSE 0
             g == IF p.mark THEN 128 ELSE 0
  <2>1. f \in {0, 16} /\ g \in {0, 128}
    OBVIOUS
  <2>2. p.pt % 128 \in Nat /\ p.pt % 128 < 128
    BY <1>1 DEF Octets
  <2>3. 128 + f + Len(p.csrcs) \in Octets
    <3> HIDE DEF f
    <3>1. \A k \in Nat : k <= 15 => 128 + 0 + k \in Octets /\ 128 + 16 + k \in Octets
      BY DEF Octets
    <3> QED
      BY <1>1, <2>1, <3>1
  <2>4. g + (p.pt % 128) \in Octets
    <3> HIDE DEF g
    <3>1. \A k \in Nat : k < 128 => 0 + k \in Octets /\ 128 + k \in Octets
      BY DEF Octets
    <3> QED
      BY <2>1, <2>2, <3>1
  <2> QED
    BY <2>3, <2>4
<1>3. /\ two \in Seq(Octets) /\ Len(two) = 2 /\ four \in Seq(Octets) /\ Len(four) = 4
      /\ last \in Seq(Octets) /\ Len(last) = 4
  BY Short16, Long32 DEF Asked
<1>4. FixedHeader(p) = h
  BY DEF FixedHeader
<1> HIDE DEF a, b, two, four, last
<1>5. /\ s \in Seq(Octets) /\ Len(s) = 4 /\ s[1] = a /\ s[2] = b
      /\ \A i \in 1 .. 2 : s[2 + i] = two[i]
  <2>1. <<a, b>> \in Seq(Octets) /\ Len(<<a, b>>) = 2 /\ <<a, b>>[1] = a /\ <<a, b>>[2] = b
    BY <1>2
  <2> DEFINE u == <<a, b>>
  <2> HIDE DEF u
  <2>2. Joins(u \o two, u, two, 2, 2)
    <3>1. u \in Seq(Octets) /\ Len(u) = 2
      BY <2>1 DEF u
    <3> QED
      BY <1>3, <3>1, JoinedAs
  <2>3. s = u \o two /\ u[1] = a /\ u[2] = b
    BY <2>1 DEF u
  <2> HIDE DEF s
  <2> QED
    BY <2>2, <2>3 DEF Joins
<1> HIDE DEF s
<1>6. /\ t \in Seq(Octets) /\ Len(t) = 8 /\ \A i \in 1 .. 4 : t[i] = s[i] /\ t[4 + i] = four[i]
  <2>1. Joins(t, s, four, 4, 4)
    BY <1>3, <1>5, JoinedAs
  <2> HIDE DEF t
  <2> QED
    BY <2>1 DEF Joins
<1> HIDE DEF t
<1>7. /\ h \in Seq(Octets) /\ Len(h) = 12 /\ \A i \in 1 .. 8 : h[i] = t[i]
      /\ \A i \in 1 .. 4 : h[8 + i] = last[i]
  <2>1. Joins(h, t, last, 8, 4)
    BY <1>3, <1>6, JoinedAs
  <2> HIDE DEF h
  <2> QED
    BY <2>1 DEF Joins
<1> HIDE DEF h
<1>8. h[1] = a /\ h[2] = b /\ \A i \in 1 .. 2 : h[2 + i] = two[i]
  BY <1>5, <1>6, <1>7
<1>9. \A i \in 1 .. 4 : h[4 + i] = four[i] /\ h[8 + i] = last[i]
  BY <1>6, <1>7
<1> QED
  BY <1>4, <1>7, <1>8, <1>9 DEF a, b, two, four, last

LEMMA CSRCBytesAre ==
    ASSUME NEW c \in Seq(Uint32)
    PROVE  /\ CSRCBytes(c) \in Seq(Octets) /\ Len(CSRCBytes(c)) = 4 * Len(c)
           /\ \A k \in 1 .. Len(c), i \in 1 .. 4 : CSRCBytes(c)[4 * (k - 1) + i] = htonl(c[k])[i]
<1>1. Len(c) \in Nat /\ \A k \in 1 .. Len(c) : c[k] \in Uint32
  BY LenProperties, ElementOfSeq
<1> DEFINE n == 4 * Len(c)
           At(i) == htonl(c[((i - 1) \div 4) + 1])[((i - 1) % 4) + 1]
<1>2. n \in Nat
  BY <1>1
<1>3. ASSUME NEW i \in 1 .. n PROVE At(i) \in Octets
  <2>1. ((i - 1) \div 4) + 1 \in 1 .. Len(c) /\ ((i - 1) % 4) + 1 \in 1 .. 4
    BY <1>1
  <2>2. htonl(c[((i - 1) \div 4) + 1]) \in Seq(Octets) /\ Len(htonl(c[((i - 1) \div 4) + 1])) = 4
    BY <1>1, <2>1, Long32
  <2> QED
    BY <2>1, <2>2, ElementOfSeq
<1>4. CSRCBytes(c) = [i \in 1 .. n |-> At(i)]
  BY DEF CSRCBytes
<1> HIDE DEF At
<1>5. CSRCBytes(c) \in Seq(Octets) /\ Len(CSRCBytes(c)) = n
  BY <1>2, <1>3, <1>4, IsASeq
<1>6. ASSUME NEW k \in 1 .. Len(c), NEW i \in 1 .. 4
      PROVE  CSRCBytes(c)[4 * (k - 1) + i] = htonl(c[k])[i]
  <2>1. /\ 4 * (k - 1) + i \in 1 .. n
        /\ ((4 * (k - 1) + i - 1) \div 4) + 1 = k /\ ((4 * (k - 1) + i - 1) % 4) + 1 = i
    BY <1>1
  <2>2. CSRCBytes(c)[4 * (k - 1) + i] = At(4 * (k - 1) + i)
    BY <1>4, <2>1
  <2> QED
    BY <2>1, <2>2 DEF At
<1> QED
  BY <1>5, <1>6

LEMMA ExtensionIs ==
    ASSUME NEW e \in HeaderExtensions
    PROVE  /\ ExtensionBytes(e) \in Seq(Octets)
           /\ e = NoExtension => Len(ExtensionBytes(e)) = 0
           /\ e # NoExtension =>
                /\ e \in [id : Uint16, data : Seq(Octets)]
                /\ Len(e.data) \div 4 \in Uint16 /\ 4 * (Len(e.data) \div 4) = Len(e.data)
                /\ Len(ExtensionBytes(e)) = 4 + Len(e.data)
                /\ \A i \in 1 .. 2 : /\ ExtensionBytes(e)[i] = htons(e.id)[i]
                                     /\ ExtensionBytes(e)[2 + i] = htons(Len(e.data) \div 4)[i]
                /\ \A i \in 1 .. Len(e.data) : ExtensionBytes(e)[4 + i] = e.data[i]
<1>1. CASE e = NoExtension
  BY <1>1, EmptySeq DEF ExtensionBytes
<1>2. CASE e # NoExtension
  <2>1. /\ e \in [id : Uint16, data : Seq(Octets)]
        /\ Len(e.data) % 4 = 0 /\ Len(e.data) \div 4 < 65536
    <3> DEFINE Whole(x) == Len(x.data) % 4 = 0 /\ Len(x.data) \div 4 < 65536
               all == [id : Uint16, data : Seq(Octets)]
    <3>1. HeaderExtensions = {NoExtension} \cup {x \in all : Whole(x)}
      BY DEF HeaderExtensions
    <3> HIDE DEF Whole, all
    <3>2. e \in all /\ Whole(e)
      BY <1>2, <3>1
    <3> QED
      BY <3>2 DEF Whole, all
  <2>2. e.id \in Uint16 /\ e.data \in Seq(Octets) /\ Len(e.data) \in Nat
    BY <2>1, LenProperties
  <2>3. Len(e.data) \div 4 \in Uint16 /\ 4 * (Len(e.data) \div 4) = Len(e.data)
    BY <2>1, <2>2 DEF Uint16
  <2> DEFINE a == htons(e.id)
             b == htons(Len(e.data) \div 4)
             s == a \o b
             t == s \o e.data
  <2>4. a \in Seq(Octets) /\ Len(a) = 2 /\ b \in Seq(Octets) /\ Len(b) = 2
    BY <2>2, <2>3, Short16
  <2>5. ExtensionBytes(e) = t
    BY <1>2 DEF ExtensionBytes
  <2> HIDE DEF a, b
  <2>6. s \in Seq(Octets) /\ Len(s) = 4 /\ \A i \in 1 .. 2 : s[i] = a[i] /\ s[2 + i] = b[i]
    <3>1. Joins(s, a, b, 2, 2)
      BY <2>4, JoinedAs
    <3> HIDE DEF s
    <3> QED
      BY <3>1 DEF Joins
  <2> HIDE DEF s
  <2>7. /\ t \in Seq(Octets) /\ Len(t) = 4 + Len(e.data) /\ \A i \in 1 .. 4 : t[i] = s[i]
        /\ \A i \in 1 .. Len(e.data) : t[4 + i] = e.data[i]
    <3>1. Joins(t, s, e.data, 4, Len(e.data))
      BY <2>2, <2>6, JoinedAs
    <3> HIDE DEF t
    <3> QED
      BY <3>1 DEF Joins
  <2> HIDE DEF t
  <2>8. \A i \in 1 .. 2 : t[i] = a[i] /\ t[2 + i] = b[i]
    BY <2>6, <2>7
  <2> QED
    BY <1>2, <2>1, <2>3, <2>5, <2>7, <2>8 DEF a, b
<1> QED
  BY <1>1, <1>2

\* Where the parts of a packet stand.
LEMMA LaidOut ==
    ASSUME NEW p \in Asked
    PROVE  LET w == RtpBytes(p)
               n == Len(p.csrcs)
               x == Len(ExtensionBytes(p.ext))
           IN  /\ w \in Seq(Octets) /\ n \in Nat /\ n <= 15 /\ x \in Nat /\ Len(p.payload) \in Nat
               /\ Len(w) = 12 + 4 * n + x + Len(p.payload)
               /\ \A i \in 1 .. 12 : w[i] = FixedHeader(p)[i]
               /\ \A i \in 1 .. 4 * n : w[12 + i] = CSRCBytes(p.csrcs)[i]
               /\ \A i \in 1 .. x : w[12 + 4 * n + i] = ExtensionBytes(p.ext)[i]
               /\ \A i \in 1 .. Len(p.payload) : w[12 + 4 * n + x + i] = p.payload[i]
<1> DEFINE h == FixedHeader(p)
           c == CSRCBytes(p.csrcs)
           e == ExtensionBytes(p.ext)
           s == h \o c
           t == s \o e
           w == t \o p.payload
           n == Len(p.csrcs)
<1>1. p.csrcs \in Seq(Uint32) /\ n \in Nat /\ n <= 15 /\ p.ext \in HeaderExtensions
  BY LenProperties DEF Asked
<1>2. p.payload \in Seq(Octets) /\ Len(p.payload) \in Nat
  BY LenProperties DEF Asked
<1>3. h \in Seq(Octets) /\ Len(h) = 12 /\ c \in Seq(Octets) /\ Len(c) = 4 * n
  BY <1>1, HeaderIs, CSRCBytesAre
<1>4. e \in Seq(Octets) /\ Len(e) \in Nat
  BY <1>1, ExtensionIs, LenProperties
<1>5. RtpBytes(p) = w
  BY DEF RtpBytes
<1> HIDE DEF h, c, e, n
<1>6. /\ s \in Seq(Octets) /\ Len(s) = 12 + 4 * n /\ \A i \in 1 .. 12 : s[i] = h[i]
      /\ \A i \in 1 .. 4 * n : s[12 + i] = c[i]
  <2>1. Joins(s, h, c, 12, 4 * n)
    BY <1>3, JoinedAs
  <2> HIDE DEF s
  <2> QED
    BY <2>1 DEF Joins
<1> HIDE DEF s
<1>7. /\ t \in Seq(Octets) /\ Len(t) = 12 + 4 * n + Len(e)
      /\ \A i \in 1 .. 12 + 4 * n : t[i] = s[i]
      /\ \A i \in 1 .. Len(e) : t[12 + 4 * n + i] = e[i]
  <2>1. Joins(t, s, e, 12 + 4 * n, Len(e))
    BY <1>4, <1>6, JoinedAs
  <2> HIDE DEF t
  <2> QED
    BY <2>1 DEF Joins
<1> HIDE DEF t
<1>8. /\ w \in Seq(Octets) /\ Len(w) = 12 + 4 * n + Len(e) + Len(p.payload)
      /\ \A i \in 1 .. 12 + 4 * n + Len(e) : w[i] = t[i]
      /\ \A i \in 1 .. Len(p.payload) : w[12 + 4 * n + Len(e) + i] = p.payload[i]
  <2>1. Joins(w, t, p.payload, 12 + 4 * n + Len(e), Len(p.payload))
    BY <1>2, <1>7, JoinedAs
  <2> HIDE DEF w
  <2> QED
    BY <2>1 DEF Joins
<1> HIDE DEF w
<1>9. /\ \A i \in 1 .. 12 : w[i] = h[i]
      /\ \A i \in 1 .. 4 * n : w[12 + i] = c[i]
      /\ \A i \in 1 .. Len(e) : w[12 + 4 * n + i] = e[i]
  <2> DEFINE x == Len(e)
  <2> HIDE DEF x
  <2>0. n \in Nat /\ x \in Nat
    BY <1>1, <1>4 DEF x
  <2>1. \A i \in 1 .. 12 : w[i] = h[i]
    <3>1. \A i \in 1 .. 12 : i \in 1 .. 12 + 4 * n /\ i \in 1 .. 12 + 4 * n + x
      BY <2>0
    <3> QED
      BY <1>6, <1>7, <1>8, <3>1, Zenon DEF x
  <2>2. ASSUME NEW i \in 1 .. 4 * n PROVE w[12 + i] = c[i]
    <3>1. 12 + i \in 1 .. 12 + 4 * n /\ 12 + i \in 1 .. 12 + 4 * n + x
      BY <2>0
    <3>2. w[12 + i] = t[12 + i]
      BY <1>8, <3>1, Zenon DEF x
    <3>3. t[12 + i] = s[12 + i]
      BY <1>7, <3>1, Zenon
    <3>4. s[12 + i] = c[i]
      BY <1>6, Zenon
    <3> QED
      BY <3>2, <3>3, <3>4
  <2>3. \A i \in 1 .. x : w[12 + 4 * n + i] = e[i]
    <3>1. \A i \in 1 .. x : 12 + 4 * n + i \in 1 .. 12 + 4 * n + x
      BY <2>0
    <3> QED
      BY <1>7, <1>8, <3>1, Zenon DEF x
  <2> QED
    BY <2>1, <2>2, <2>3, Zenon DEF x
<1> QED
  BY <1>1, <1>2, <1>4, <1>5, <1>8, <1>9 DEF h, c, e, n
-----------------------------------------------------------------------------
(* What the parser finds in the packet w that was laid out for p.           *)

HeaderReads(w, p) ==
    /\ Len(w) >= 12 /\ w[1] \div 64 = 2 /\ ~Padded(w)
    /\ Extended(w) <=> p.ext # NoExtension
    /\ CSRCCount(w) = Len(p.csrcs)
    /\ w[2] % 128 = p.pt % 128 /\ (w[2] >= 128 <=> p.mark)
    /\ ntohs(Bytes(w, 2, 2)) = p.seq
    /\ ntohl(Bytes(w, 4, 4)) = p.stamp /\ ntohl(Bytes(w, 8, 4)) = p.ssrc

LEMMA FirstBytes ==
    ASSUME NEW p \in Asked
    PROVE  HeaderReads(RtpBytes(p), p)
<1> DEFINE w == RtpBytes(p)
           n == Len(p.csrcs)
           f == IF p.ext # NoExtension THEN 16 ELSE 0
           g == IF p.mark THEN 128 ELSE 0
<1>1. /\ p.pt \in Octets /\ p.mark \in BOOLEAN /\ p.seq \in Uint16
      /\ p.stamp \in Uint32 /\ p.ssrc \in Uint32
  BY DEF Asked
<1>2. w \in Seq(Octets) /\ n \in Nat /\ n <= 15 /\ Len(w) >= 12
  <2>1. /\ w \in Seq(Octets) /\ n \in Nat /\ n <= 15 /\ Len(ExtensionBytes(p.ext)) \in Nat
        /\ Len(p.payload) \in Nat /\ Len(w) = 12 + 4 * n + Len(ExtensionBytes(p.ext)) + Len(p.payload)
    BY LaidOut, Zenon
  <2> HIDE DEF w, n
  <2>2. \A k, x, l \in Nat : 12 + 4 * k + x + l >= 12
    OBVIOUS
  <2> QED
    BY <2>1, <2>2
<1>3. \A i \in 1 .. 12 : w[i] = FixedHeader(p)[i]
  BY LaidOut, Zenon
<1>4. w[1] = 128 + f + n /\ w[2] = g + (p.pt % 128)
  <2>1. FixedHeader(p)[1] = 128 + f + n /\ FixedHeader(p)[2] = g + (p.pt % 128)
    BY HeaderIs, Zenon
  <2>2. w[1] = FixedHeader(p)[1] /\ w[2] = FixedHeader(p)[2]
    <3> HIDE DEF w
    <3> QED
      BY <1>3
  <2> QED
    BY <2>1, <2>2
<1>5. /\ \A i \in 1 .. 2 : w[2 + i] = htons(p.seq)[i]
      /\ \A i \in 1 .. 4 : w[4 + i] = htonl(p.stamp)[i] /\ w[8 + i] = htonl(p.ssrc)[i]
  <2>1. /\ \A i \in 1 .. 2 : FixedHeader(p)[2 + i] = htons(p.seq)[i]
        /\ \A i \in 1 .. 4 : /\ FixedHeader(p)[4 + i] = htonl(p.stamp)[i]
                             /\ FixedHeader(p)[8 + i] = htonl(p.ssrc)[i]
    BY HeaderIs, Zenon
  <2> HIDE DEF w
  <2> QED
    BY <1>3, <2>1
<1>6. f \in {0, 16} /\ (f = 16 <=> p.ext # NoExtension) /\ g \in {0, 128} /\ (g = 128 <=> p.mark)
  BY <1>1
<1>7. p.pt % 128 \in Nat /\ p.pt % 128 < 128
  BY <1>1 DEF Octets
<1> HIDE DEF w, n, f, g
<1>8. /\ (128 + f + n) \div 64 = 2 /\ ((128 + f + n) \div 32) % 2 # 1
      /\ ((128 + f + n) \div 16) % 2 = 1 <=> f = 16
      /\ (128 + f + n) % 16 = n
  <2>1. \A k \in Nat : k <= 15 =>
           /\ (128 + 0 + k) \div 64 = 2 /\ ((128 + 0 + k) \div 32) % 2 # 1
           /\ ((128 + 0 + k) \div 16) % 2 # 1 /\ (128 + 0 + k) % 16 = k
           /\ (128 + 16 + k) \div 64 = 2 /\ ((128 + 16 + k) \div 32) % 2 # 1
           /\ ((128 + 16 + k) \div 16) % 2 = 1 /\ (128 + 16 + k) % 16 = k
    OBVIOUS
  <2>2. CASE f = 0
    BY <1>2, <2>1, <2>2
  <2>3. CASE f = 16
    BY <1>2, <2>1, <2>3
  <2> QED
    BY <1>6, <2>2, <2>3
<1>9. (g + (p.pt % 128)) % 128 = p.pt % 128 /\ (g + (p.pt % 128) >= 128 <=> g = 128)
  <2>1. \A k \in Nat : k < 128 => /\ (0 + k) % 128 = k /\ ~(0 + k >= 128)
                                  /\ (128 + k) % 128 = k /\ 128 + k >= 128
    OBVIOUS
  <2> QED
    BY <1>6, <1>7, <2>1
<1>10. ntohs(Bytes(w, 2, 2)) = p.seq
  <2>1. w[2 + 1] = htons(p.seq)[1] /\ w[2 + 2] = htons(p.seq)[2] /\ 2 + 2 <= Len(w)
    BY <1>2, <1>5
  <2> QED
    BY <1>1, <1>2, <2>1, ShortAt
<1>11. ntohl(Bytes(w, 4, 4)) = p.stamp
  <2>1. 4 \in Nat /\ 4 + 4 <= Len(w) /\ \A i \in 1 .. 4 : w[4 + i] = htonl(p.stamp)[i]
    BY <1>2, <1>5
  <2> QED
    BY <1>1, <1>2, <2>1, LongAt, Zenon
<1>12. ntohl(Bytes(w, 8, 4)) = p.ssrc
  <2>1. 8 \in Nat /\ 8 + 4 <= Len(w) /\ \A i \in 1 .. 4 : w[8 + i] = htonl(p.ssrc)[i]
    BY <1>2, <1>5
  <2> QED
    BY <1>1, <1>2, <2>1, LongAt, Zenon
<1>13. ~Padded(w) /\ (Extended(w) <=> p.ext # NoExtension) /\ CSRCCount(w) = n
  BY <1>4, <1>6, <1>8 DEF Padded, Extended, CSRCCount
<1>14. w[2] % 128 = p.pt % 128 /\ (w[2] >= 128 <=> p.mark)
  BY <1>4, <1>6, <1>9
<1> QED
  BY <1>2, <1>4, <1>8, <1>10, <1>11, <1>12, <1>13, <1>14, Zenon DEF HeaderReads, w, n

LEMMA PartAt ==
    ASSUME NEW w \in Seq(Octets), NEW s \in Seq(Octets), NEW from \in Nat, from + Len(s) <= Len(w),
           \A i \in 1 .. Len(s) : w[from + i] = s[i]
    PROVE  Bytes(w, from, Len(s)) = s
<1> DEFINE t == Bytes(w, from, Len(s))
<1>1. Len(s) \in Nat
  BY LenProperties
<1>2. t \in Seq(Octets) /\ Len(t) = Len(s) /\ \A i \in 1 .. Len(s) : t[i] = w[from + i]
  BY <1>1, BytesAre
<1> HIDE DEF t
<1>3. \A i \in 1 .. Len(s) : t[i] = s[i]
  BY <1>2
<1>4. t = s
  BY <1>2, <1>3, SeqEqual
<1> QED
  BY <1>4 DEF t

LEMMA ExtensionFound ==
    ASSUME NEW p \in Asked
    PROVE  LET w == RtpBytes(p)
           IN  /\ ExtensionEnd(w) = CSRCsEnd(w) + Len(ExtensionBytes(p.ext))
               /\ ReadExtension(w) = p.ext
<1> DEFINE w == RtpBytes(p)
           from == CSRCsEnd(w)
           e == ExtensionBytes(p.ext)
           n == Len(p.csrcs)
           x == Len(e)
           size == Len(w)
           rest == Len(p.payload)
           d == p.ext.data
           l == Len(d)
           q == l \div 4
<1>1. (Extended(w) <=> p.ext # NoExtension) /\ CSRCCount(w) = n
  BY FirstBytes, Zenon DEF HeaderReads
<1>2. /\ w \in Seq(Octets) /\ n \in Nat /\ x \in Nat /\ rest \in Nat /\ size = 12 + 4 * n + x + rest
      /\ \A i \in 1 .. x : w[12 + 4 * n + i] = e[i]
  BY LaidOut, Zenon
<1>3. p.ext \in HeaderExtensions
  BY DEF Asked
<1>4. /\ e \in Seq(Octets) /\ (p.ext = NoExtension => x = 0)
      /\ p.ext # NoExtension =>
           /\ p.ext \in [id : Uint16, data : Seq(Octets)]
           /\ q \in Uint16 /\ 4 * q = l /\ x = 4 + l
           /\ \A i \in 1 .. 2 : e[i] = htons(p.ext.id)[i] /\ e[2 + i] = htons(q)[i]
           /\ \A i \in 1 .. l : e[4 + i] = d[i]
  BY <1>3, ExtensionIs, Zenon
<1> HIDE DEF w, e, n, x, size, rest
<1>5. from = 12 + 4 * n /\ from \in Nat
  BY <1>1, <1>2 DEF CSRCsEnd, HeaderSize
<1>6. CASE p.ext = NoExtension
  <2>1. ExtensionEnd(w) = from
    BY <1>1, <1>6 DEF ExtensionEnd
  <2>2. from + x = from
    <3> HIDE DEF from
    <3> QED
      BY <1>4, <1>5, <1>6
  <2>3. ReadExtension(w) = p.ext
    BY <1>1, <1>6 DEF ReadExtension
  <2> QED
    BY <2>1, <2>2, <2>3 DEF w, x, e
<1>7. CASE p.ext # NoExtension
  <2>1. p.ext.id \in Uint16 /\ d \in Seq(Octets) /\ l \in Nat
    BY <1>4, <1>7, LenProperties
  <2> HIDE DEF l, q, d, from
  <2>2. q \in Uint16 /\ q \in Nat /\ 4 * q = l /\ x = 4 + l /\ from + 4 + l <= size
    <3>1. q \in Uint16 /\ 4 * q = l /\ x = 4 + l
      BY <1>4, <1>7
    <3>2. q \in Nat
      BY <3>1 DEF Uint16
    <3> QED
      BY <1>2, <1>5, <2>1, <3>1, <3>2
  <2>3. /\ \A i \in 1 .. 2 : e[i] = htons(p.ext.id)[i] /\ e[2 + i] = htons(q)[i]
        /\ \A i \in 1 .. l : e[4 + i] = d[i]
    BY <1>4, <1>7
  <2>4. ASSUME NEW i \in 1 .. 4 + l PROVE w[from + i] = e[i]
    <3>1. i \in 1 .. x
      BY <2>1, <2>2
    <3> QED
      BY <1>2, <1>5, <3>1
  <2>5. ntohs(Bytes(w, from, 2)) = p.ext.id
    <3>1. 1 \in 1 .. 4 + l /\ 2 \in 1 .. 4 + l /\ from + 2 <= size
      BY <1>2, <1>5, <2>1, <2>2
    <3>2. w[from + 1] = htons(p.ext.id)[1] /\ w[from + 2] = htons(p.ext.id)[2]
      BY <2>3, <2>4, <3>1
    <3> QED
      BY <1>2, <1>5, <2>1, <3>1, <3>2, ShortAt DEF size
  <2>6. ntohs(Bytes(w, from + 2, 2)) = q
    <3>1. /\ (from + 2) + 1 = from + 3 /\ (from + 2) + 2 = from + 4
          /\ 3 \in 1 .. 4 + l /\ 4 \in 1 .. 4 + l
          /\ from + 2 \in Nat /\ (from + 2) + 2 <= size
      BY <1>2, <1>5, <2>1, <2>2
    <3>2. e[3] = htons(q)[1] /\ e[4] = htons(q)[2]
      BY <2>3
    <3>3. w[(from + 2) + 1] = htons(q)[1] /\ w[(from + 2) + 2] = htons(q)[2]
      BY <2>4, <3>1, <3>2
    <3> QED
      BY <1>2, <2>2, <3>1, <3>3, ShortAt DEF size
  <2>7. Bytes(w, from + 4, l) = d
    <3>1. from + 4 \in Nat /\ (from + 4) + l <= size
      BY <1>5, <2>1, <2>2
    <3>2. ASSUME NEW i \in 1 .. l PROVE w[(from + 4) + i] = d[i]
      <4>1. (from + 4) + i = from + (4 + i) /\ 4 + i \in 1 .. 4 + l
        BY <1>5, <2>1
      <4> QED
        BY <2>3, <2>4, <4>1
    <3> QED
      BY <1>2, <2>1, <3>1, <3>2, PartAt DEF size, l
  <2>8. ExtensionEnd(w) = (from + 4) + 4 * q
    <3>1. ~(from + 4 > size) /\ (from + 4) - 2 = from + 2
      BY <1>2, <1>5, <2>1, <2>2
    <3>2. CSRCsEnd(w) + ExtensionHeader = from + 4
      BY DEF from, ExtensionHeader
    <3> QED
      BY <1>1, <1>7, <2>6, <3>1, <3>2 DEF ExtensionEnd, size
  <2>9. (from + 4) + 4 * q = from + x /\ ((from + 4) + 4 * q) - from - 4 = l
    <3>1. from \in Nat /\ q \in Nat /\ 4 * q = l /\ x = 4 + l
      BY <1>5, <2>2
    <3> QED
      BY <2>1, <3>1
  <2>10. ReadExtension(w) = p.ext
    <3>1. ExtensionEnd(w) - CSRCsEnd(w) - ExtensionHeader = l
      BY <2>8, <2>9, Zenon DEF ExtensionHeader, from
    <3>2. ReadExtension(w) = [id |-> p.ext.id, data |-> d]
      BY <1>1, <1>7, <2>5, <2>7, <3>1 DEF ReadExtension, from, ExtensionHeader
    <3>3. p.ext = [id |-> p.ext.id, data |-> d]
      BY <1>4, <1>7 DEF d
    <3> QED
      BY <3>2, <3>3
  <2> QED
    BY <2>8, <2>9, <2>10 DEF w, from, e, x
<1> QED
  BY <1>6, <1>7

LEMMA CSRCsFound ==
    ASSUME NEW p \in Asked
    PROVE  [i \in 1 .. CSRCCount(RtpBytes(p)) |-> GetCSRC(RtpBytes(p), i)] = p.csrcs
<1> DEFINE w == RtpBytes(p)
           c == p.csrcs
           n == Len(p.csrcs)
           b == CSRCBytes(p.csrcs)
           size == Len(w)
           x == Len(ExtensionBytes(p.ext))
           rest == Len(p.payload)
<1>1. CSRCCount(w) = n
  BY FirstBytes, Zenon DEF HeaderReads
<1>2. /\ w \in Seq(Octets) /\ n \in Nat /\ x \in Nat /\ rest \in Nat
      /\ size = 12 + 4 * n + x + rest
      /\ \A i \in 1 .. 4 * n : w[12 + i] = b[i]
  BY LaidOut, Zenon
<1>3. c \in Seq(Uint32)
  BY DEF Asked
<1>4. \A k \in 1 .. n, i \in 1 .. 4 : b[4 * (k - 1) + i] = htonl(c[k])[i]
  BY <1>3, CSRCBytesAre
<1>5. c = [i \in 1 .. n |-> c[i]] /\ \A i \in 1 .. n : c[i] \in Uint32
  BY <1>3, LenProperties, ElementOfSeq
<1> HIDE DEF w, b, n, c, size, x, rest
<1>6. ASSUME NEW k \in 1 .. n PROVE GetCSRC(w, k) = c[k]
  <2> DEFINE from == 12 + 4 * (k - 1)
  <2>1. from \in Nat /\ from + 4 <= size
    BY <1>2
  <2>2. ASSUME NEW i \in 1 .. 4 PROVE w[from + i] = htonl(c[k])[i]
    <3>1. from + i = 12 + (4 * (k - 1) + i) /\ 4 * (k - 1) + i \in 1 .. 4 * n
      BY <1>2
    <3> QED
      BY <1>2, <1>4, <3>1
  <2>3. GetCSRC(w, k) = ntohl(Bytes(w, from, 4))
    BY DEF GetCSRC, HeaderSize
  <2> HIDE DEF from
  <2> QED
    BY <1>2, <1>5, <2>1, <2>2, <2>3, LongAt DEF size
<1>7. [i \in 1 .. CSRCCount(w) |-> GetCSRC(w, i)] = c
  BY <1>1, <1>5, <1>6
<1> QED
  BY <1>7 DEF w, c

LEMMA RoundTrip ==
    ASSUME NEW p \in Asked
    PROVE  LET w == RtpBytes(p)
               sent == [p EXCEPT !.pt = @ % 128]
           IN  /\ Accepted(w) <=> ~(sent.mark /\ LooksLikeRTCP(sent.pt))
               /\ ParseRawPacket(w) = sent
<1> DEFINE w == RtpBytes(p)
           sent == [p EXCEPT !.pt = @ % 128]
           x == Len(ExtensionBytes(p.ext))
           rest == Len(p.payload)
           size == Len(w)
<1>0. HeaderReads(w, p)
  BY FirstBytes
<1>2. /\ w \in Seq(Octets) /\ Len(p.csrcs) \in Nat /\ x \in Nat /\ rest \in Nat
      /\ size = 12 + 4 * Len(p.csrcs) + x + rest
      /\ \A i \in 1 .. rest : w[12 + 4 * Len(p.csrcs) + x + i] = p.payload[i]
  BY LaidOut, Zenon
<1>3. ExtensionEnd(w) = CSRCsEnd(w) + x /\ ReadExtension(w) = p.ext
  BY ExtensionFound, Zenon
<1>4. [i \in 1 .. CSRCCount(w) |-> GetCSRC(w, i)] = p.csrcs
  BY CSRCsFound
<1>5. p \in Asked /\ p.payload \in Seq(Octets) /\ p.mark \in BOOLEAN
  BY DEF Asked
<1> HIDE DEF w, x, rest, size
<1>1. /\ size >= 12 /\ w[1] \div 64 = 2 /\ ~Padded(w)
      /\ CSRCCount(w) = Len(p.csrcs)
      /\ w[2] % 128 = p.pt % 128 /\ (w[2] >= 128 <=> p.mark)
      /\ ntohs(Bytes(w, 2, 2)) = p.seq
      /\ ntohl(Bytes(w, 4, 4)) = p.stamp /\ ntohl(Bytes(w, 8, 4)) = p.ssrc
  BY <1>0 DEF HeaderReads, size
<1>6. /\ ExtensionEnd(w) = 12 + 4 * Len(p.csrcs) + x /\ Padding(w) = 0
      /\ PayloadLength(w) = rest
  BY <1>1, <1>2, <1>3 DEF CSRCsEnd, HeaderSize, Padding, PayloadLength, size
<1>7. Bytes(w, ExtensionEnd(w), PayloadLength(w)) = p.payload
  <2> DEFINE from == 12 + 4 * Len(p.csrcs) + x
  <2>1. from \in Nat /\ from + rest <= size
    BY <1>2
  <2>2. \A i \in 1 .. rest : w[from + i] = p.payload[i]
    BY <1>2, Zenon
  <2>3. ExtensionEnd(w) = from
    BY <1>6, Zenon
  <2> HIDE DEF from
  <2>4. Bytes(w, from, Len(p.payload)) = p.payload
    BY <1>2, <1>5, <2>1, <2>2, PartAt, Zenon DEF rest, size
  <2> QED
    BY <1>6, <2>3, <2>4, Zenon DEF rest
<1>8. sent.mark = p.mark /\ sent.pt = p.pt % 128
  BY DEF Asked
<1>9. Accepted(w) <=> ~(sent.mark /\ LooksLikeRTCP(sent.pt))
  <2> HIDE DEF sent
  <2>1. PayloadLength(w) >= 0
    BY <1>2, <1>6
  <2> QED
    BY <1>1, <1>8, <2>1 DEF Accepted, HeaderSize, size
<1>10. ParseRawPacket(w) = sent
  <2>1. ParseRawPacket(w) = [pt |-> p.pt % 128, mark |-> p.mark, seq |-> p.seq, stamp |-> p.stamp,
                             ssrc |-> p.ssrc, csrcs |-> p.csrcs, ext |-> p.ext, payload |-> p.payload]
    <3>1. (w[2] >= 128) = p.mark
      BY <1>1, <1>5
    <3> QED
      BY <1>1, <1>3, <1>4, <1>7, <3>1, Zenon DEF ParseRawPacket
  <2>2. p = [pt |-> p.pt, mark |-> p.mark, seq |-> p.seq, stamp |-> p.stamp,
             ssrc |-> p.ssrc, csrcs |-> p.csrcs, ext |-> p.ext, payload |-> p.payload]
    BY DEF Asked
  <2> QED
    BY <2>1, <2>2
<1> QED
  BY <1>9, <1>10 DEF w
-----------------------------------------------------------------------------
(* What is accepted is inside the packet, whatever came in.                 *)

LEMMA Inside ==
    ASSUME wire \in Seq(Octets), Accepted(wire)
    PROVE  StaysInside
<1> DEFINE w == wire
           size == Len(wire)
           from == CSRCsEnd(wire)
           end == ExtensionEnd(wire)
           pad == Padding(wire)
           l == PayloadLength(wire)
           data == Bytes(wire, from + ExtensionHeader, end - from - ExtensionHeader)
           payload == Bytes(wire, end, l)
<1>1. size \in Nat /\ size >= 12 /\ \A i \in 1 .. size : w[i] \in Octets
  <2>1. size \in Nat /\ \A i \in 1 .. size : w[i] \in Octets
    BY LenProperties, ElementOfSeq
  <2> QED
    BY <2>1 DEF Accepted, HeaderSize
<1>2. from \in Nat
  <2>1. 1 \in 1 .. size
    BY <1>1
  <2>2. w[1] \in Octets
    BY <1>1, <2>1
  <2>3. w[1] % 16 \in Nat
    BY <2>2 DEF Octets
  <2> QED
    BY <2>3 DEF CSRCsEnd, CSRCCount, HeaderSize
<1>3. pad \in Nat
  <2>1. size \in 1 .. size
    BY <1>1
  <2>2. w[size] \in Octets
    BY <1>1, <2>1
  <2> QED
    BY <2>2 DEF Padding, Octets
<1>4. l = size - pad - end /\ l >= 0
  BY DEF Accepted, PayloadLength
<1>5. CASE ~Extended(wire)
  <2>1. end = from
    BY <1>5 DEF ExtensionEnd
  <2> HIDE DEF size, from, end, pad, l
  <2>2. end \in Nat /\ l \in Nat /\ end + l <= size
    BY <1>1, <1>2, <1>3, <1>4, <2>1
  <2>3. Len(payload) = l
    BY <2>2, BytesAre DEF size
  <2>4. end + l + pad = size
    BY <1>1, <1>2, <1>3, <1>4, <2>1
  <2>5. StaysInside <=> (from + 0) + Len(payload) + pad = size
    BY <1>5 DEF StaysInside, ParseRawPacket, from, end, l, pad, size
  <2>6. from + 0 = end
    BY <1>2, <2>1
  <2> QED
    BY <2>3, <2>4, <2>5, <2>6
<1>6. CASE Extended(wire)
  <2> DEFINE k == 4 * ntohs(Bytes(wire, (from + 4) - 2, 2))
  <2>1. ~(from + 4 > size)
    <3>1. from + 4 > size => end = from + 4
      BY <1>6 DEF ExtensionEnd, ExtensionHeader
    <3> HIDE DEF size, from, end, pad, l
    <3> QED
      BY <1>1, <1>2, <1>3, <1>4, <3>1
  <2>2. end = (from + 4) + k
    BY <1>6, <2>1 DEF ExtensionEnd, ExtensionHeader
  <2> HIDE DEF size, from, end, pad, l
  <2>3. k \in Nat
    <3> DEFINE f == (from + 4) - 2
               b == Bytes(wire, f, 2)
    <3>1. f \in Nat /\ f + 2 <= size
      BY <1>1, <1>2, <2>1
    <3> HIDE DEF f
    <3>2. \A i \in 1 .. 2 : b[i] = wire[f + i]
      <4>1. 2 \in Nat /\ f \in Nat /\ f + 2 <= Len(wire)
        BY <3>1 DEF size
      <4> QED
        BY <4>1, BytesAre, Zenon
    <3> HIDE DEF b
    <3>3. b[1] \in Octets /\ b[2] \in Octets
      <4>1. f + 1 \in 1 .. size /\ f + 2 \in 1 .. size
        BY <1>1, <3>1
      <4>2. b[1] = wire[f + 1] /\ b[2] = wire[f + 2]
        BY <3>2
      <4> QED
        BY <1>1, <4>1, <4>2
    <3>4. b[1] \in Nat /\ b[2] \in Nat
      BY <3>3 DEF Octets
    <3> QED
      BY <3>4 DEF ntohs, b, f
  <2> HIDE DEF k
  <2>4. /\ end \in Nat /\ l \in Nat /\ end + l <= size /\ end + l + pad = size
        /\ from + 4 \in Nat /\ end - from - 4 = k /\ (from + 4) + k <= size
        /\ from + (4 + k) = end
    BY <1>1, <1>2, <1>3, <1>4, <2>2, <2>3
  <2>5. Len(payload) = l
    BY <2>4, BytesAre DEF size
  <2>6. Len(data) = k
    <3>1. data = Bytes(wire, from + 4, k)
      BY <2>4 DEF ExtensionHeader
    <3> HIDE DEF data
    <3> QED
      BY <2>3, <2>4, <3>1, BytesAre DEF size
  <2>7. StaysInside <=> (from + (4 + Len(data))) + Len(payload) + pad = size
    BY <1>6 DEF StaysInside, ParseRawPacket, ReadExtension, ExtensionHeader, from, end, l, pad, size
  <2> HIDE DEF data, payload
  <2> QED
    BY <2>4, <2>5, <2>6, <2>7
<1> QED
  BY <1>5, <1>6
-----------------------------------------------------------------------------
(* The payload bytes of a list of packets: one more packet adds its own.    *)

\* f is the fold of PayloadBytes over the first n packets of q, and g[k] its
\* value for the first k.
IsSum(f, q, n) ==
    f = [s \in SUBSET (1 .. n) |-> IF s = {} THEN 0 ELSE f[s \ {Max(s)}] + q[Max(s)].bytes]

Sums(g, q, n) == g[0] = 0 /\ \A k \in Nat : k < n => g[k + 1] = g[k] + q[k + 1].bytes

LEMMA SumExists ==
    ASSUME NEW q, NEW n \in Nat
    PROVE  \E f : IsSum(f, q, n)
<1> DEFINE Lap(f, s) == IF s = {} THEN 0 ELSE f[s \ {Max(s)}] + q[Max(s)].bytes
           S == {k \in Nat : \E f : IsSum(f, q, k)}
<1>1. 0 \in S
  <2> DEFINE f0 == [s \in SUBSET (1 .. 0) |-> 0]
  <2>1. 1 .. 0 = {}
    OBVIOUS
  <2>2. f0 = [s \in SUBSET (1 .. 0) |-> Lap(f0, s)]
    BY <2>1
  <2>3. IsSum(f0, q, 0)
    BY <2>2 DEF IsSum
  <2> QED
    BY <2>3
<1>2. ASSUME NEW k \in Nat, k \in S PROVE k + 1 \in S
  <2>0. PICK f : IsSum(f, q, k)
    BY <1>2
  <2>1. f = [s \in SUBSET (1 .. k) |-> Lap(f, s)]
    BY <2>0 DEF IsSum
  <2> DEFINE g == [s \in SUBSET (1 .. k + 1) |-> Lap(f, s)]
  <2>2. ASSUME NEW t \in SUBSET (1 .. k) PROVE g[t] = f[t]
    <3>1. t \in SUBSET (1 .. k + 1)
      OBVIOUS
    <3>2. g[t] = Lap(f, t)
      BY <3>1
    <3>3. f[t] = Lap(f, t)
      <4> HIDE DEF Lap
      <4> QED
        BY <2>1
    <3> QED
      BY <3>2, <3>3
  <2>3. ASSUME NEW s \in SUBSET (1 .. k + 1) PROVE Lap(f, s) = Lap(g, s)
    <3>1. CASE s = {}
      BY <3>1
    <3>2. CASE s # {}
      <4>1. k + 1 \in Nat
        OBVIOUS
      <4>2. s \ {Max(s)} \in SUBSET (1 .. k)
        BY <3>2, <4>1, Greatest
      <4>3. g[s \ {Max(s)}] = f[s \ {Max(s)}]
        <5> HIDE DEF g
        <5> QED
          BY <2>2, <4>2
      <4> HIDE DEF g
      <4> QED
        BY <4>3
    <3> QED
      BY <3>1, <3>2
  <2>4. g = [s \in SUBSET (1 .. k + 1) |-> Lap(g, s)]
    <3>1. g = [s \in SUBSET (1 .. k + 1) |-> Lap(f, s)]
      OBVIOUS
    <3> HIDE DEF g, Lap
    <3> QED
      BY <2>3, <3>1
  <2>5. IsSum(g, q, k + 1)
    <3> HIDE DEF g
    <3> QED
      BY <2>4 DEF IsSum
  <2> QED
    BY <2>5
<1>3. n \in S
  <2> HIDE DEF S
  <2> QED
    BY <1>1, <1>2, Counting
<1> QED
  BY <1>3

LEMMA BytesAreSums ==
    ASSUME NEW R, NEW q \in Seq(R)
    PROVE  \E g : Sums(g, q, Len(q)) /\ PayloadBytes(q) = g[Len(q)]
<1> DEFINE n == Len(q)
           Is(f) == f = [s \in SUBSET (1 .. Len(q)) |->
                            IF s = {} THEN 0 ELSE f[s \ {Max(s)}] + q[Max(s)].bytes]
           iter == CHOOSE f : Is(f)
           g == [k \in Nat |-> iter[1 .. k]]
<1>1. n \in Nat /\ DOMAIN q = 1 .. n
  BY LenProperties
<1>2. PayloadBytes(q) = iter[1 .. n]
  BY <1>1 DEF PayloadBytes, FoldLeft, MapThenFoldSet
<1>3. IsSum(iter, q, n)
  <2>1. \A f : IsSum(f, q, n) <=> Is(f)
    BY DEF IsSum
  <2> HIDE DEF Is, n
  <2>2. \E f : Is(f)
    BY <1>1, <2>1, SumExists
  <2> QED
    BY <2>1, <2>2
<1> HIDE DEF iter, n
<1>4. g[0] = 0
  <2>1. 1 .. 0 = {} /\ {} \in SUBSET (1 .. n)
    OBVIOUS
  <2>2. iter[{}] = 0
    BY <1>3, <2>1 DEF IsSum
  <2> QED
    BY <2>1, <2>2
<1>5. ASSUME NEW k \in Nat, k < n PROVE g[k + 1] = g[k] + q[k + 1].bytes
  <2> DEFINE s == 1 .. k + 1
  <2>1. s \in SUBSET (1 .. n) /\ s # {} /\ k + 1 \in Nat /\ k + 1 \in s
    BY <1>1, <1>5
  <2>2. Max(s) = k + 1
    <3>1. Max(s) \in s /\ Max(s) >= k + 1
      <4> HIDE DEF s
      <4> QED
        BY <1>1, <2>1, Greatest
    <3> QED
      BY <3>1
  <2>3. s \ {Max(s)} = 1 .. k
    BY <2>2
  <2>4. iter[s] = iter[s \ {Max(s)}] + q[Max(s)].bytes
    <3> HIDE DEF s
    <3> QED
      BY <1>3, <2>1 DEF IsSum
  <2> QED
    BY <2>1, <2>2, <2>3, <2>4
<1>6. Sums(g, q, n)
  BY <1>4, <1>5 DEF Sums
<1>7. PayloadBytes(q) = g[n]
  BY <1>1, <1>2
<1> HIDE DEF g
<1> QED
  BY <1>6, <1>7 DEF n

LEMMA SumsAgree ==
    ASSUME NEW n \in Nat, NEW q, NEW r, \A i \in 1 .. n : q[i] = r[i],
           \A i \in 1 .. n : q[i].bytes \in Nat,
           NEW g, NEW h, NEW m \in Nat, n <= m, Sums(g, q, n), Sums(h, r, m)
    PROVE  g[n] = h[n] /\ g[n] \in Nat
<1> DEFINE S == {k \in Nat : k <= n => g[k] = h[k] /\ g[k] \in Nat}
<1>1. 0 \in S
  BY DEF Sums
<1>2. ASSUME NEW k \in Nat, k \in S PROVE k + 1 \in S
  <2> SUFFICES ASSUME k + 1 <= n PROVE g[k + 1] = h[k + 1] /\ g[k + 1] \in Nat
    OBVIOUS
  <2>1. k + 1 \in 1 .. n /\ k < n /\ k < m /\ k <= n
    OBVIOUS
  <2>2. g[k + 1] = g[k] + q[k + 1].bytes /\ h[k + 1] = h[k] + r[k + 1].bytes
    BY <2>1 DEF Sums
  <2>3. g[k] = h[k] /\ g[k] \in Nat /\ q[k + 1] = r[k + 1] /\ q[k + 1].bytes \in Nat
    BY <1>2, <2>1
  <2> QED
    BY <2>2, <2>3
<1>3. n \in S
  <2> HIDE DEF S
  <2> QED
    BY <1>1, <1>2, Counting
<1> QED
  BY <1>3

Sent == [bytes : Nat, stamp : Nat, at : Nat]

LEMMA OneMore ==
    ASSUME NEW q \in Seq(Sent), NEW c \in Sent
    PROVE  /\ PayloadBytes(q) \in Nat
           /\ PayloadBytes(Append(q, c)) = PayloadBytes(q) + c.bytes
<1> DEFINE n == Len(q)
           r == Append(q, c)
<1>1. /\ n \in Nat /\ r \in Seq(Sent) /\ Len(r) = n + 1
      /\ \A i \in 1 .. n : q[i] \in Sent /\ q[i] = r[i]
      /\ r[n + 1] = c
  <2>1. n \in Nat /\ \A i \in 1 .. n : q[i] \in Sent
    BY LenProperties, ElementOfSeq
  <2> QED
    BY <2>1, AppendProperties
<1> HIDE DEF r
<1>2. PICK g : Sums(g, q, n) /\ PayloadBytes(q) = g[n]
  BY BytesAreSums
<1>3. PICK h : Sums(h, r, n + 1) /\ PayloadBytes(r) = h[n + 1]
  BY <1>1, BytesAreSums
<1> HIDE DEF n
<1>4. g[n] = h[n] /\ g[n] \in Nat
  <2>1. n <= n + 1 /\ n + 1 \in Nat
    BY <1>1
  <2>2. \A x \in Sent : x.bytes \in Nat
    BY DEF Sent
  <2>3. \A i \in 1 .. n : q[i] = r[i] /\ q[i].bytes \in Nat
    BY <1>1, <2>2, Zenon
  <2> QED
    BY <1>1, <1>2, <1>3, <2>1, <2>3, SumsAgree
<1>5. h[n + 1] = h[n] + c.bytes
  <2>1. n < n + 1
    BY <1>1
  <2> QED
    BY <1>1, <1>3, <2>1 DEF Sums
<1> QED
  BY <1>2, <1>3, <1>4, <1>5 DEF r

LEMMA NoBytes == PayloadBytes(<<>>) = 0
<1>1. PICK g : Sums(g, <<>>, Len(<<>>)) /\ PayloadBytes(<<>>) = g[Len(<<>>)]
  <2>1. <<>> \in Seq(Sent)
    OBVIOUS
  <2> QED
    BY <2>1, BytesAreSums
<1> QED
  BY <1>1 DEF Sums
-----------------------------------------------------------------------------
(* Counters that wrap.                                                      *)

LEMMA Remainder ==
    ASSUME NEW n \in Nat, NEW l \in Nat \ {0}, NEW x \in Nat, NEW r \in Nat, r < l, n = x * l + r
    PROVE  n % l = r
<1> DEFINE y == n \div l
           s == n % l
<1>1. y \in Nat /\ s \in Nat /\ s < l /\ n = y * l + s
  BY Division
<1> HIDE DEF y, s
<1>2. \A a, b \in Nat : a < b => a * l + l <= b * l /\ a * l \in Nat /\ b * l \in Nat
  <2> SUFFICES ASSUME NEW a \in Nat, NEW b \in Nat, a < b
               PROVE  a * l + l <= b * l /\ a * l \in Nat /\ b * l \in Nat
    OBVIOUS
  <2>1. a + 1 \in Nat /\ a + 1 <= b
    OBVIOUS
  <2>2. (a + 1) * l <= b * l /\ a * l \in Nat /\ b * l \in Nat
    BY <2>1, Product
  <2>3. (a + 1) * l = a * l + l
    OBVIOUS
  <2> QED
    BY <2>2, <2>3
<1>3. ~(x < y)
  <2> SUFFICES ASSUME x < y PROVE FALSE
    OBVIOUS
  <2>1. x * l + l <= y * l /\ x * l \in Nat /\ y * l \in Nat
    BY <1>1, <1>2
  <2> DEFINE a == x * l
             b == y * l
  <2> HIDE DEF a, b
  <2>2. a + l <= b /\ a \in Nat /\ b \in Nat /\ a + r = b + s
    BY <1>1, <2>1 DEF a, b
  <2> QED
    BY <1>1, <2>2
<1>4. ~(y < x)
  <2> SUFFICES ASSUME y < x PROVE FALSE
    OBVIOUS
  <2>1. y * l + l <= x * l /\ x * l \in Nat /\ y * l \in Nat
    BY <1>1, <1>2
  <2> DEFINE a == x * l
             b == y * l
  <2> HIDE DEF a, b
  <2>2. b + l <= a /\ a \in Nat /\ b \in Nat /\ a + r = b + s
    BY <1>1, <2>1 DEF a, b
  <2> QED
    BY <1>1, <2>2
<1>5. x = y
  BY <1>1, <1>3, <1>4
<1>6. s = r
  <2> DEFINE a == x * l
  <2>1. a \in Nat
    BY Product
  <2>2. a + r = a + s
    BY <1>1, <1>5
  <2> HIDE DEF a
  <2> QED
    BY <1>1, <2>1, <2>2
<1> QED
  BY <1>6 DEF s

LEMMA Wraps ==
    ASSUME NEW n \in Nat, NEW k \in Nat, NEW l \in Nat \ {0}
    PROVE  ((n % l) + k) % l = (n + k) % l
<1> DEFINE q == n \div l
           r == n % l
           u == (r + k) \div l
           t == (r + k) % l
<1>1. q \in Nat /\ r \in Nat /\ n = q * l + r
  BY Division
<1> HIDE DEF q, r
<1>2. u \in Nat /\ t \in Nat /\ t < l /\ r + k = u * l + t
  <2> DEFINE m == r + k
  <2>1. m \in Nat
    BY <1>1
  <2> HIDE DEF m
  <2>2. m \div l \in Nat /\ m % l \in Nat /\ m % l < l /\ m = (m \div l) * l + (m % l)
    BY <2>1, Division
  <2> QED
    BY <2>2 DEF m
<1> HIDE DEF u, t
<1>3. (q + u) * l = q * l + u * l /\ q * l \in Nat /\ u * l \in Nat
  BY <1>1, <1>2
<1>4. n + k = (q + u) * l + t
  <2> DEFINE a == q * l
             b == u * l
             c == (q + u) * l
  <2>1. c = a + b /\ a \in Nat /\ b \in Nat /\ n = a + r /\ r + k = b + t
    BY <1>1, <1>2, <1>3
  <2> HIDE DEF a, b, c
  <2>2. n + k = c + t
    BY <1>1, <1>2, <2>1
  <2> QED
    BY <2>2 DEF c
<1>5. (n + k) % l = t
  <2>1. n + k \in Nat /\ q + u \in Nat
    BY <1>1, <1>2
  <2> QED
    BY <1>2, <1>4, <2>1, Remainder
<1> QED
  BY <1>5 DEF t, r
-----------------------------------------------------------------------------
(* The builder.                                                             *)

RtpBuilders ==
    [init : BOOLEAN, max : Nat, ssrc : Uint32,
     timestamp : {n \in Nat : n < StampWrap}, seqnr : {n \in Nat : n < SeqWrap},
     csrcs : {c \in Seq(Uint32) : Len(c) <= MaxCSRCs},
     numpackets : Nat, numpayloadbytes : Nat,
     pt : Octets \cup {Unset}, mark : BOOLEAN \cup {Unset}, inc : Uint32 \cup {Unset},
     lastwallclocktime : Nat, lastrtptimestamp : Nat, prevrtptimestamp : Nat]

\* What it counts is what was sent, and its clock that of the last packet at
\* which it was read.
SenderKnows ==
    LET b == rtpbuilder
    IN  /\ counted \in Seq(Sent)
        /\ b.numpackets = Len(counted) % CountWrap
        /\ b.numpayloadbytes = PayloadBytes(counted) % CountWrap
        /\ counted # <<>> =>
              /\ b.lastrtptimestamp = counted[Len(counted)].stamp
              /\ b.prevrtptimestamp = b.lastrtptimestamp
              /\ \E i \in 1 .. Len(counted) :
                    /\ ReadsClock(i) /\ b.lastwallclocktime = counted[i].at
                    /\ \A j \in 1 .. Len(counted) : ReadsClock(j) => j <= i

RtpInv ==
    /\ rtpbuilder \in RtpBuilders /\ clock \in Nat /\ wire \in Seq(Octets)
    /\ rtpasked # Nothing => rtpasked \in Asked /\ wire = RtpBytes(rtpasked)
    /\ SenderKnows

LEMMA Constants ==
    /\ SeqWrap \in Nat \ {0} /\ SeqWrap <= 65536
    /\ StampWrap \in Nat \ {0} /\ (StampWrap - 1) \div 65536 < 65536
    /\ CountWrap \in Nat \ {0}
    /\ \A n \in RandomSeqs : n \in Nat /\ n < SeqWrap
    /\ \A n \in RandomStamps : n \in Nat /\ n < StampWrap
    /\ RandomSSRCs \subseteq Uint32
    /\ MaxCSRCs \in Nat /\ MaxCSRCs <= 15
<1>1. SeqWrap \in Nat \ {0} /\ StampWrap \in Nat \ {0} /\ CountWrap \in Nat \ {0}
  BY RtpPacketAssumption
<1>2. (\A n \in RandomSeqs : n \in 0 .. SeqWrap - 1) /\ (\A n \in RandomStamps : n \in 0 .. StampWrap - 1)
  BY RtpPacketAssumption
<1>3. /\ \A n \in RandomSeqs : n \in Nat /\ n < SeqWrap
      /\ \A n \in RandomStamps : n \in Nat /\ n < StampWrap
  BY <1>1, <1>2
<1>4. RandomSSRCs \subseteq Uint32
  BY RtpPacketAssumption DEF Uint32
<1> QED
  BY <1>1, <1>3, <1>4, RtpPacketAssumption

\* The clock and the number of a packet fit its fields.
LEMMA NumbersFit ==
    /\ \A n \in Nat : n < SeqWrap => n \in Uint16
    /\ \A n \in Nat : n < StampWrap => n \in Uint32
<1>1. ASSUME NEW n \in Nat, n < SeqWrap PROVE n \in Uint16
  BY <1>1, Constants DEF Uint16
<1>2. ASSUME NEW n \in Nat, n < StampWrap PROVE n \in Uint32
  <2> DEFINE m == StampWrap - 1
  <2>1. m \in Nat /\ n <= m /\ m \div 65536 < 65536
    BY <1>2, Constants
  <2> HIDE DEF m
  <2>2. n \div 65536 <= m \div 65536 /\ n \div 65536 \in Nat /\ m \div 65536 \in Nat
    BY <2>1
  <2>3. n \div 65536 < 65536
    BY <2>1, <2>2
  <2> QED
    BY <2>3 DEF Uint32
<1> QED
  BY <1>1, <1>2

LEMMA RtpStarts == RtpInit => RtpInv
<1> SUFFICES ASSUME RtpInit PROVE RtpInv
  OBVIOUS
<1>1. rtpbuilder = NewRtpBuilder /\ clock = 0 /\ rtpasked = Nothing /\ wire = <<>> /\ counted = <<>>
  BY DEF RtpInit
<1>2. NewRtpBuilder \in RtpBuilders
  <2>1. 0 \in Uint32 /\ 0 < StampWrap /\ 0 < SeqWrap /\ <<>> \in Seq(Uint32) /\ Len(<<>>) <= MaxCSRCs
    BY Constants DEF Uint32
  <2> QED
    BY <2>1 DEF NewRtpBuilder, RtpBuilders
<1>3. SenderKnows
  <2>1. 0 % CountWrap = 0
    BY Constants
  <2> QED
    BY <1>1, <2>1, NoBytes DEF SenderKnows, NewRtpBuilder
<1> QED
  BY <1>1, <1>2, <1>3 DEF RtpInv

\* A step that leaves alone what the sender report is filled from.
LEMMA SenderStays ==
    ASSUME SenderKnows, counted' = counted,
           rtpbuilder'.numpackets = rtpbuilder.numpackets,
           rtpbuilder'.numpayloadbytes = rtpbuilder.numpayloadbytes,
           rtpbuilder'.lastrtptimestamp = rtpbuilder.lastrtptimestamp,
           rtpbuilder'.prevrtptimestamp = rtpbuilder.prevrtptimestamp,
           rtpbuilder'.lastwallclocktime = rtpbuilder.lastwallclocktime
    PROVE  SenderKnows'
  BY Zenon DEF SenderKnows, ReadsClock

Counts(b) == <<b.numpackets, b.numpayloadbytes, b.lastrtptimestamp, b.prevrtptimestamp, b.lastwallclocktime>>

LEMMA SetUpKeepsIt ==
    ASSUME RtpInv, NEW b \in RtpBuilders, Counts(b) = Counts(rtpbuilder), SetUp(b)
    PROVE  RtpInv'
<1>1. rtpbuilder' = b /\ counted' = counted /\ clock' = clock /\ rtpasked' = rtpasked /\ wire' = wire
  BY DEF SetUp, RtpUnchanged
<1>2. SenderKnows'
  BY <1>1, SenderStays DEF RtpInv, Counts
<1> QED
  BY <1>1, <1>2 DEF RtpInv

LEMMA StartsOver ==
    ASSUME RtpInv, NEW b \in RtpBuilders, CreateNewSSRC(b), counted' = <<>>, RtpUnchanged
    PROVE  RtpInv'
<1>1. clock' = clock /\ rtpasked' = rtpasked /\ wire' = wire
  BY DEF RtpUnchanged
<1> DEFINE New(s, t, n) == [b EXCEPT !.ssrc = s, !.timestamp = t, !.seqnr = n,
                                     !.numpackets = 0, !.numpayloadbytes = 0]
<1>2. PICK s \in RandomSSRCs, t \in RandomStamps, n \in RandomSeqs : rtpbuilder' = New(s, t, n)
  BY Zenon DEF CreateNewSSRC
<1>3. s \in Uint32 /\ t \in Nat /\ t < StampWrap /\ n \in Nat /\ n < SeqWrap
  BY Constants
<1>4. rtpbuilder' \in RtpBuilders /\ rtpbuilder'.numpackets = 0 /\ rtpbuilder'.numpayloadbytes = 0
  BY <1>2, <1>3 DEF RtpBuilders
<1>5. SenderKnows'
  <2>1. 0 % CountWrap = 0
    BY Constants
  <2> QED
    BY <1>4, <2>1, NoBytes DEF SenderKnows
<1> QED
  BY <1>1, <1>4, <1>5 DEF RtpInv

LEMMA BuiltKeepsIt ==
    ASSUME RtpInv, NEW p \in Asked, NEW inc \in Uint32, p.stamp = rtpbuilder.timestamp,
           PacketBuilt(p, inc)
    PROVE  RtpInv'
<1>0. counted \in Seq(Sent) /\ Len(counted) \in Nat
  <2>1. counted \in Seq(Sent)
    BY DEF RtpInv, SenderKnows
  <2> QED
    BY <2>1, LenProperties
<1> PICK n \in Nat : n = Len(counted)
  BY <1>0
<1> DEFINE b == rtpbuilder
           l == Len(p.payload)
           new == b.numpackets = 0 \/ b.timestamp # b.prevrtptimestamp
           c == [bytes |-> l, stamp |-> p.stamp, at |-> clock]
           time == IF new THEN clock ELSE b.lastwallclocktime
           last == IF new THEN b.timestamp ELSE b.lastrtptimestamp
           prev == IF new THEN b.timestamp ELSE b.prevrtptimestamp
           bytes == (b.numpayloadbytes + l) % CountWrap
           packets == (b.numpackets + 1) % CountWrap
           stamp == (b.timestamp + inc) % StampWrap
           seq == (b.seqnr + 1) % SeqWrap
<1>1. /\ rtpbuilder' = [b EXCEPT !.lastwallclocktime = time, !.lastrtptimestamp = last,
                                 !.prevrtptimestamp = prev, !.numpayloadbytes = bytes,
                                 !.numpackets = packets, !.timestamp = stamp, !.seqnr = seq]
      /\ wire' = RtpBytes(p) /\ rtpasked' = p /\ counted' = Append(counted, c) /\ clock' = clock
  BY Zenon DEF PacketBuilt
<1>2. /\ b \in RtpBuilders /\ clock \in Nat
      /\ b.timestamp \in Nat /\ b.timestamp < StampWrap /\ b.seqnr \in Nat
      /\ b.numpackets \in Nat /\ b.numpayloadbytes \in Nat
      /\ b.lastwallclocktime \in Nat /\ b.lastrtptimestamp \in Nat /\ b.prevrtptimestamp \in Nat
  <2>1. b \in RtpBuilders /\ clock \in Nat
    BY DEF RtpInv
  <2> QED
    BY <2>1 DEF RtpBuilders
<1>3. l \in Nat /\ inc \in Nat
  <2>1. p.payload \in Seq(Octets)
    BY DEF Asked
  <2>2. l \in Nat
    BY <2>1, LenProperties
  <2> QED
    BY <2>2 DEF Uint32
<1> HIDE DEF l
<1>4. c \in Sent /\ c.bytes = l /\ c.stamp = b.timestamp /\ c.at = clock
  BY <1>2, <1>3 DEF Sent
<1>5. /\ time \in Nat /\ last \in Nat /\ prev \in Nat
      /\ bytes \in Nat /\ packets \in Nat
      /\ stamp \in Nat /\ stamp < StampWrap /\ seq \in Nat /\ seq < SeqWrap
  <2>1. time \in Nat /\ last \in Nat /\ prev \in Nat
    BY <1>2
  <2>2. \A k \in Nat, w \in Nat \ {0} : k % w \in Nat /\ k % w < w
    BY Division
  <2>3. b.numpayloadbytes + l \in Nat /\ b.numpackets + 1 \in Nat /\ b.timestamp + inc \in Nat /\ b.seqnr + 1 \in Nat
    <3>1. \A x, y \in Nat : x + y \in Nat
      OBVIOUS
    <3>2. 1 \in Nat
      OBVIOUS
    <3> QED
      BY <1>2, <1>3, <3>1, <3>2, Zenon
  <2>4. SeqWrap \in Nat \ {0} /\ StampWrap \in Nat \ {0} /\ CountWrap \in Nat \ {0}
    BY Constants
  <2>5. bytes \in Nat /\ packets \in Nat
    BY <2>2, <2>3, <2>4, Zenon
  <2>6. stamp \in Nat /\ stamp < StampWrap /\ seq \in Nat /\ seq < SeqWrap
    BY <2>2, <2>3, <2>4, Zenon
  <2> QED
    BY <2>1, <2>5, <2>6, Zenon
<1>6. /\ counted' \in Seq(Sent) /\ counted' # <<>> /\ Len(counted') = n + 1
      /\ \A i \in 1 .. n : counted'[i] = counted[i]
      /\ counted'[n + 1] = c
  BY <1>0, <1>1, <1>4, AppendProperties
<1> HIDE DEF c
<1>7. /\ rtpbuilder' \in RtpBuilders
      /\ rtpbuilder'.lastwallclocktime = time /\ rtpbuilder'.lastrtptimestamp = last
      /\ rtpbuilder'.prevrtptimestamp = prev /\ rtpbuilder'.numpayloadbytes = bytes
      /\ rtpbuilder'.numpackets = packets
  <2> HIDE DEF time, last, prev, bytes, packets, stamp, seq
  <2> QED
    BY <1>1, <1>2, <1>5 DEF RtpBuilders
<1>8. b.numpackets = n % CountWrap /\ b.numpayloadbytes = PayloadBytes(counted) % CountWrap
  BY DEF RtpInv, SenderKnows
<1>9. packets = (n + 1) % CountWrap /\ bytes = PayloadBytes(counted') % CountWrap
  <2>1. packets = (n + 1) % CountWrap
    <3>1. n \in Nat /\ 1 \in Nat /\ CountWrap \in Nat \ {0}
      BY Constants
    <3>2. ((n % CountWrap) + 1) % CountWrap = (n + 1) % CountWrap
      BY <3>1, Wraps, Zenon
    <3> QED
      BY <1>8, <3>2
  <2>2. PayloadBytes(counted) \in Nat /\ PayloadBytes(counted') = PayloadBytes(counted) + l
    BY <1>0, <1>1, <1>4, OneMore
  <2>3. bytes = (PayloadBytes(counted) + l) % CountWrap
    <3> DEFINE t == PayloadBytes(counted)
    <3>1. t \in Nat /\ b.numpayloadbytes = t % CountWrap
      BY <1>8, <2>2
    <3> HIDE DEF t
    <3>2. ((t % CountWrap) + l) % CountWrap = (t + l) % CountWrap
      <4>1. t \in Nat /\ l \in Nat /\ CountWrap \in Nat \ {0}
        BY <1>3, <3>1, Constants
      <4> QED
        BY <4>1, Wraps, Zenon
    <3> QED
      BY <3>1, <3>2 DEF t
  <2> QED
    BY <2>1, <2>2, <2>3
<1>10. ASSUME NEW i \in 1 .. n PROVE ReadsClock(i)' <=> ReadsClock(i)
  <2>1. CASE i = 1
    <3>1. (i - 1) % CountWrap = 0
      BY <2>1, Constants
    <3> QED
      BY <3>1 DEF ReadsClock
  <2>2. CASE i # 1
    <3>1. i - 1 \in 1 .. n
      BY <1>2, <2>2
    <3>2. counted'[i] = counted[i] /\ counted'[i - 1] = counted[i - 1]
      BY <1>6, <3>1
    <3> QED
      BY <3>2 DEF ReadsClock
  <2> QED
    BY <2>1, <2>2
<1>11. n # 0 =>
         /\ b.lastrtptimestamp = counted[n].stamp /\ b.prevrtptimestamp = b.lastrtptimestamp
         /\ \E i \in 1 .. n : /\ ReadsClock(i) /\ b.lastwallclocktime = counted[i].at
                              /\ \A j \in 1 .. n : ReadsClock(j) => j <= i
  <2>1. n # 0 => counted # <<>>
    OBVIOUS
  <2> QED
    BY <2>1, Zenon DEF RtpInv, SenderKnows
<1>12. ReadsClock(n + 1)' <=> new
  <2>1. (n + 1) - 1 = n
    BY <1>2
  <2>2. ReadsClock(n + 1)' <=> (n % CountWrap = 0 \/ counted'[n + 1].stamp # counted'[n].stamp)
    BY <2>1, Zenon DEF ReadsClock
  <2>3. CASE n = 0
    <3>1. n % CountWrap = 0
      BY <2>3, Constants
    <3> QED
      BY <1>8, <2>2, <3>1
  <2>4. CASE n # 0
    <3>1. n \in 1 .. n
      BY <1>2, <2>4
    <3>2. counted'[n].stamp = b.prevrtptimestamp /\ counted'[n + 1].stamp = b.timestamp
      BY <1>4, <1>6, <1>11, <2>4, <3>1
    <3> QED
      BY <1>8, <2>2, <3>2
  <2> QED
    BY <2>3, <2>4
<1> HIDE DEF new
<1>13. /\ last = counted'[n + 1].stamp /\ prev = last
       /\ \E i \in 1 .. n + 1 : /\ ReadsClock(i)' /\ time = counted'[i].at
                                /\ \A j \in 1 .. n + 1 : ReadsClock(j)' => j <= i
  <2>1. n + 1 \in 1 .. n + 1 /\ \A j \in 1 .. n + 1 : j <= n + 1 /\ (j = n + 1 \/ j \in 1 .. n)
    BY <1>2
  <2>2. CASE new
    <3>1. last = b.timestamp /\ prev = b.timestamp /\ time = clock
      BY <2>2
    <3>2. ReadsClock(n + 1)' /\ time = counted'[n + 1].at
      BY <1>4, <1>6, <1>12, <2>2, <3>1
    <3> QED
      BY <1>4, <1>6, <2>1, <3>1, <3>2
  <2>3. CASE ~new
    <3>1. b.timestamp = b.prevrtptimestamp /\ b.numpackets # 0
      BY <2>3 DEF new
    <3>2. n # 0
      BY <1>8, <3>1, Constants
    <3>3. last = b.lastrtptimestamp /\ prev = b.prevrtptimestamp /\ time = b.lastwallclocktime
      BY <2>3
    <3>4. last = counted'[n + 1].stamp /\ prev = last
      BY <1>4, <1>6, <1>11, <3>1, <3>2, <3>3
    <3>5. PICK i \in 1 .. n : /\ ReadsClock(i) /\ b.lastwallclocktime = counted[i].at
                              /\ \A j \in 1 .. n : ReadsClock(j) => j <= i
      BY <1>11, <3>2
    <3>6. i \in 1 .. n + 1 /\ ReadsClock(i)' /\ time = counted'[i].at
      BY <1>2, <1>6, <1>10, <3>3, <3>5
    <3>7. ASSUME NEW j \in 1 .. n + 1, ReadsClock(j)' PROVE j <= i
      <4>1. j # n + 1
        BY <1>12, <2>3, <3>7
      <4>2. j \in 1 .. n
        BY <2>1, <4>1
      <4> QED
        BY <1>10, <3>5, <3>7, <4>2
    <3> QED
      BY <3>4, <3>6, <3>7
  <2> QED
    BY <2>2, <2>3
<1>14. SenderKnows'
  <2> HIDE DEF time, last, prev, bytes, packets
  <2>1. /\ rtpbuilder'.numpackets = Len(counted)' % CountWrap
        /\ rtpbuilder'.numpayloadbytes = PayloadBytes(counted)' % CountWrap
        /\ rtpbuilder'.lastrtptimestamp = counted'[Len(counted)'].stamp
        /\ rtpbuilder'.prevrtptimestamp = rtpbuilder'.lastrtptimestamp
        /\ \E i \in 1 .. Len(counted)' :
              /\ ReadsClock(i)' /\ rtpbuilder'.lastwallclocktime = counted'[i].at
              /\ \A j \in 1 .. Len(counted)' : ReadsClock(j)' => j <= i
    BY <1>6, <1>7, <1>9, <1>13
  <2> QED
    BY <1>6, <2>1, Zenon DEF SenderKnows
<1>15. wire' \in Seq(Octets)
  BY <1>1, LaidOut, Zenon
<1> QED
  BY <1>1, <1>2, <1>7, <1>14, <1>15 DEF RtpInv

LEMMA BuildsKeepIt ==
    ASSUME RtpInv, NEW pt \in Octets, NEW mark \in BOOLEAN, NEW inc \in Uint32,
           NEW csrcs \in {c \in Seq(Uint32) : Len(c) <= 15},
           NEW ext \in HeaderExtensions, NEW payload \in Seq(Octets),
           PacketBuilt(Numbered(pt, mark, csrcs, ext, payload), inc)
    PROVE  RtpInv'
<1> DEFINE p == Numbered(pt, mark, csrcs, ext, payload)
<1>1. /\ rtpbuilder.seqnr \in Uint16 /\ rtpbuilder.timestamp \in Uint32
      /\ rtpbuilder.ssrc \in Uint32
  BY NumbersFit DEF RtpInv, RtpBuilders
<1>2. p \in Asked /\ p.stamp = rtpbuilder.timestamp
  BY <1>1 DEF Numbered, Asked
<1> HIDE DEF p
<1> QED
  BY <1>2, BuiltKeepsIt DEF p

LEMMA ListKeepsIt ==
    ASSUME RtpInv, NEW c \in {q \in Seq(Uint32) : Len(q) <= MaxCSRCs},
           SetUp([rtpbuilder EXCEPT !.csrcs = c])
    PROVE  RtpInv'
<1> DEFINE b == [rtpbuilder EXCEPT !.csrcs = c]
<1>1. b \in RtpBuilders /\ Counts(b) = Counts(rtpbuilder)
  BY DEF RtpInv, RtpBuilders, Counts
<1> HIDE DEF b
<1> QED
  BY <1>1, SetUpKeepsIt DEF b

LEMMA ListIs ==
    ASSUME RtpInv
    PROVE  /\ rtpbuilder.csrcs \in Seq(Uint32) /\ Len(rtpbuilder.csrcs) \in Nat
           /\ Len(rtpbuilder.csrcs) <= MaxCSRCs
<1>1. rtpbuilder.csrcs \in Seq(Uint32) /\ Len(rtpbuilder.csrcs) <= MaxCSRCs
  BY DEF RtpInv, RtpBuilders
<1> QED
  BY <1>1, LenProperties

LEMMA AddCSRCKeepsIt ==
    ASSUME RtpInv, NEW n \in Uint32, AddCSRC(n)
    PROVE  RtpInv'
<1> DEFINE q == rtpbuilder.csrcs
           c == Append(q, n)
<1>1. q \in Seq(Uint32) /\ Len(q) < MaxCSRCs /\ Len(q) \in Nat
  BY ListIs DEF AddCSRC
<1>2. c \in Seq(Uint32) /\ Len(c) = Len(q) + 1
  BY <1>1, AppendProperties
<1>3. Len(c) <= MaxCSRCs
  BY <1>1, <1>2, Constants
<1>4. SetUp([rtpbuilder EXCEPT !.csrcs = c])
  BY DEF AddCSRC
<1> HIDE DEF c
<1> QED
  BY <1>2, <1>3, <1>4, ListKeepsIt

LEMMA DeleteCSRCKeepsIt ==
    ASSUME RtpInv, NEW n \in Uint32, DeleteCSRC(n)
    PROVE  RtpInv'
<1> DEFINE q == rtpbuilder.csrcs
           m == Len(q)
           rest == Front(q)
           c(i) == IF i > Len(rest) THEN rest ELSE [rest EXCEPT ![i] = Last(q)]
<1>1. q \in Seq(Uint32) /\ m \in Nat /\ m <= MaxCSRCs
  BY ListIs
<1>2. PICK i \in DOMAIN q : SetUp([rtpbuilder EXCEPT !.csrcs = c(i)])
  BY Zenon DEF DeleteCSRC
<1>3. i \in 1 .. m /\ m \in 1 .. m /\ m - 1 \in Nat
  <2>1. i \in 1 .. m
    BY <1>1, <1>2, LenProperties
  <2> HIDE DEF m
  <2> QED
    BY <1>1, <2>1
<1>4. rest \in Seq(Uint32) /\ Len(rest) = m - 1
  <2> DEFINE l == m - 1
  <2>1. l \in Nat /\ 1 \in Int /\ l \in Int /\ l - 1 + 1 = l /\ \A j \in 1 .. l : j \in 1 .. m
    <3> HIDE DEF m
    <3> QED
      BY <1>1, <1>3
  <2>2. \A j \in 1 .. l : q[j] \in Uint32
    BY <1>1, <2>1, ElementOfSeq
  <2> HIDE DEF l
  <2>3. SubSeq(q, 1, l) \in Seq(Uint32) /\ Len(SubSeq(q, 1, l)) = IF 1 <= l THEN l - 1 + 1 ELSE 0
    BY <2>1, <2>2, SubSeqProperties
  <2>4. (IF 1 <= l THEN l - 1 + 1 ELSE 0) = l
    BY <2>1
  <2>5. rest = SubSeq(q, 1, l)
    BY DEF Front, l
  <2> HIDE DEF rest, m
  <2> QED
    BY <2>3, <2>4, <2>5 DEF l
<1>5. Last(q) \in Uint32
  <2>1. q[m] \in Uint32
    BY <1>1, <1>3, ElementOfSeq
  <2> QED
    BY <2>1 DEF Last
<1> HIDE DEF rest, m
<1>6. c(i) \in Seq(Uint32) /\ Len(c(i)) = m - 1
  <2>1. CASE i > Len(rest)
    BY <1>4, <2>1
  <2>2. CASE ~(i > Len(rest))
    <3>1. i \in 1 .. Len(rest)
      BY <1>3, <1>4, <2>2
    <3> DEFINE d == [rest EXCEPT ![i] = Last(q)]
    <3>2. d \in Seq(Uint32) /\ Len(d) = Len(rest)
      BY <1>4, <1>5, <3>1, ExceptSeq
    <3>3. c(i) = d
      BY <2>2
    <3> HIDE DEF c, d
    <3> QED
      BY <1>4, <3>2, <3>3
  <2> QED
    BY <2>1, <2>2
<1> HIDE DEF c
<1>7. Len(c(i)) <= MaxCSRCs
  BY <1>1, <1>6, Constants
<1> QED
  BY <1>2, <1>6, <1>7, ListKeepsIt

LEMMA SettingKeepsRtp ==
    ASSUME RtpInv,
           \/ \E n \in Nat : SetMaximumPacketSize(n)
           \/ \E n \in Uint32 : SetDefaultTimestampIncrement(n) \/ IncrementTimestamp(n)
           \/ \E pt \in Octets, mark \in BOOLEAN : SetDefaultPayloadType(pt) \/ SetDefaultMark(mark)
    PROVE  RtpInv'
<1>0. rtpbuilder \in RtpBuilders
  BY DEF RtpInv
<1>1. CASE \E n \in Nat : SetMaximumPacketSize(n)
  <2> PICK n \in Nat : SetMaximumPacketSize(n)
    BY <1>1
  <2> DEFINE b == [rtpbuilder EXCEPT !.max = n]
  <2>1. b \in RtpBuilders /\ Counts(b) = Counts(rtpbuilder) /\ SetUp(b)
    BY <1>0 DEF SetMaximumPacketSize, RtpBuilders, Counts
  <2> HIDE DEF b
  <2> QED
    BY <2>1, SetUpKeepsIt
<1>2. CASE \E n \in Uint32 : SetDefaultTimestampIncrement(n)
  <2> PICK n \in Uint32 : SetDefaultTimestampIncrement(n)
    BY <1>2
  <2> DEFINE b == [rtpbuilder EXCEPT !.inc = n]
  <2>1. b \in RtpBuilders /\ Counts(b) = Counts(rtpbuilder) /\ SetUp(b)
    BY <1>0 DEF SetDefaultTimestampIncrement, RtpBuilders, Counts
  <2> HIDE DEF b
  <2> QED
    BY <2>1, SetUpKeepsIt
<1>3. CASE \E n \in Uint32 : IncrementTimestamp(n)
  <2> PICK n \in Uint32 : IncrementTimestamp(n)
    BY <1>3
  <2> DEFINE t == (rtpbuilder.timestamp + n) % StampWrap
             b == [rtpbuilder EXCEPT !.timestamp = t]
  <2>1. t \in Nat /\ t < StampWrap
    <3>1. rtpbuilder.timestamp \in Nat /\ n \in Nat
      BY <1>0 DEF RtpBuilders, Uint32
    <3>2. rtpbuilder.timestamp + n \in Nat /\ StampWrap \in Nat \ {0}
      BY <3>1, Constants
    <3>3. \A k \in Nat, w \in Nat \ {0} : k % w \in Nat /\ k % w < w
      BY Division
    <3> QED
      BY <3>2, <3>3, Zenon
  <2>2. SetUp(b)
    BY DEF IncrementTimestamp
  <2> HIDE DEF t
  <2>3. b \in RtpBuilders /\ Counts(b) = Counts(rtpbuilder)
    BY <1>0, <2>1 DEF RtpBuilders, Counts
  <2> HIDE DEF b
  <2> QED
    BY <2>2, <2>3, SetUpKeepsIt
<1>4. CASE \E pt \in Octets : SetDefaultPayloadType(pt)
  <2> PICK pt \in Octets : SetDefaultPayloadType(pt)
    BY <1>4
  <2> DEFINE b == [rtpbuilder EXCEPT !.pt = pt]
  <2>1. b \in RtpBuilders /\ Counts(b) = Counts(rtpbuilder) /\ SetUp(b)
    BY <1>0 DEF SetDefaultPayloadType, RtpBuilders, Counts
  <2> HIDE DEF b
  <2> QED
    BY <2>1, SetUpKeepsIt
<1>5. CASE \E mark \in BOOLEAN : SetDefaultMark(mark)
  <2> PICK mark \in BOOLEAN : SetDefaultMark(mark)
    BY <1>5
  <2> DEFINE b == [rtpbuilder EXCEPT !.mark = mark]
  <2>1. b \in RtpBuilders /\ Counts(b) = Counts(rtpbuilder) /\ SetUp(b)
    BY <1>0 DEF SetDefaultMark, RtpBuilders, Counts
  <2> HIDE DEF b
  <2> QED
    BY <2>1, SetUpKeepsIt
<1> QED
  BY <1>1, <1>2, <1>3, <1>4, <1>5

LEMMA LifeKeepsRtp ==
    ASSUME RtpInv, (\E max \in Nat : InitBuilder(max)) \/ NewSSRC \/ DestroyBuilder
    PROVE  RtpInv'
<1>0. rtpbuilder \in RtpBuilders
  BY DEF RtpInv
<1>1. CASE \E max \in Nat : InitBuilder(max)
  <2> PICK max \in Nat : InitBuilder(max)
    BY <1>1
  <2> DEFINE b == [rtpbuilder EXCEPT !.init = TRUE, !.max = max, !.csrcs = <<>>,
                                     !.pt = Unset, !.mark = Unset, !.inc = Unset]
  <2>1. b \in RtpBuilders
    <3>1. <<>> \in Seq(Uint32) /\ Len(<<>>) <= MaxCSRCs
      BY Constants
    <3> QED
      BY <1>0, <3>1 DEF RtpBuilders
  <2>2. CreateNewSSRC(b) /\ counted' = <<>> /\ RtpUnchanged
    BY DEF InitBuilder
  <2> HIDE DEF b
  <2> QED
    BY <2>1, <2>2, StartsOver
<1>2. CASE NewSSRC
  BY <1>0, <1>2, StartsOver DEF NewSSRC
<1>3. CASE DestroyBuilder
  <2> DEFINE b == [rtpbuilder EXCEPT !.init = FALSE]
  <2>1. b \in RtpBuilders /\ Counts(b) = Counts(rtpbuilder)
    BY <1>0 DEF RtpBuilders, Counts
  <2>2. SetUp(b)
    BY <1>3 DEF DestroyBuilder, SetUp
  <2> HIDE DEF b
  <2> QED
    BY <2>1, <2>2, SetUpKeepsIt
<1> QED
  BY <1>1, <1>2, <1>3

LEMMA PacketsKeepRtp ==
    ASSUME RtpInv, NEW payload \in Seq(Octets),
           \/ BuildPacketEX(payload) \/ ReceiveRtp(payload)
           \/ \E ext \in HeaderExtensions :
                 \/ BuildDefault(ext, payload)
                 \/ \E pt \in Octets, mark \in BOOLEAN, inc \in Uint32 :
                       BuildPacketWith(pt, mark, inc, ext, payload)
    PROVE  RtpInv'
<1>0. rtpbuilder \in RtpBuilders /\ rtpbuilder.csrcs \in {c \in Seq(Uint32) : Len(c) <= 15}
  <2>1. rtpbuilder.csrcs \in Seq(Uint32) /\ Len(rtpbuilder.csrcs) <= 15
    BY ListIs, Constants
  <2> QED
    BY <2>1 DEF RtpInv
<1>1. DefaultsSet => /\ rtpbuilder.pt \in Octets /\ rtpbuilder.mark \in BOOLEAN
                     /\ rtpbuilder.inc \in Uint32
  BY <1>0 DEF DefaultsSet, RtpBuilders
<1>2. CASE BuildPacketEX(payload)
  <2>1. <<>> \in {c \in Seq(Uint32) : Len(c) <= 15} /\ NoExtension \in HeaderExtensions
    BY DEF HeaderExtensions
  <2>2. PacketBuilt(Numbered(rtpbuilder.pt, rtpbuilder.mark, <<>>, NoExtension, payload), rtpbuilder.inc)
    BY <1>2 DEF BuildPacketEX
  <2>3. DefaultsSet
    BY <1>2 DEF BuildPacketEX
  <2> QED
    BY <1>1, <2>1, <2>2, <2>3, BuildsKeepIt
<1>3. CASE ReceiveRtp(payload)
  <2>1. /\ wire' = payload /\ rtpasked' = Nothing
        /\ rtpbuilder' = rtpbuilder /\ clock' = clock /\ counted' = counted
    BY <1>3 DEF ReceiveRtp
  <2>2. SenderKnows'
    BY <2>1, SenderStays DEF RtpInv
  <2> QED
    BY <2>1, <2>2 DEF RtpInv
<1>4. ASSUME NEW ext \in HeaderExtensions, NEW pt \in Octets, NEW mark \in BOOLEAN, NEW inc \in Uint32,
             BuildPacketWith(pt, mark, inc, ext, payload)
      PROVE  RtpInv'
  <2>1. PacketBuilt(Numbered(pt, mark, rtpbuilder.csrcs, ext, payload), inc)
    BY <1>4 DEF BuildPacketWith
  <2> QED
    BY <1>0, <2>1, BuildsKeepIt
<1>5. CASE \E ext \in HeaderExtensions : BuildDefault(ext, payload)
  <2> PICK ext \in HeaderExtensions : BuildDefault(ext, payload)
    BY <1>5
  <2>1. DefaultsSet /\ BuildPacketWith(rtpbuilder.pt, rtpbuilder.mark, rtpbuilder.inc, ext, payload)
    BY DEF BuildDefault
  <2> QED
    BY <1>1, <1>4, <2>1
<1> QED
  BY <1>2, <1>3, <1>4, <1>5

LEMMA RtpNextKeepsIt == RtpInv /\ [RtpNext]_rtpVars => RtpInv'
<1> SUFFICES ASSUME RtpInv, [RtpNext]_rtpVars PROVE RtpInv'
  OBVIOUS
<1>1. CASE (\E max \in Nat : InitBuilder(max)) \/ NewSSRC \/ DestroyBuilder
  BY <1>1, LifeKeepsRtp
<1>2. CASE \/ \E n \in Nat : SetMaximumPacketSize(n)
           \/ \E n \in Uint32 : SetDefaultTimestampIncrement(n) \/ IncrementTimestamp(n)
           \/ \E pt \in Octets, mark \in BOOLEAN : SetDefaultPayloadType(pt) \/ SetDefaultMark(mark)
  BY <1>2, SettingKeepsRtp
<1>3. CASE ClearCSRCList
  <2>1. <<>> \in {q \in Seq(Uint32) : Len(q) <= MaxCSRCs} /\ SetUp([rtpbuilder EXCEPT !.csrcs = <<>>])
    BY <1>3, Constants DEF ClearCSRCList
  <2> QED
    BY <2>1, ListKeepsIt
<1>4. CASE IncrementTimestampDefault
  <2>1. rtpbuilder.inc \in Uint32 /\ IncrementTimestamp(rtpbuilder.inc)
    BY <1>4 DEF IncrementTimestampDefault, RtpInv, RtpBuilders
  <2> QED
    BY <2>1, SettingKeepsRtp
<1>5. CASE Passes
  <2>1. /\ clock' = clock + 1 /\ rtpbuilder' = rtpbuilder /\ rtpasked' = rtpasked
        /\ wire' = wire /\ counted' = counted
    BY <1>5 DEF Passes
  <2>2. SenderKnows'
    BY <2>1, SenderStays DEF RtpInv
  <2> QED
    BY <2>1, <2>2 DEF RtpInv
<1>6. CASE \E n \in Uint32 : AddCSRC(n) \/ DeleteCSRC(n)
  BY <1>6, AddCSRCKeepsIt, DeleteCSRCKeepsIt
<1>7. CASE \E payload \in Seq(Octets) :
              \/ BuildPacketEX(payload) \/ ReceiveRtp(payload)
              \/ \E ext \in HeaderExtensions :
                    \/ BuildDefault(ext, payload)
                    \/ \E pt \in Octets, mark \in BOOLEAN, inc \in Uint32 :
                          BuildPacketWith(pt, mark, inc, ext, payload)
  BY <1>7, PacketsKeepRtp
<1>8. CASE UNCHANGED rtpVars
  <2>1. /\ clock' = clock /\ rtpbuilder' = rtpbuilder /\ rtpasked' = rtpasked
        /\ wire' = wire /\ counted' = counted
    BY <1>8 DEF rtpVars
  <2>2. SenderKnows'
    BY <2>1, SenderStays DEF RtpInv
  <2> QED
    BY <2>1, <2>2 DEF RtpInv
<1> QED
  BY <1>1, <1>2, <1>3, <1>4, <1>5, <1>6, <1>7, <1>8, Zenon DEF RtpNext

LEMMA RtpInvSaysIt == RtpInv => RtpIsRead
<1> SUFFICES ASSUME RtpInv PROVE RtpIsRead
  OBVIOUS
<1>1. rtpasked # Nothing => ReadsBack
  <2> SUFFICES ASSUME rtpasked # Nothing PROVE ReadsBack
    OBVIOUS
  <2> DEFINE sent == [rtpasked EXCEPT !.pt = @ % 128]
  <2>1. rtpasked \in Asked /\ wire = RtpBytes(rtpasked)
    BY DEF RtpInv
  <2>2. /\ Accepted(wire) <=> ~(sent.mark /\ LooksLikeRTCP(sent.pt))
        /\ ParseRawPacket(wire) = sent
    BY <2>1, RoundTrip, Zenon
  <2> QED
    BY <2>2, Zenon DEF ReadsBack
<1>2. Accepted(wire) => StaysInside
  BY Inside DEF RtpInv
<1>3. SenderInfoIsRight
  <2>1. ASSUME counted # <<>>
        PROVE  /\ rtpbuilder.lastrtptimestamp = Last(counted).stamp
               /\ rtpbuilder.lastwallclocktime = counted[Max({i \in DOMAIN counted : ReadsClock(i)})].at
    <3>1. counted \in Seq(Sent) /\ DOMAIN counted = 1 .. Len(counted) /\ Len(counted) \in Nat
      BY LenProperties DEF RtpInv, SenderKnows
    <3>2. PICK i \in 1 .. Len(counted) : /\ ReadsClock(i) /\ rtpbuilder.lastwallclocktime = counted[i].at
                                         /\ \A j \in 1 .. Len(counted) : ReadsClock(j) => j <= i
      BY <2>1 DEF RtpInv, SenderKnows
    <3> DEFINE n == Len(counted)
               s == {k \in 1 .. n : ReadsClock(k)}
    <3> HIDE DEF n
    <3>3. n \in Nat /\ i \in 1 .. n /\ i \in s /\ s \in SUBSET (1 .. n) /\ \A k \in s : k <= i
      BY <3>1, <3>2 DEF n
    <3> HIDE DEF s
    <3>4. Max(s) \in s /\ Max(s) >= i
      BY <3>3, Greatest
    <3>5. Max(s) = i
      <4> DEFINE m == Max(s)
      <4>1. m <= i /\ m \in 1 .. n /\ m >= i
        BY <3>3, <3>4
      <4> HIDE DEF m
      <4>2. m = i
        BY <3>3, <4>1
      <4> QED
        BY <4>2 DEF m
    <3>6. {k \in DOMAIN counted : ReadsClock(k)} = s
      BY <3>1 DEF s, n
    <3>7. rtpbuilder.lastrtptimestamp = Last(counted).stamp
      BY <2>1 DEF RtpInv, SenderKnows, Last
    <3> QED
      BY <3>2, <3>5, <3>6, <3>7
  <2> QED
    BY <2>1, Zenon DEF RtpInv, SenderKnows, SenderInfoIsRight
<1> QED
  BY <1>1, <1>2, <1>3 DEF RtpIsRead

(* Every packet the builder lays out is taken apart into what it holds, but  *)
(* for what BuildPacketEX lets through; what ParseRawPacket accepts of any    *)
(* datagram is inside it; and the sender report counts every packet and byte  *)
(* and has the time of the last timestamp.  For any widths of the counters,    *)
(* CSRCs, header extensions, payloads and order of calls.                      *)
THEOREM RtpSafety == RtpSpec => []RtpIsRead
<1>1. RtpSpec => []RtpInv
  BY RtpStarts, RtpNextKeepsIt, PTL DEF RtpSpec
<1> QED
  BY <1>1, RtpInvSaysIt, PTL
-----------------------------------------------------------------------------
(* RTCP packets over time.  First the folds over the sources and over the    *)
(* items, one visit at a time.                                               *)

\* g[k] is what the first k visits make.
Visits(g, a, n) == g[0] = a.base /\ \A k \in Nat : k < n => g[k + 1] = Visit(a, g[k], k + 1)

LEMMA FoldExists ==
    ASSUME NEW a, NEW n \in Nat
    PROVE  \E f : IsTurn(f, "fold", a, SUBSET (1 .. n))
<1> DEFINE P == SUBSET (1 .. n)
           m == [s \in P |-> IF s = {} THEN 0 ELSE Max(s)]
<1>1. \A s \in P : s # {} => Max(s) \in s /\ Max(s) \in 1 .. n
  BY Greatest
<1>2. \A s \in P : m[s] \in Nat
  BY <1>1
<1>3. \A f, h : \A x \in P : (\A y \in P : m[y] < m[x] => f[y] = h[y])
         => Turn("fold", a, f, x) = Turn("fold", a, h, x)
  <2> SUFFICES ASSUME NEW f, NEW h, NEW x \in P, \A y \in P : m[y] < m[x] => f[y] = h[y]
               PROVE  Turn("fold", a, f, x) = Turn("fold", a, h, x)
    BY Zenon
  <2>1. CASE x = {}
    BY <2>1 DEF Turn
  <2>2. CASE x # {}
    <3> DEFINE y == x \ {Max(x)}
    <3>1. y \in P
      OBVIOUS
    <3>2. m[y] < m[x]
      <4>1. Max(x) \in 1 .. n /\ m[x] = Max(x)
        BY <1>1, <2>2
      <4>2. CASE y = {}
        BY <4>1, <4>2
      <4>3. CASE y # {}
        <5>1. Max(y) \in y /\ m[y] = Max(y) /\ Max(y) \in 1 .. n
          BY <1>1, <3>1, <4>3
        <5>2. Max(y) \in x /\ Max(y) # Max(x)
          BY <5>1
        <5>3. Max(x) >= Max(y)
          BY <2>2, <5>2, Greatest
        <5> HIDE DEF m
        <5> QED
          BY <4>1, <5>1, <5>2, <5>3
      <4> QED
        BY <4>2, <4>3
    <3>3. f[y] = h[y]
      <4> HIDE DEF m
      <4> QED
        BY <3>1, <3>2
    <3> HIDE DEF m
    <3> QED
      BY <2>2, <3>3 DEF Turn
  <2> QED
    BY <2>1, <2>2
<1> HIDE DEF m
<1>4. Measured("fold", a, P, m)
  BY <1>2, <1>3, Zenon DEF Measured
<1> QED
  BY <1>4, Recursion, Zenon

LEMMA FoldVisits ==
    ASSUME NEW a, NEW n \in Nat, NEW f, IsTurn(f, "fold", a, SUBSET (1 .. n))
    PROVE  \E g : Visits(g, a, n) /\ g[n] = f[1 .. n]
<1> DEFINE P == SUBSET (1 .. n)
           g == [k \in Nat |-> f[1 .. k]]
<1>1. \A s \in P : f[s] = Turn("fold", a, f, s)
  BY TurnAt, Zenon
<1>2. g[0] = a.base
  <2>1. 1 .. 0 = {} /\ {} \in P
    OBVIOUS
  <2>2. f[{}] = a.base
    BY <1>1, <2>1 DEF Turn
  <2> QED
    BY <2>1, <2>2
<1>3. ASSUME NEW k \in Nat, k < n PROVE g[k + 1] = Visit(a, g[k], k + 1)
  <2> DEFINE s == 1 .. k + 1
  <2>1. s \in P /\ s # {} /\ k + 1 \in Nat /\ k + 1 \in s
    BY <1>3
  <2>2. Max(s) = k + 1
    <3>1. Max(s) \in s /\ Max(s) >= k + 1
      <4>1. s \in SUBSET (1 .. n)
        BY <2>1
      <4> HIDE DEF s
      <4> QED
        BY <2>1, <4>1, Greatest
    <3> QED
      BY <3>1
  <2>3. s \ {Max(s)} = 1 .. k
    BY <2>2
  <2>4. f[s] = Visit(a, f[s \ {Max(s)}], Max(s))
    <3> HIDE DEF s
    <3> QED
      BY <1>1, <2>1 DEF Turn
  <2>5. g[k + 1] = f[s] /\ g[k] = f[1 .. k]
    BY <2>1
  <2> HIDE DEF s, g
  <2> QED
    BY <2>2, <2>3, <2>4, <2>5
<1>4. g[n] = f[1 .. n]
  OBVIOUS
<1> HIDE DEF g
<1>5. Visits(g, a, n)
  BY <1>2, <1>3 DEF Visits
<1> QED
  BY <1>4, <1>5

\* A run of FillInReportBlocks.
StartBlocks(b, ps) ==
    [b |-> b, ps |-> ps, added |-> <<>>, skipped |-> {}, empty |-> {}, state |-> "going"]
FillRun(g, b, ps, maxcount) ==
    /\ g[0] = StartBlocks(b, ps)
    /\ \A k \in Nat : k < Len(peers) => g[k + 1] = VisitSource(g[k], peers[k + 1], maxcount)
    /\ FillInReportBlocks(b, ps, maxcount) = g[Len(peers)]

LEMMA FillRuns ==
    ASSUME NEW b, NEW ps, NEW maxcount, peers \in Seq(Peers)
    PROVE  \E g : FillRun(g, b, ps, maxcount)
<1> DEFINE n == Len(peers)
           base == StartBlocks(b, ps)
           a == [kind |-> "blocks", seq |-> peers, limit |-> maxcount, base |-> base]
           Is(f) == f = [s \in SUBSET (1 .. n) |->
                            IF s = {} THEN base
                            ELSE VisitSource(f[s \ {Max(s)}], peers[Max(s)], maxcount)]
           iter == CHOOSE f : Is(f)
<1>1. n \in Nat /\ DOMAIN peers = 1 .. n
  BY LenProperties
<1>2. FillInReportBlocks(b, ps, maxcount) = iter[1 .. n]
  BY <1>1 DEF FillInReportBlocks, FoldLeft, MapThenFoldSet, StartBlocks
<1>3. \A f : IsTurn(f, "fold", a, SUBSET (1 .. n)) <=> Is(f)
  BY DEF IsTurn, Turn, Visit
<1>4. \A acc, i : Visit(a, acc, i) = VisitSource(acc, peers[i], maxcount)
  BY DEF Visit
<1>5. a.base = base
  OBVIOUS
<1> HIDE DEF a, n
<1>6. IsTurn(iter, "fold", a, SUBSET (1 .. n))
  <2>1. \E f : IsTurn(f, "fold", a, SUBSET (1 .. n))
    BY <1>1, FoldExists, Zenon
  <2>2. \E f : Is(f)
    BY <1>3, <2>1, Zenon
  <2> HIDE DEF Is
  <2>3. Is(iter)
    BY <2>2
  <2> QED
    BY <1>3, <2>3, Zenon
<1> HIDE DEF iter
<1>7. PICK g : Visits(g, a, n) /\ g[n] = iter[1 .. n]
  BY <1>1, <1>6, FoldVisits, Zenon
<1>8. FillRun(g, b, ps, maxcount)
  BY <1>2, <1>4, <1>5, <1>7, Zenon DEF FillRun, Visits, n
<1> QED
  BY <1>8

\* A run of FillInSDES.
StartItems(b, had) == [b |-> b, done |-> had, count |-> 0, full |-> FALSE]
ItemRun(g, b, due, had) ==
    /\ g[0] = StartItems(b, had)
    /\ \A k \in Nat : k < Len(SDESItems) => g[k + 1] = VisitItem(g[k], k + 1, due)
    /\ FillInSDES(b, due, had) = g[Len(SDESItems)]

LEMMA ItemRuns ==
    ASSUME NEW b, NEW due, NEW had
    PROVE  \E g : ItemRun(g, b, due, had)
<1> DEFINE n == Len(SDESItems)
           q == [i \in DOMAIN SDESItems |-> i]
           base == StartItems(b, had)
           a == [kind |-> "items", seq |-> q, limit |-> due, base |-> base]
           Is(f) == f = [s \in SUBSET (1 .. n) |->
                            IF s = {} THEN base ELSE VisitItem(f[s \ {Max(s)}], q[Max(s)], due)]
           iter == CHOOSE f : Is(f)
<1>1. n \in Nat /\ DOMAIN SDESItems = 1 .. n /\ DOMAIN q = 1 .. n
  BY ReportsAssumption, LenProperties
<1>2. FillInSDES(b, due, had) = iter[1 .. n]
  BY <1>1 DEF FillInSDES, FoldLeft, MapThenFoldSet, StartItems
<1>3. \A f : IsTurn(f, "fold", a, SUBSET (1 .. n)) <=> Is(f)
  BY DEF IsTurn, Turn, Visit
<1>4. \A acc : \A i \in 1 .. n : Visit(a, acc, i) = VisitItem(acc, i, due)
  BY <1>1 DEF Visit
<1>5. a.base = base
  OBVIOUS
<1> HIDE DEF a, n, q
<1>6. IsTurn(iter, "fold", a, SUBSET (1 .. n))
  <2>1. \E f : IsTurn(f, "fold", a, SUBSET (1 .. n))
    BY <1>1, FoldExists, Zenon
  <2>2. \E f : Is(f)
    BY <1>3, <2>1, Zenon
  <2> HIDE DEF Is
  <2>3. Is(iter)
    BY <2>2
  <2> QED
    BY <1>3, <2>3, Zenon
<1> HIDE DEF iter
<1>7. PICK g : Visits(g, a, n) /\ g[n] = iter[1 .. n]
  BY <1>1, <1>6, FoldVisits, Zenon
<1>8. \A k \in Nat : k < n => g[k + 1] = VisitItem(g[k], k + 1, due)
  <2>1. ASSUME NEW k \in Nat, k < n PROVE g[k + 1] = VisitItem(g[k], k + 1, due)
    <3>1. k + 1 \in 1 .. n
      BY <1>1, <2>1
    <3> QED
      BY <1>4, <1>7, <2>1, <3>1 DEF Visits
  <2> QED
    BY <2>1
<1>9. ItemRun(g, b, due, had)
  BY <1>2, <1>5, <1>7, <1>8, Zenon DEF ItemRun, Visits, n
<1> QED
  BY <1>9
-----------------------------------------------------------------------------
(* The builder of a report never outgrows the packet.                        *)

Roomy(b) ==
    /\ Fitting(b) /\ b.building /\ b.report \in {"SR", "RR"} /\ b.maximum = MaxPacket
    /\ Needed(b) <= MaxPacket

LEMMA MaxPacketIs == MaxPacket \in Nat /\ MaxPacket <= MaxPackSize /\ MinPacket <= MaxPacket
<1>1. MinPacket \in Nat /\ MaxPacket \in MinPacket .. MaxPackSize
  BY CompoundAssumption, ReportsAssumption
<1>2. MaxPackSize \in Nat
  BY DEF MaxPackSize
<1> QED
  BY <1>1, <1>2

\* What is added where there is room for it.
LEMMA RoomBlock ==
    ASSUME NEW b, Roomy(b), NEW blk \in Blocks, CanAddReportBlock(b)
    PROVE  Roomy(AddReportBlock(b, blk))
<1> DEFINE c == AddReportBlock(b, blk)
           q == b.blocks
           w == Append(q, blk)
<1>1. Fitting(b) /\ b \in Builders /\ b.building /\ b.report \in {"SR", "RR"} /\ b.maximum = MaxPacket
      /\ PacketsNeed(b) + SDESNeeds(b) + ReportNeedsWithBlock(b) <= b.maximum
  BY DEF Roomy, CanAddReportBlock, Fitting
<1>2. Fitting(c)
  BY <1>1, BlockGiven
<1>3. c = [b EXCEPT !.blocks = w]
  BY DEF AddReportBlock
<1>4. q \in Seq(Blocks)
  BY <1>1, GivenFields
<1>5. w # <<>> /\ Len(w) = Len(q) + 1
  BY <1>4, AppendProperties
<1> HIDE DEF c, w
<1>6. /\ c.building = b.building /\ c.report = b.report /\ c.maximum = b.maximum /\ c.blocks = w
      /\ c.sources = b.sources /\ c.apps = b.apps /\ c.byes = b.byes
  BY <1>1, <1>3 DEF Builders
<1>7. PacketsNeed(c) = PacketsNeed(b) /\ SDESNeeds(c) = SDESNeeds(b)
  BY <1>6 DEF PacketsNeed, SDESNeeds
<1>8. ReportNeeds(c) = ReportNeedsWithBlock(b)
  BY <1>1, <1>5, <1>6 DEF ReportNeeds, ReportNeedsWithBlock, BlocksNeed, IsSR
<1>9. Needed(c) <= MaxPacket
  <2> DEFINE x == PacketsNeed(b)
             y == SDESNeeds(b)
             z == ReportNeeds(c)
  <2>1. x \in Nat /\ y \in Nat /\ z \in Nat
    <3>1. z \in Nat /\ x \in Nat
      BY <1>1, <1>2, NeedsAre
    <3>2. y \in Nat
      <4>1. /\ ChunksNeed(b.sources) \in Nat /\ SDESHeaders(Len(b.sources)) \in Nat
            /\ y = ChunksNeed(b.sources) + SDESHeaders(Len(b.sources))
        BY <1>1, NeedsAre
      <4> HIDE DEF y
      <4> QED
        BY <4>1
    <3> QED
      BY <3>1, <3>2
  <2>2. Needed(c) = x + z + y
    BY <1>7 DEF Needed
  <2>3. x + y + z <= MaxPacket
    BY <1>1, <1>8
  <2> HIDE DEF x, y, z
  <2> QED
    BY <2>1, <2>2, <2>3
<1>10. Roomy(c)
  BY <1>1, <1>2, <1>6, <1>9 DEF Roomy
<1> QED
  BY <1>10 DEF c

\* An item, also before the packet is known to have room for what it has.
LEMMA ItemRoom ==
    ASSUME NEW b, Fitting(b), b.building, b.report \in {"SR", "RR"}, b.maximum = MaxPacket,
           NEW id \in 1 .. 7, NEW n \in ByteValues, CanAddSDESNormalItem(b, n)
    PROVE  Roomy(AddSDESNormalItem(b, id, n))
<1> DEFINE c == AddSDESNormalItem(b, id, n)
<1>1. b \in Builders /\ PacketsNeed(b) + ReportNeeds(b) + SDESNeedsWithItem(b, n) <= b.maximum
  BY DEF Fitting, CanAddSDESNormalItem, CanAddItem
<1>2. Fitting(c) /\ SDESNeeds(c) = SDESNeedsWithItem(b, n)
  BY NormalGiven
<1>3. /\ c.building = b.building /\ c.report = b.report /\ c.maximum = b.maximum
      /\ c.blocks = b.blocks /\ c.apps = b.apps /\ c.byes = b.byes
  BY <1>1 DEF AddSDESNormalItem, AddItem, Builders
<1> HIDE DEF c
<1>4. PacketsNeed(c) = PacketsNeed(b) /\ ReportNeeds(c) = ReportNeeds(b)
  BY <1>3 DEF PacketsNeed, ReportNeeds, BlocksNeed, IsSR, HeaderLength
<1>5. Needed(c) <= MaxPacket
  BY <1>1, <1>2, <1>4 DEF Needed
<1>6. Roomy(c)
  BY <1>2, <1>3, <1>5 DEF Roomy
<1> QED
  BY <1>6 DEF c

LEMMA RoomItem ==
    ASSUME NEW b, Roomy(b), NEW id \in 1 .. 7, NEW n \in ByteValues, CanAddSDESNormalItem(b, n)
    PROVE  Roomy(AddSDESNormalItem(b, id, n))
  BY ItemRoom DEF Roomy

LEMMA RoomBye ==
    ASSUME NEW b, Roomy(b), NEW ssrcs \in Seq(ByteValues), NEW n \in ByteValues,
           CanAddBYEPacket(b, ssrcs, n), b.byes = <<>>
    PROVE  Roomy(AddBYEPacket(b, ssrcs, n))
<1> DEFINE c == AddBYEPacket(b, ssrcs, n)
           p == ByeBytes(ssrcs, n)
           size == ByeSize(Len(ssrcs), n)
<1>1. Fitting(b) /\ b \in Builders /\ Needed(b) + size <= MaxPacket /\ Len(ssrcs) <= 31
      /\ b.building /\ b.report \in {"SR", "RR"} /\ b.maximum = MaxPacket
  BY DEF Roomy, Fitting, CanAddBYEPacket, CanAddPacket
<1>2. Fitting(c)
  BY <1>1, ByeGiven
<1>3. Len(p) = size /\ size \in Nat /\ p \in Packets
  BY <1>1, ByeIs
<1> HIDE DEF p, size
<1>4. c = [b EXCEPT !.byes = <<p>>]
  <2>1. Append(<<>>, p) = <<p>>
    OBVIOUS
  <2> QED
    BY <2>1 DEF AddBYEPacket, p
<1> HIDE DEF c
<1>5. /\ c.building = b.building /\ c.report = b.report /\ c.maximum = b.maximum /\ c.blocks = b.blocks
      /\ c.sources = b.sources /\ c.apps = b.apps /\ c.byes = <<p>>
  BY <1>1, <1>4 DEF Builders
<1>6. ReportNeeds(c) = ReportNeeds(b) /\ SDESNeeds(c) = SDESNeeds(b)
  BY <1>5 DEF ReportNeeds, SDESNeeds, BlocksNeed, IsSR, HeaderLength
<1>7. TotalOf(Sizes(<<p>>)) = size /\ TotalOf(Sizes(<<>>)) = 0
  <2>1. Sizes(<<p>>) = <<size>>
    BY <1>3 DEF Sizes
  <2>2. Sizes(<<>>) = <<>>
    BY DEF Sizes
  <2> QED
    BY <1>3, <2>1, <2>2, TotalOne, TotalNone
<1>8. Needed(c) <= MaxPacket
  <2> DEFINE x == TotalOf(Sizes(b.apps))
             y == SDESNeeds(b)
             z == ReportNeeds(b)
  <2>1. PacketsNeed(b) = x + 0 /\ PacketsNeed(c) = x + size
    BY <1>5, <1>7 DEF PacketsNeed
  <2>2. Needed(b) = (x + 0) + z + y /\ Needed(c) = (x + size) + z + y
    BY <1>6, <2>1 DEF Needed
  <2>3. x \in Nat
    <3>1. b.apps \in Seq(Seq(ByteValues))
      BY <1>1, PacketsBytes DEF Fitting
    <3>2. Sizes(b.apps) \in Seq(Nat)
      BY <3>1, SizesAre
    <3>3. PICK g : Adds(g, Sizes(b.apps))
      BY <3>2, AddsExists
    <3> QED
      BY <3>2, <3>3, TotalIs
  <2>4. z \in Nat /\ y \in Nat
    <3>1. z \in Nat
      BY <1>1, NeedsAre
    <3>2. /\ ChunksNeed(b.sources) \in Nat /\ SDESHeaders(Len(b.sources)) \in Nat
          /\ y = ChunksNeed(b.sources) + SDESHeaders(Len(b.sources))
      BY <1>1, NeedsAre
    <3> HIDE DEF y, z
    <3> QED
      BY <3>1, <3>2
  <2> HIDE DEF x, y, z
  <2> QED
    BY <1>1, <1>3, <2>2, <2>3, <2>4
<1>9. Roomy(c)
  BY <1>1, <1>2, <1>5, <1>8 DEF Roomy
<1> QED
  BY <1>9 DEF c

\* It is laid out in no more than the session allows.
LEMMA RoomLaid ==
    ASSUME NEW b, Roomy(b)
    PROVE  Len(Layout(b)) <= MaxPacket /\ CanEndBuild(b) /\ Layout(b) \in Seq(ByteValues)
<1>1. Fitting(b) /\ b.building /\ b.report \in {"SR", "RR"} /\ Needed(b) <= MaxPacket
  BY DEF Roomy
<1>2. Gathered(b)
  BY <1>1, GivenGathered
<1>3. Len(Layout(b)) = Needed(b) /\ Layout(b) \in Seq(ByteValues)
  BY <1>1, <1>2, LayoutIs
<1>4. CanEndBuild(b)
  BY <1>1 DEF CanEndBuild
<1> QED
  BY <1>1, <1>3, <1>4
-----------------------------------------------------------------------------
(* The beginning of every packet.                                            *)

LEMMA OwnNumbers ==
    /\ Own \in ByteValues /\ CnameLength \in ByteValues /\ MaxItem \in Nat /\ MaxItem <= 255
    /\ CnameLength \in Nat /\ CNAME \in 1 .. 7
    /\ Peers \subseteq ByteValues
  BY CompoundAssumption, ReportsAssumption DEF ByteValues, CNAME

\* What is started, step by step.
LEMMA OpenedRoomy ==
    ASSUME NEW sender \in BOOLEAN, CanOpen(sender)
    PROVE  Roomy(Opened(sender))
<1> DEFINE b == InitBuild(NewBuilder, MaxPacket)
           type == IF sender THEN "SR" ELSE "RR"
           c == StartReport(b, type, Own)
           d == AddSDESSource(c, Own)
<1>1. Fitting(b) /\ b.building /\ b.maximum = MaxPacket
  <2>1. CanInitBuild(NewBuilder, MaxPacket)
    BY DEF CanOpen
  <2>2. Fitting(b)
    BY <2>1, MaxPacketIs, NewGiven, InitGiven
  <2>3. b.building /\ b.maximum = MaxPacket
    BY DEF InitBuild, NewBuilder
  <2> QED
    BY <2>2, <2>3
<1>2. c = Started(sender) /\ d = WithOwnSource(sender)
  BY DEF Started, WithOwnSource
<1>3. CanAddSDESSource(c) /\ CanAddSDESNormalItem(d, CnameLength)
  BY <1>2 DEF CanOpen
<1> HIDE DEF b
<1>4. Fitting(c) /\ c.building /\ c.maximum = MaxPacket /\ c.report = type
  <2>1. Fitting(c)
    BY <1>1, OwnNumbers, StartGiven
  <2>2. b \in Builders
    BY <1>1 DEF Fitting
  <2>3. c.building = b.building /\ c.maximum = b.maximum /\ c.report = type
    BY <2>2 DEF StartReport, Builders
  <2> QED
    BY <1>1, <2>1, <2>3
<1> HIDE DEF c
<1>5. Fitting(d) /\ d.building /\ d.maximum = MaxPacket /\ d.report = type
  <2>1. Fitting(d)
    BY <1>3, <1>4, OwnNumbers, SourceGiven
  <2>2. c \in Builders
    BY <1>4 DEF Fitting
  <2>3. d.building = c.building /\ d.maximum = c.maximum /\ d.report = c.report
    BY <2>2 DEF AddSDESSource, Builders
  <2> QED
    BY <1>4, <2>1, <2>3
<1> HIDE DEF d
<1>6. Roomy(AddSDESNormalItem(d, CNAME, CnameLength))
  BY <1>3, <1>5, OwnNumbers, ItemRoom
<1> QED
  BY <1>2, <1>6 DEF Opened

\* What is in it.
LEMMA OpenedIs ==
    ASSUME NEW sender \in BOOLEAN
    PROVE  LET b == Opened(sender)
           IN  /\ b.building = TRUE /\ b.maximum = MaxPacket /\ b.report = IF sender THEN "SR" ELSE "RR"
               /\ b.blocks = <<>> /\ b.apps = <<>> /\ b.byes = <<>>
               /\ \E x : b.sources = <<[ssrc |-> Own, items |-> <<x>>]>>
                         /\ x \in Seq(ByteValues) /\ Len(x) = 2 + CnameLength
<1> DEFINE type == IF sender THEN "SR" ELSE "RR"
           c == Started(sender)
           d == WithOwnSource(sender)
           e == Opened(sender)
           x == <<CNAME, CnameLength>> \o Fill(CNAME, CnameLength)
           s == [ssrc |-> Own, items |-> <<>>]
           t == [ssrc |-> Own, items |-> <<x>>]
<1>1. /\ c.building = TRUE /\ c.maximum = MaxPacket /\ c.report = type /\ c.blocks = <<>>
      /\ c.apps = <<>> /\ c.byes = <<>> /\ c.sources = <<>>
      /\ DOMAIN c = {"building", "maximum", "report", "ssrc", "blocks", "sources", "apps", "byes", "packet"}
  BY DEF Started, StartReport, InitBuild, NewBuilder
<1> HIDE DEF c
<1>2. /\ d.building = TRUE /\ d.maximum = MaxPacket /\ d.report = type /\ d.blocks = <<>>
      /\ d.apps = <<>> /\ d.byes = <<>> /\ d.sources = <<s>>
      /\ DOMAIN d = {"building", "maximum", "report", "ssrc", "blocks", "sources", "apps", "byes", "packet"}
  <2>1. d = [c EXCEPT !.sources = Append(@, s)]
    BY DEF WithOwnSource, AddSDESSource, c
  <2>2. Append(<<>>, s) = <<s>>
    OBVIOUS
  <2> HIDE DEF s, d
  <2> QED
    BY <1>1, <2>1, <2>2
<1> HIDE DEF d
<1>3. Append(<<>>, x) = <<x>>
  OBVIOUS
<1>4. e = [d EXCEPT !.sources[Len(d.sources)].items = Append(@, x)]
  BY DEF Opened, AddSDESNormalItem, AddItem, d
<1>5. x \in Seq(ByteValues) /\ Len(x) = 2 + CnameLength
  <2> DEFINE h == <<CNAME, CnameLength>>
             f == Fill(CNAME, CnameLength)
  <2>1. h \in Seq(ByteValues) /\ Len(h) = 2
    BY OwnNumbers DEF CNAME, ByteValues
  <2>2. f \in Seq(ByteValues) /\ Len(f) = CnameLength
    BY OwnNumbers DEF CNAME, ByteValues, Fill
  <2> HIDE DEF h, f
  <2>3. h \o f \in Seq(ByteValues) /\ Len(h \o f) = Len(h) + Len(f)
    BY <2>1, <2>2, ConcatProperties
  <2> QED
    BY <2>1, <2>2, <2>3 DEF h, f
<1> HIDE DEF x
<1>6. [<<s>> EXCEPT ![1].items = Append(@, x)] = <<t>>
  BY <1>3
<1>7. Len(<<s>>) = 1
  OBVIOUS
<1> HIDE DEF s, e
<1>8. /\ e.building = TRUE /\ e.maximum = MaxPacket /\ e.report = type /\ e.blocks = <<>>
      /\ e.apps = <<>> /\ e.byes = <<>> /\ e.sources = [<<s>> EXCEPT ![1].items = Append(@, x)]
  BY <1>2, <1>4, <1>7
<1>9. e.sources = <<t>>
  BY <1>6, <1>8
<1> QED
  BY <1>5, <1>8, <1>9 DEF e

\* There is room for an item, and for a block.
LEMMA OpenedTakes ==
    ASSUME NEW sender \in BOOLEAN
    PROVE  /\ \A l \in 0 .. MaxItem : CanAddSDESNormalItem(Opened(sender), l)
           /\ CanAddReportBlock(Opened(sender))
<1> DEFINE b == Opened(sender)
           C == CnameLength
<1>1. /\ b.building = TRUE /\ b.maximum = MaxPacket /\ b.report = (IF sender THEN "SR" ELSE "RR")
      /\ b.blocks = <<>> /\ b.apps = <<>> /\ b.byes = <<>>
  BY OpenedIs
<1>2. PICK x : /\ b.sources = <<[ssrc |-> Own, items |-> <<x>>]>>
               /\ x \in Seq(ByteValues) /\ Len(x) = 2 + C
  BY OpenedIs
<1> DEFINE s == [ssrc |-> Own, items |-> <<x>>]
           q == <<s>>
<1>3. b.sources = q /\ Len(q) = 1 /\ Last(q) = s /\ Front(q) = <<>> /\ q # <<>>
  <2>1. Front(q) = <<>>
    <3>1. Len(q) = 1 /\ 1 - 1 < 1
      OBVIOUS
    <3> HIDE DEF q
    <3>2. SubSeq(q, 1, 1 - 1) = <<>>
      BY <3>1, SubSeqEmpty
    <3> QED
      BY <3>1, <3>2 DEF Front
  <2> QED
    BY <1>2, <2>1 DEF Last
<1>4. ItemsSize(s) = 2 + C
  <2>1. Sizes(<<x>>) = <<2 + C>>
    BY <1>2 DEF Sizes
  <2>2. 2 + C \in Nat
    BY OwnNumbers
  <2> DEFINE m == 2 + C
  <2> HIDE DEF m
  <2>3. TotalOf(<<m>>) = m
    BY <2>2, TotalOne DEF m
  <2>4. ItemsSize(s) = TotalOf(Sizes(<<x>>))
    BY DEF ItemsSize
  <2> QED
    BY <2>1, <2>3, <2>4 DEF m
<1> HIDE DEF s
<1>5. [i \in DOMAIN q |-> ChunkNeeds(ItemsSize(q[i]))] = <<ChunkNeeds(2 + C)>>
  BY <1>4
<1>6. ASSUME NEW n \in Nat PROVE ChunkNeeds(n) \in Nat
  BY DEF ChunkNeeds, RoundUp, Ceil, SSRC
<1>7. ChunksNeed(q) = ChunkNeeds(2 + C) /\ ChunksNeed(<<>>) = 0
  <2>1. 2 + C \in Nat
    BY OwnNumbers
  <2> DEFINE m == ChunkNeeds(2 + C)
  <2>2. m \in Nat
    BY <1>6, <2>1
  <2> HIDE DEF m
  <2>3. TotalOf(<<m>>) = m
    BY <2>2, TotalOne
  <2>4. [i \in DOMAIN <<>> |-> ChunkNeeds(ItemsSize(<<>>[i]))] = <<>>
    OBVIOUS
  <2>5. ChunksNeed(q) = TotalOf(<<m>>)
    BY <1>5 DEF ChunksNeed, m
  <2>6. ChunksNeed(<<>>) = 0
    BY <2>4, TotalNone DEF ChunksNeed
  <2> QED
    BY <2>3, <2>5, <2>6 DEF m
<1>8. SDESHeaders(1) = 4 /\ Ceil(1, MaxCount) = 1 /\ Ceil(0 + 1, MaxCount) = 1
  <2>1. PICK m \in Nat : m = MaxCount /\ m >= 1
    BY CompoundAssumption
  <2>2. (1 + m - 1) \div m = 1 /\ 0 + 1 = 1
    BY <2>1, SMT
  <2>3. Ceil(1, MaxCount) = 1
    BY <2>1, <2>2 DEF Ceil
  <2> QED
    BY <2>2, <2>3 DEF SDESHeaders, Header
<1> HIDE DEF q
<1>9. PacketsNeed(b) = 0
  <2>1. Sizes(<<>>) = <<>>
    BY DEF Sizes
  <2> QED
    BY <1>1, <2>1, TotalNone DEF PacketsNeed
<1>10. ReportNeeds(b) \in Nat /\ ReportNeeds(b) <= 28
  BY <1>1 DEF ReportNeeds, Header, HeaderLength, SSRC, SenderReport
<1>11. MaxPacket \in Nat /\ C \in Nat /\ MaxItem \in Nat
  BY MaxPacketIs, OwnNumbers
<1>12. ASSUME NEW l \in 0 .. MaxItem PROVE CanAddSDESNormalItem(b, l)
  <2>1. SDESNeedsWithItem(b, l) = 0 + ChunkNeeds(2 + C + 2 + l) + 4
    BY <1>3, <1>4, <1>7, <1>8 DEF SDESNeedsWithItem, SDESHeader
  <2>2. l \in Nat /\ l <= MaxItem
    BY <1>11
  <2>3. ChunkNeeds(2 + C + 2 + l) <= ChunkNeeds(4 + C + MaxItem)
    <3>1. ASSUME NEW m \in Nat, NEW n \in Nat, m <= n PROVE ChunkNeeds(m) <= ChunkNeeds(n)
      BY <3>1, SMT DEF ChunkNeeds, RoundUp, Ceil, SSRC
    <3>2. 2 + C + 2 + l \in Nat /\ 4 + C + MaxItem \in Nat /\ 2 + C + 2 + l <= 4 + C + MaxItem
      BY <1>11, <2>2
    <3> QED
      BY <3>1, <3>2
  <2>4. 32 + ChunkNeeds(4 + C + MaxItem) <= MaxPacket
    <3>1. Header + SSRC + SenderReport + Header + ChunkNeeds(2 * SDESHeader + C + MaxItem) <= MaxPacket
      BY RoomAssumption
    <3>2. Header + SSRC + SenderReport + Header = 32 /\ 2 * SDESHeader = 4
      BY DEF Header, SSRC, SenderReport, SDESHeader
    <3> QED
      BY <3>1, <3>2
  <2>5. ChunkNeeds(2 + C + 2 + l) \in Nat /\ ChunkNeeds(4 + C + MaxItem) \in Nat
    <3>1. 2 + C + 2 + l \in Nat /\ 4 + C + MaxItem \in Nat
      BY <1>11, <2>2
    <3> QED
      BY <1>6, <3>1
  <2> DEFINE u == ChunkNeeds(2 + C + 2 + l)
             v == ChunkNeeds(4 + C + MaxItem)
             r == ReportNeeds(b)
  <2>6. 0 + r + (0 + u + 4) <= MaxPacket
    <3>1. u <= v /\ 32 + v <= MaxPacket /\ u \in Nat /\ v \in Nat /\ r \in Nat /\ r <= 28
      BY <1>10, <2>3, <2>4, <2>5
    <3> HIDE DEF u, v, r
    <3> QED
      BY <1>11, <3>1
  <2> QED
    BY <1>1, <1>3, <1>9, <2>1, <2>6 DEF CanAddSDESNormalItem, CanAddItem
<1>13. CanAddReportBlock(b)
  <2>1. ReportNeedsWithBlock(b) <= 52 /\ ReportNeedsWithBlock(b) \in Nat
    <3>1. Len(<<>>) = 0
      OBVIOUS
    <3>2. ReportNeedsWithBlock(b) = BlocksNeed(b, 0 + 1)
      BY <1>1, <3>1 DEF ReportNeedsWithBlock
    <3>3. BlocksNeed(b, 0 + 1) = (0 + 1) * 24 + 1 * 8 + IF IsSR(b) THEN 20 ELSE 0
      BY <1>8 DEF BlocksNeed, ReceiverReport, Header, SSRC, SenderReport
    <3> QED
      BY <3>2, <3>3
  <2>2. SDESNeeds(b) = ChunkNeeds(2 + C) + 4
    BY <1>3, <1>7, <1>8 DEF SDESNeeds
  <2>3. 56 + ChunkNeeds(2 + C) <= MaxPacket
    <3>1. Header + SSRC + SenderReport + ReceiverReport + Header + ChunkNeeds(SDESHeader + C) <= MaxPacket
      BY RoomAssumption
    <3>2. Header + SSRC + SenderReport + ReceiverReport + Header = 56 /\ SDESHeader = 2
      BY DEF Header, SSRC, SenderReport, SDESHeader, ReceiverReport
    <3> QED
      BY <3>1, <3>2
  <2>4. ChunkNeeds(2 + C) \in Nat
    <3>1. 2 + C \in Nat
      BY <1>11
    <3> QED
      BY <1>6, <3>1
  <2> DEFINE u == ChunkNeeds(2 + C)
             r == ReportNeedsWithBlock(b)
  <2>5. 0 + (u + 4) + r <= MaxPacket
    <3>1. 56 + u <= MaxPacket /\ u \in Nat /\ r \in Nat /\ r <= 52
      BY <2>1, <2>3, <2>4
    <3> HIDE DEF u, r
    <3> QED
      BY <1>11, <3>1
  <2> QED
    BY <1>1, <1>9, <2>2, <2>5 DEF CanAddReportBlock
<1> QED
  BY <1>12, <1>13
-----------------------------------------------------------------------------
(* What a run over the sources does, after each visit.                       *)

PeerRecords == [sent : BOOLEAN, fresh : BOOLEAN, csrc : BOOLEAN, processed : BOOLEAN,
                num : 0 .. MaxRtp, waits : Nat]

Fills == [b : Builders, ps : [Peers -> PeerRecords], added : Seq(Peers), skipped : SUBSET Peers,
          empty : SUBSET Peers, state : {"going", "full", "enough"}]

\* r, as a run leaves it, is still about what s was about.
SameSource(r, s) == r.sent = s.sent /\ r.csrc = s.csrc /\ r.fresh = s.fresh

\* A source is added or left alone, and only one that was due and not processed yet is added.
Visited(acc, ps) ==
    \A p \in Peers :
        /\ SameSource(acc.ps[p], ps[p])
        /\ p \in ToSet(acc.added) =>
              ShouldProcess(ps[p]) /\ ~ps[p].processed /\ acc.ps[p].processed
        /\ p \notin ToSet(acc.added) => acc.ps[p] = ps[p]
        /\ p \in acc.empty => p \in ToSet(acc.added) /\ ps[p].num = 0

\* Nothing due is left behind by a run that goes on.
NoneLeft(acc, ps, k) ==
    acc.state = "going" =>
        \A i \in 1 .. k : ShouldProcess(ps[peers[i]]) =>
            /\ acc.ps[peers[i]].processed
            /\ ps[peers[i]].processed => peers[i] \in acc.skipped

Filling(acc, b, ps, maxcount, k) ==
    /\ acc \in Fills /\ Roomy(acc.b)
    /\ Visited(acc, ps) /\ NoneLeft(acc, ps, k)
    /\ Len(acc.added) <= k
    /\ acc.added = <<>> => acc.b = b
    /\ acc.state = "full" => ~CanAddReportBlock(acc.b)
    /\ acc.state = "enough" => Len(acc.added) >= maxcount /\ acc.added # <<>>

LEMMA SameDue ==
    ASSUME NEW r, NEW s, SameSource(r, s)
    PROVE  ShouldProcess(r) <=> ShouldProcess(s)
  BY DEF SameSource, ShouldProcess

LEMMA FillStart ==
    ASSUME NEW b, Roomy(b), NEW ps \in [Peers -> PeerRecords], NEW maxcount
    PROVE  Filling(StartBlocks(b, ps), b, ps, maxcount, 0)
<1> DEFINE acc == StartBlocks(b, ps)
<1>1. b \in Builders
  BY DEF Roomy, Fitting
<1>2. /\ acc.b = b /\ acc.ps = ps /\ acc.added = <<>> /\ acc.skipped = {} /\ acc.empty = {}
      /\ acc.state = "going"
  BY DEF StartBlocks
<1>3. acc \in Fills
  <2>1. <<>> \in Seq(Peers)
    BY EmptySeq
  <2> HIDE DEF Roomy
  <2> QED
    BY <1>1, <2>1 DEF Fills, StartBlocks
<1> HIDE DEF acc
<1>4. ToSet(acc.added) = {}
  BY <1>2 DEF ToSet
<1>5. Visited(acc, ps)
  BY <1>2, <1>4 DEF Visited, SameSource
<1>6. NoneLeft(acc, ps, 0)
  BY DEF NoneLeft
<1>7. Len(acc.added) = 0
  BY <1>2, EmptySeq
<1> QED
  BY <1>2, <1>3, <1>5, <1>6, <1>7 DEF Filling, acc

LEMMA ToSetAppend ==
    ASSUME NEW S, NEW q \in Seq(S), NEW p \in S
    PROVE  Append(q, p) \in Seq(S) /\ Len(Append(q, p)) = Len(q) + 1
           /\ ToSet(Append(q, p)) = ToSet(q) \cup {p} /\ Append(q, p) # <<>>
<1> DEFINE w == Append(q, p)
           n == Len(q)
<1>1. w \in Seq(S) /\ Len(w) = n + 1 /\ w[n + 1] = p /\ \A i \in 1 .. n : w[i] = q[i]
  BY AppendProperties
<1>2. n \in Nat /\ DOMAIN q = 1 .. n /\ DOMAIN w = 1 .. n + 1
  BY <1>1, LenProperties
<1> HIDE DEF w, n
<1>3. ToSet(w) = ToSet(q) \cup {p}
  <2>1. ASSUME NEW x \in ToSet(w) PROVE x \in ToSet(q) \cup {p}
    <3>1. PICK i \in 1 .. n + 1 : x = w[i]
      BY <1>2, <2>1 DEF ToSet
    <3>2. CASE i = n + 1
      BY <1>1, <3>1, <3>2
    <3>3. CASE i # n + 1
      <4>1. i \in 1 .. n
        BY <1>2, <3>3
      <4> QED
        BY <1>1, <1>2, <3>1, <4>1 DEF ToSet
    <3> QED
      BY <3>2, <3>3
  <2>2. ASSUME NEW x \in ToSet(q) PROVE x \in ToSet(w)
    <3>1. PICK i \in 1 .. n : x = q[i]
      BY <1>2, <2>2 DEF ToSet
    <3>2. i \in 1 .. n + 1 /\ w[i] = x
      BY <1>1, <1>2, <3>1
    <3> QED
      BY <1>2, <3>2 DEF ToSet
  <2>3. p \in ToSet(w)
    <3>1. n + 1 \in 1 .. n + 1
      BY <1>2
    <3> QED
      BY <1>1, <1>2, <3>1 DEF ToSet
  <2> QED
    BY <2>1, <2>2, <2>3
<1>4. w # <<>>
  <2>1. Len(w) # 0
    BY <1>1, <1>2
  <2> QED
    BY <2>1, EmptySeq
<1> QED
  BY <1>1, <1>3, <1>4 DEF w, n

LEMMA FillAdds ==
    ASSUME NEW acc, NEW b, NEW ps \in [Peers -> PeerRecords], NEW maxcount \in Nat, NEW k \in Nat,
           Filling(acc, b, ps, maxcount, k),
           peers \in Seq(Peers), k < Len(peers),
           acc.state = "going", ShouldProcess(acc.ps[peers[k + 1]]),
           ~acc.ps[peers[k + 1]].processed, CanAddReportBlock(acc.b)
    PROVE  Filling(VisitSource(acc, peers[k + 1], maxcount), b, ps, maxcount, k + 1)
<1> DEFINE p == peers[k + 1]
           r == acc.ps[p]
           c == AddReportBlock(acc.b, [ssrc |-> p, lost |-> 0])
           w == Append(acc.added, p)
           e == IF r.num = 0 THEN acc.empty \cup {p} ELSE acc.empty
           rn == [r EXCEPT !.num = 0, !.processed = TRUE]
           psn == [acc.ps EXCEPT ![p] = rn]
           st == IF Len(acc.added) + 1 >= maxcount THEN "enough" ELSE acc.state
           new == [acc EXCEPT !.b = c, !.added = w, !.empty = e, !.ps = psn, !.state = st]
<1>1. acc \in Fills /\ Roomy(acc.b) /\ Visited(acc, ps) /\ NoneLeft(acc, ps, k) /\ Len(acc.added) <= k
  BY DEF Filling
<1>2. k + 1 \in 1 .. Len(peers) /\ p \in Peers
  <2>1. Len(peers) \in Nat
    BY LenProperties
  <2>2. k + 1 \in 1 .. Len(peers)
    BY <2>1
  <2> QED
    BY <2>2, ElementOfSeq
<1>3. acc.ps \in [Peers -> PeerRecords] /\ acc.added \in Seq(Peers) /\ acc.empty \subseteq Peers
      /\ acc.skipped \subseteq Peers
  BY <1>1 DEF Fills
<1>4. r \in PeerRecords
  BY <1>2, <1>3
<1>5. VisitSource(acc, p, maxcount) = new
  <2> HIDE DEF c, w, p
  <2>1. acc.state = "going" /\ ShouldProcess(r) /\ ~r.processed /\ CanAddReportBlock(acc.b)
    BY DEF p
  <2> QED
    BY <2>1 DEF VisitSource, c, w
<1>6. Roomy(c)
  <2> DEFINE blk == [ssrc |-> p, lost |-> 0]
  <2>1. blk \in Blocks
    <3>1. p \in ByteValues
      BY <1>2, OwnNumbers, Zenon
    <3> HIDE DEF p
    <3> QED
      BY <3>1 DEF Blocks
  <2> HIDE DEF blk
  <2> QED
    BY <1>1, <2>1, RoomBlock DEF c, blk
<1>7. w \in Seq(Peers) /\ Len(w) = Len(acc.added) + 1 /\ ToSet(w) = ToSet(acc.added) \cup {p}
      /\ w # <<>>
  BY <1>2, <1>3, ToSetAppend
<1>8. rn \in PeerRecords
  <2> HIDE DEF r
  <2>1. 0 \in 0 .. MaxRtp
    BY ReportsAssumption
  <2>2. [r EXCEPT !.num = 0] \in PeerRecords
    BY <1>4, <2>1 DEF PeerRecords
  <2>3. rn = [[r EXCEPT !.num = 0] EXCEPT !.processed = TRUE]
    BY <1>4 DEF PeerRecords
  <2> HIDE DEF rn
  <2> DEFINE z == [r EXCEPT !.num = 0]
  <2> HIDE DEF z
  <2>4. [z EXCEPT !.processed = TRUE] \in PeerRecords
    BY <2>2 DEF PeerRecords, z
  <2> QED
    BY <2>3, <2>4 DEF z
<1>9. SameSource(rn, r) /\ rn.processed /\ rn.num = 0
  <2> HIDE DEF r
  <2> QED
    BY <1>4 DEF PeerRecords, SameSource
<1>10. psn \in [Peers -> PeerRecords] /\ psn[p] = rn /\ \A q \in Peers : q # p => psn[q] = acc.ps[q]
  <2> HIDE DEF rn
  <2> QED
    BY <1>2, <1>3, <1>8
<1>11. e \subseteq Peers /\ (\A q \in e : q \in acc.empty \/ (q = p /\ r.num = 0))
  BY <1>2, <1>3
<1>12. st \in {"going", "full", "enough"} /\ st # "full"
       /\ (st = "enough" => Len(acc.added) + 1 >= maxcount)
  OBVIOUS
<1>13. p \notin ToSet(acc.added) /\ r = ps[p] /\ ShouldProcess(ps[p]) /\ ~ps[p].processed
  <2>1. p \notin ToSet(acc.added)
    BY <1>1, <1>2 DEF Visited
  <2>2. r = ps[p]
    BY <1>1, <1>2, <2>1 DEF Visited
  <2> QED
    BY <2>1, <2>2
<1>14. Len(acc.added) \in Nat
  BY <1>3, LenProperties
<1>0. acc.state = "going" /\ VisitSource(acc, peers[k + 1], maxcount) = VisitSource(acc, p, maxcount)
  OBVIOUS
<1>p. p = peers[k + 1]
  OBVIOUS
<1> HIDE DEF p, r, c, w, e, rn, psn, st
<1>15. new \in Fills
  <2>1. c \in Builders
    BY <1>6 DEF Roomy, Fitting
  <2> QED
    BY <1>1, <1>7, <1>10, <1>11, <1>12, <2>1 DEF Fills
<1>16. /\ new.b = c /\ new.ps = psn /\ new.added = w /\ new.empty = e /\ new.state = st
       /\ new.skipped = acc.skipped
  BY <1>1 DEF Fills
<1> HIDE DEF new
<1>17. Visited(new, ps)
  <2> SUFFICES ASSUME NEW q \in Peers
               PROVE  /\ SameSource(psn[q], ps[q])
                      /\ q \in ToSet(w) => ShouldProcess(ps[q]) /\ ~ps[q].processed /\ psn[q].processed
                      /\ q \notin ToSet(w) => psn[q] = ps[q]
                      /\ q \in e => q \in ToSet(w) /\ ps[q].num = 0
    BY <1>16, Zenon DEF Visited
  <2>1. CASE q = p
    <3>1. SameSource(psn[q], ps[q]) /\ psn[q].processed
      BY <1>9, <1>10, <1>13, <2>1
    <3>2. q \in ToSet(w)
      BY <1>7, <2>1
    <3>3. q \in e => ps[q].num = 0
      <4>1. q \notin acc.empty
        BY <1>1, <1>2, <1>13, <2>1 DEF Visited
      <4> QED
        BY <1>11, <1>13, <2>1, <4>1
    <3> QED
      BY <1>13, <2>1, <3>1, <3>2, <3>3
  <2>2. CASE q # p
    <3>1. psn[q] = acc.ps[q] /\ (q \in ToSet(w) <=> q \in ToSet(acc.added)) /\ (q \in e => q \in acc.empty)
      BY <1>7, <1>10, <1>11, <2>2
    <3>2. /\ SameSource(acc.ps[q], ps[q])
          /\ q \in ToSet(acc.added) => ShouldProcess(ps[q]) /\ ~ps[q].processed /\ acc.ps[q].processed
          /\ q \notin ToSet(acc.added) => acc.ps[q] = ps[q]
          /\ q \in acc.empty => q \in ToSet(acc.added) /\ ps[q].num = 0
      BY <1>1, Zenon DEF Visited
    <3> QED
      BY <3>1, <3>2
  <2> QED
    BY <2>1, <2>2
<1>18. NoneLeft(new, ps, k + 1)
  <2> SUFFICES ASSUME st = "going", NEW i \in 1 .. k + 1, ShouldProcess(ps[peers[i]])
               PROVE  /\ psn[peers[i]].processed
                      /\ ps[peers[i]].processed => peers[i] \in acc.skipped
    BY <1>16, Zenon DEF NoneLeft
  <2>1. CASE i = k + 1
    BY <1>9, <1>10, <1>13, <2>1, <1>p
  <2>2. CASE i # k + 1
    <3>1. i \in 1 .. k /\ i \in 1 .. Len(peers)
      BY <1>2, <2>2
    <3>2. peers[i] \in Peers
      BY <3>1, ElementOfSeq
    <3>3. acc.ps[peers[i]].processed /\ (ps[peers[i]].processed => peers[i] \in acc.skipped)
      BY <1>0, <1>1, <3>1 DEF NoneLeft
    <3>4. peers[i] = p => psn[peers[i]].processed
      BY <1>9, <1>10
    <3> QED
      BY <1>10, <3>2, <3>3, <3>4
  <2> QED
    BY <2>1, <2>2
<1>19. Filling(new, b, ps, maxcount, k + 1)
  <2>1. Len(w) <= k + 1
    BY <1>1, <1>7, <1>14
  <2>2. st = "enough" => Len(w) >= maxcount
    BY <1>7, <1>12
  <2> QED
    BY <1>6, <1>7, <1>12, <1>15, <1>16, <1>17, <1>18, <2>1, <2>2 DEF Filling
<1> QED
  BY <1>0, <1>5, <1>19, Zenon

LEMMA FillVisit ==
    ASSUME NEW acc, NEW b, NEW ps \in [Peers -> PeerRecords], NEW maxcount \in Nat, NEW k \in Nat,
           Filling(acc, b, ps, maxcount, k), peers \in Seq(Peers), k < Len(peers)
    PROVE  Filling(VisitSource(acc, peers[k + 1], maxcount), b, ps, maxcount, k + 1)
<1> DEFINE p == peers[k + 1]
           r == acc.ps[p]
<1>1. acc \in Fills /\ Roomy(acc.b) /\ Visited(acc, ps) /\ NoneLeft(acc, ps, k) /\ Len(acc.added) <= k
      /\ Len(acc.added) \in Nat
  <2>1. acc \in Fills
    BY DEF Filling
  <2>2. acc.added \in Seq(Peers)
    BY <2>1 DEF Fills
  <2> QED
    BY <2>1, <2>2, LenProperties DEF Filling
<1>2. k + 1 \in 1 .. Len(peers) /\ p \in Peers
  <2>1. Len(peers) \in Nat
    BY LenProperties
  <2>2. k + 1 \in 1 .. Len(peers)
    BY <2>1
  <2> QED
    BY <2>2, ElementOfSeq
<1>3. SameSource(r, ps[p])
  BY <1>1, <1>2 DEF Visited
<1>4. \A i \in 1 .. k + 1 : i \in 1 .. k \/ i = k + 1
  OBVIOUS
<1>5. CASE acc.state # "going" \/ ~ShouldProcess(r)
  <2>1. VisitSource(acc, p, maxcount) = acc
    BY <1>5 DEF VisitSource
  <2>2. NoneLeft(acc, ps, k + 1)
    <3>1. ASSUME acc.state = "going" PROVE ~ShouldProcess(ps[p])
      BY <1>3, <1>5, <3>1, SameDue
    <3> QED
      BY <1>1, <1>4, <3>1 DEF NoneLeft
  <2>3. Len(acc.added) <= k + 1
    BY <1>1
  <2>4. Filling(acc, b, ps, maxcount, k + 1)
    BY <1>1, <2>2, <2>3 DEF Filling
  <2> QED
    BY <2>1, <2>4
<1>6. CASE acc.state = "going" /\ ShouldProcess(r) /\ r.processed
  <2> DEFINE s == acc.skipped \cup {p}
             new == [acc EXCEPT !.skipped = s]
  <2>1. VisitSource(acc, p, maxcount) = new
    BY <1>6 DEF VisitSource
  <2>2. s \subseteq Peers /\ p \in s /\ acc.skipped \subseteq s
    BY <1>1, <1>2 DEF Fills
  <2> HIDE DEF s
  <2>3. new \in Fills
    BY <1>1, <2>2 DEF Fills
  <2>4. /\ new.b = acc.b /\ new.ps = acc.ps /\ new.added = acc.added /\ new.empty = acc.empty
        /\ new.state = "going" /\ new.skipped = s
    BY <1>1, <1>6 DEF Fills
  <2> HIDE DEF new
  <2>5. Visited(new, ps)
    BY <1>1, <2>4 DEF Visited
  <2>6. NoneLeft(new, ps, k + 1)
    <3> SUFFICES ASSUME NEW i \in 1 .. k + 1, ShouldProcess(ps[peers[i]])
                 PROVE  /\ acc.ps[peers[i]].processed
                        /\ ps[peers[i]].processed => peers[i] \in s
      BY <2>4, Zenon DEF NoneLeft
    <3>1. CASE i = k + 1
      BY <1>6, <2>2, <3>1
    <3>2. CASE i \in 1 .. k
      BY <1>1, <1>6, <2>2, <3>2 DEF NoneLeft
    <3> QED
      BY <1>4, <3>1, <3>2
  <2>7. Filling(new, b, ps, maxcount, k + 1)
    BY <1>1, <2>3, <2>4, <2>5, <2>6 DEF Filling
  <2> QED
    BY <2>1, <2>7
<1>7. CASE acc.state = "going" /\ ShouldProcess(r) /\ ~r.processed /\ ~CanAddReportBlock(acc.b)
  <2> DEFINE new == [acc EXCEPT !.state = "full"]
  <2>1. VisitSource(acc, p, maxcount) = new
    BY <1>7 DEF VisitSource
  <2>3. new \in Fills
    BY <1>1 DEF Fills
  <2>4. /\ new.b = acc.b /\ new.ps = acc.ps /\ new.added = acc.added /\ new.empty = acc.empty
        /\ new.state = "full" /\ new.skipped = acc.skipped
    BY <1>1 DEF Fills
  <2> HIDE DEF new
  <2>5. Visited(new, ps)
    BY <1>1, <2>4 DEF Visited
  <2>6. NoneLeft(new, ps, k + 1)
    BY <2>4 DEF NoneLeft
  <2>7. Filling(new, b, ps, maxcount, k + 1)
    BY <1>1, <1>7, <2>3, <2>4, <2>5, <2>6 DEF Filling
  <2> QED
    BY <2>1, <2>7
<1>8. CASE acc.state = "going" /\ ShouldProcess(r) /\ ~r.processed /\ CanAddReportBlock(acc.b)
  BY <1>8, FillAdds
<1> QED
  BY <1>5, <1>6, <1>7, <1>8

\* What a whole run leaves.
LEMMA FillEnd ==
    ASSUME NEW b, Roomy(b), NEW ps \in [Peers -> PeerRecords], NEW maxcount \in Nat,
           peers \in Seq(Peers)
    PROVE  Filling(FillInReportBlocks(b, ps, maxcount), b, ps, maxcount, Len(peers))
<1> DEFINE n == Len(peers)
<1>1. PICK g : FillRun(g, b, ps, maxcount)
  BY FillRuns, Zenon
<1>2. n \in Nat
  BY LenProperties
<1> DEFINE R(k) == k <= n => Filling(g[k], b, ps, maxcount, k)
           S == {k \in Nat : R(k)}
<1>3. R(0)
  BY <1>1, FillStart, Zenon DEF FillRun
<1>4. ASSUME NEW k \in Nat, R(k) PROVE R(k + 1)
  <2> SUFFICES ASSUME k + 1 <= n PROVE Filling(g[k + 1], b, ps, maxcount, k + 1)
    OBVIOUS
  <2>1. k < n /\ k <= n
    BY <1>2
  <2>2. Filling(g[k], b, ps, maxcount, k)
    BY <1>4, <2>1
  <2>3. g[k + 1] = VisitSource(g[k], peers[k + 1], maxcount)
    BY <1>1, <2>1, Zenon DEF FillRun
  <2>4. Filling(VisitSource(g[k], peers[k + 1], maxcount), b, ps, maxcount, k + 1)
    BY <2>1, <2>2, FillVisit
  <2> QED
    BY <2>3, <2>4, Zenon
<1> HIDE DEF R
<1>5. Nat \subseteq S
  <2>1. 0 \in S
    BY <1>3
  <2>2. \A k \in Nat : k \in S => k + 1 \in S
    BY <1>4
  <2> HIDE DEF S
  <2> QED
    BY <2>1, <2>2, Counting, Zenon
<1>6. R(n) /\ n <= n
  BY <1>2, <1>5
<1> QED
  BY <1>1, <1>6, Zenon DEF R, FillRun
-----------------------------------------------------------------------------
(* A run over the items, after each visit.                                   *)

Collects == [b : Builders, done : SUBSET DOMAIN SDESItems, count : Nat, full : BOOLEAN]

OwnLengths == reports.length \in [DOMAIN SDESItems -> 0 .. MaxItem]

Collecting(acc, b, due, had) ==
    /\ acc \in Collects /\ Roomy(acc.b)
    /\ had \subseteq acc.done
    /\ acc.count = 0 => acc.b = b /\ acc.done = had
    /\ acc.count # 0 => \E i \in acc.done : i \notin had
    /\ acc.full => \E i \in DOMAIN SDESItems \ acc.done :
                      ~CanAddSDESNormalItem(acc.b, reports.length[i])

LEMMA CollectStart ==
    ASSUME NEW b, Roomy(b), NEW due, NEW had \in SUBSET DOMAIN SDESItems
    PROVE  Collecting(StartItems(b, had), b, due, had)
<1> DEFINE acc == StartItems(b, had)
<1>1. b \in Builders
  BY DEF Roomy, Fitting
<1>2. acc.b = b /\ acc.done = had /\ acc.count = 0 /\ acc.full = FALSE
  BY DEF StartItems
<1>3. acc \in Collects
  <2> HIDE DEF Roomy
  <2> QED
    BY <1>1 DEF Collects, StartItems
<1> HIDE DEF acc
<1> QED
  BY <1>2, <1>3 DEF Collecting, acc

LEMMA CollectVisit ==
    ASSUME OwnLengths, NEW acc, NEW b, NEW due \in SUBSET DOMAIN SDESItems,
           NEW had \in SUBSET DOMAIN SDESItems,
           Collecting(acc, b, due, had), NEW i \in DOMAIN SDESItems
    PROVE  Collecting(VisitItem(acc, i, due), b, due, had)
<1> DEFINE l == reports.length[i]
           c == AddSDESNormalItem(acc.b, SDESItems[i], l)
           d == acc.done \cup {i}
<1>1. acc \in Collects /\ Roomy(acc.b)
  BY DEF Collecting
<1>2. SDESItems[i] \in 1 .. 7
  <2>1. SDESItems \in Seq(2 .. 7)
    BY ReportsAssumption
  <2>2. SDESItems[i] \in 2 .. 7
    BY <2>1, LenProperties, ElementOfSeq
  <2> QED
    BY <2>2
<1>3. l \in ByteValues
  <2>1. l \in 0 .. MaxItem
    BY DEF OwnLengths
  <2> HIDE DEF l
  <2> QED
    BY <2>1, OwnNumbers DEF ByteValues
<1>4. CASE acc.full \/ i \notin due \/ i \in acc.done
  <2>1. VisitItem(acc, i, due) = acc
    BY <1>4 DEF VisitItem
  <2> QED
    BY <2>1
<1>5. CASE ~acc.full /\ i \in due /\ i \notin acc.done /\ ~CanAddSDESNormalItem(acc.b, l)
  <2> DEFINE new == [acc EXCEPT !.full = TRUE]
  <2>1. VisitItem(acc, i, due) = new
    BY <1>5 DEF VisitItem
  <2>2. new \in Collects
    BY <1>1 DEF Collects
  <2>3. new.b = acc.b /\ new.done = acc.done /\ new.count = acc.count
    BY <1>1 DEF Collects
  <2>4. \E j \in DOMAIN SDESItems \ acc.done : ~CanAddSDESNormalItem(acc.b, reports.length[j])
    BY <1>5
  <2> HIDE DEF new
  <2>5. Collecting(new, b, due, had)
    BY <2>2, <2>3, <2>4 DEF Collecting
  <2> QED
    BY <2>1, <2>5
<1>6. CASE ~acc.full /\ i \in due /\ i \notin acc.done /\ CanAddSDESNormalItem(acc.b, l)
  <2> DEFINE new == [acc EXCEPT !.b = c, !.done = d, !.count = acc.count + 1]
  <2>1. VisitItem(acc, i, due) = new
    <3> HIDE DEF l
    <3>1. CanAddSDESNormalItem(acc.b, l)
      BY <1>6
    <3> QED
      BY <1>6, <3>1 DEF VisitItem, l
  <2>2. Roomy(c)
    <3> HIDE DEF l
    <3> QED
      BY <1>1, <1>2, <1>3, <1>6, RoomItem
  <2>3. c \in Builders
    BY <2>2 DEF Roomy, Fitting
  <2>4. d \subseteq DOMAIN SDESItems /\ acc.count + 1 \in Nat /\ acc.count + 1 # 0
        /\ acc.done \subseteq d /\ i \in d /\ had \subseteq d /\ i \notin had
    BY <1>1, <1>6 DEF Collects, Collecting
  <2> HIDE DEF c, d
  <2>5. new \in Collects
    BY <1>1, <2>3, <2>4 DEF Collects
  <2>6. new.b = c /\ new.done = d /\ new.count = acc.count + 1 /\ new.full = FALSE
    BY <1>1, <1>6 DEF Collects
  <2> HIDE DEF new
  <2>7. Collecting(new, b, due, had)
    BY <2>2, <2>4, <2>5, <2>6 DEF Collecting
  <2> QED
    BY <2>1, <2>7
<1> QED
  BY <1>4, <1>5, <1>6

LEMMA CollectEnd ==
    ASSUME OwnLengths, NEW b, Roomy(b), NEW due \in SUBSET DOMAIN SDESItems,
           NEW had \in SUBSET DOMAIN SDESItems
    PROVE  Collecting(FillInSDES(b, due, had), b, due, had)
<1> DEFINE n == Len(SDESItems)
<1>1. PICK g : ItemRun(g, b, due, had)
  BY ItemRuns, Zenon
<1>2. n \in Nat /\ DOMAIN SDESItems = 1 .. n
  BY ReportsAssumption, LenProperties
<1> DEFINE R(k) == k <= n => Collecting(g[k], b, due, had)
           S == {k \in Nat : R(k)}
<1>3. R(0)
  BY <1>1, CollectStart, Zenon DEF ItemRun
<1>4. ASSUME NEW k \in Nat, R(k) PROVE R(k + 1)
  <2> SUFFICES ASSUME k + 1 <= n PROVE Collecting(g[k + 1], b, due, had)
    OBVIOUS
  <2>1. k < n /\ k <= n /\ k + 1 \in DOMAIN SDESItems
    BY <1>2
  <2>2. Collecting(g[k], b, due, had)
    BY <1>4, <2>1
  <2>3. g[k + 1] = VisitItem(g[k], k + 1, due)
    BY <1>1, <2>1, Zenon DEF ItemRun
  <2>4. Collecting(VisitItem(g[k], k + 1, due), b, due, had)
    BY <2>1, <2>2, CollectVisit
  <2> QED
    BY <2>3, <2>4, Zenon
<1> HIDE DEF R
<1>5. Nat \subseteq S
  <2>1. 0 \in S
    BY <1>3
  <2>2. \A k \in Nat : k \in S => k + 1 \in S
    BY <1>4
  <2> HIDE DEF S
  <2> QED
    BY <2>1, <2>2, Counting, Zenon
<1>6. R(n) /\ n <= n
  BY <1>2, <1>5
<1> QED
  BY <1>1, <1>6, Zenon DEF R, ItemRun
-----------------------------------------------------------------------------
(* How many more packets a source can be left out of.                        *)

ReportRecords ==
    [firstpacket : BOOLEAN, processingsdes : BOOLEAN, sdesbuildcount : Nat,
     due : SUBSET DOMAIN SDESItems, done : SUBSET DOMAIN SDESItems,
     length : [DOMAIN SDESItems -> 0 .. MaxItem],
     interval : [DOMAIN SDESItems -> Int]]

OtherPeers == Cardinality(Peers) - 1
OwnItems == Len(SDESItems)

\* The sources but p that are not processed yet.
Others(ps, p) == {q \in Peers \ {p} : ~ps[q].processed}

Left(r, ps, p) ==
    IF r.processingsdes THEN OwnItems - Cardinality(r.done) + OtherPeers
    ELSE IF ps[p].processed THEN Cardinality(Others(ps, p)) + OtherPeers + OwnItems
    ELSE Cardinality(Others(ps, p))

\* Items are left over only when every source had its turn, and then one of them is.
Flags(r, ps) ==
    r.processingsdes => (\A p \in Peers : ~ps[p].processed) /\ Cardinality(r.done) < OwnItems

ReportsInv ==
    /\ ReportsTypeOK
    /\ \A p \in Peers :
          /\ peer[p].sent => p \in ToSet(peers)
          /\ (peer[p].fresh \/ reports.firstpacket) /\ peer[p].sent => peer[p].num > 0
          /\ peer[p].waits + Left(reports, peer, p) <= 2 * OtherPeers + OwnItems
    /\ Flags(reports, peer)
    /\ Len(built.packet) <= MaxPacket
    /\ built.empty \subseteq ToSet(built.first) \cap ToSet(built.second)

LEMMA PeersFinite == IsFiniteSet(Peers) /\ OwnItems \in Nat /\ DOMAIN SDESItems = 1 .. OwnItems
<1>1. Peers \subseteq 0 .. 255 /\ SDESItems \in Seq(2 .. 7)
  BY ReportsAssumption
<1>2. IsFiniteSet(0 .. 255)
  <2>1. \A i, j \in Int : IsFiniteSet(i .. j)
    BY FS_Interval
  <2>2. 0 \in Int /\ 255 \in Int
    OBVIOUS
  <2> QED
    BY <2>1, <2>2, Zenon
<1> QED
  BY <1>1, <1>2, FS_Subset, LenProperties DEF OwnItems

LEMMA OthersMost ==
    ASSUME NEW ps, NEW p \in Peers
    PROVE  /\ IsFiniteSet(Others(ps, p)) /\ Cardinality(Others(ps, p)) \in Nat
           /\ Cardinality(Others(ps, p)) <= OtherPeers /\ OtherPeers \in Nat
<1> DEFINE A == Others(ps, p)
           B == Peers \ {p}
           cp == Cardinality(Peers)
           cb == Cardinality(B)
           ca == Cardinality(A)
<1>1. IsFiniteSet(Peers)
  BY PeersFinite
<1>2. A \subseteq B
  BY DEF Others
<1>3. IsFiniteSet(B) /\ cb = cp - 1
  BY <1>1, FS_RemoveElement
<1>4. IsFiniteSet(A) /\ ca <= cb
  BY <1>2, <1>3, FS_Subset
<1>5. ca \in Nat /\ cb \in Nat
  BY <1>3, <1>4, FS_CardinalityType
<1>6. OtherPeers = cb
  BY <1>3 DEF OtherPeers
<1> HIDE DEF A, cp, cb, ca
<1> QED
  BY <1>4, <1>5, <1>6 DEF A, ca

LEMMA OthersFewer ==
    ASSUME NEW ps, NEW qs, NEW p \in Peers,
           \A q \in Peers : ps[q].processed => qs[q].processed,
           NEW q \in Peers, q # p, ~ps[q].processed, qs[q].processed
    PROVE  Cardinality(Others(qs, p)) + 1 <= Cardinality(Others(ps, p))
<1> DEFINE A == Others(ps, p)
           B == Others(qs, p)
           C == A \ {q}
           cb == Cardinality(B)
           ca == Cardinality(A)
           cc == Cardinality(C)
<1>1. q \in A /\ B \subseteq C
  BY DEF Others
<1>2. IsFiniteSet(A) /\ ca \in Nat
  BY OthersMost
<1>3. IsFiniteSet(C) /\ cc = ca - 1
  BY <1>1, <1>2, FS_RemoveElement
<1>4. cb <= cc
  BY <1>1, <1>3, FS_Subset
<1>5. cb \in Nat
  BY OthersMost
<1> HIDE DEF ca, cb, cc
<1>6. cb + 1 <= ca
  BY <1>2, <1>3, <1>4, <1>5
<1> QED
  BY <1>6 DEF ca, cb

LEMMA OthersSome ==
    ASSUME NEW ps, NEW p \in Peers, NEW q \in Peers, q # p, ~ps[q].processed
    PROVE  1 <= Cardinality(Others(ps, p))
<1>1. q \in Others(ps, p)
  BY DEF Others
<1>2. IsFiniteSet(Others(ps, p)) /\ Cardinality(Others(ps, p)) \in Nat
  BY OthersMost
<1>3. Cardinality(Others(ps, p)) # 0
  BY <1>1, <1>2, FS_EmptySet
<1> QED
  BY <1>2, <1>3

LEMMA LeftMost ==
    ASSUME NEW r \in ReportRecords, NEW ps, NEW p \in Peers, Flags(r, ps)
    PROVE  Left(r, ps, p) \in Nat /\ Left(r, ps, p) <= 2 * OtherPeers + OwnItems
<1> DEFINE c == Cardinality(Others(ps, p))
           d == Cardinality(r.done)
<1>1. c \in Nat /\ c <= OtherPeers /\ OtherPeers \in Nat
  BY OthersMost
<1>2. OwnItems \in Nat
  BY PeersFinite
<1>3. d \in Nat
  <2>1. r.done \subseteq DOMAIN SDESItems
    BY DEF ReportRecords
  <2>2. IsFiniteSet(1 .. OwnItems) /\ DOMAIN SDESItems = 1 .. OwnItems
    BY <1>2, PeersFinite, FS_Interval
  <2> QED
    BY <2>1, <2>2, FS_Subset, FS_CardinalityType
<1>4. r.processingsdes => d < OwnItems
  BY DEF Flags
<1>5. Left(r, ps, p) = IF r.processingsdes THEN OwnItems - d + OtherPeers
                       ELSE IF ps[p].processed THEN c + OtherPeers + OwnItems ELSE c
  BY DEF Left
<1> HIDE DEF c, d
<1>6. CASE r.processingsdes
  BY <1>1, <1>2, <1>3, <1>4, <1>5, <1>6
<1>7. CASE ~r.processingsdes /\ ps[p].processed
  BY <1>1, <1>2, <1>5, <1>7
<1>8. CASE ~r.processingsdes /\ ~ps[p].processed
  BY <1>1, <1>2, <1>5, <1>8
<1> QED
  BY <1>6, <1>7, <1>8

\* The items that had their packet, one more of them or one less than all.
LEMMA DoneMore ==
    ASSUME NEW had \in SUBSET DOMAIN SDESItems, NEW d \in SUBSET DOMAIN SDESItems, had \subseteq d
    PROVE  /\ Cardinality(had) \in Nat /\ Cardinality(d) \in Nat
           /\ (\E i \in d : i \notin had) => Cardinality(had) + 1 <= Cardinality(d)
           /\ (\E i \in DOMAIN SDESItems : i \notin d) => Cardinality(d) < OwnItems
<1> DEFINE D == DOMAIN SDESItems
           ch == Cardinality(had)
           cd == Cardinality(d)
<1>1. IsFiniteSet(D) /\ Cardinality(D) = OwnItems /\ OwnItems \in Nat
  <2>1. D = 1 .. OwnItems /\ OwnItems \in Nat
    BY PeersFinite
  <2>2. IsFiniteSet(1 .. OwnItems) /\ Cardinality(1 .. OwnItems) = OwnItems
    BY <2>1, FS_Interval
  <2> QED
    BY <2>1, <2>2
<1>2. IsFiniteSet(d) /\ IsFiniteSet(had)
  BY <1>1, FS_Subset
<1>3. cd \in Nat /\ ch \in Nat
  BY <1>2, FS_CardinalityType
<1>4. ASSUME NEW i \in d, i \notin had PROVE ch + 1 <= cd
  <2> DEFINE e == d \ {i}
             ce == Cardinality(e)
  <2>1. IsFiniteSet(e) /\ ce = cd - 1 /\ had \subseteq e
    BY <1>2, <1>4, FS_RemoveElement
  <2>2. ch <= ce
    BY <2>1, FS_Subset
  <2> HIDE DEF ce, cd, ch
  <2> QED
    BY <1>3, <2>1, <2>2
<1>5. ASSUME NEW i \in D, i \notin d PROVE cd < OwnItems
  <2> DEFINE e == D \ {i}
             ce == Cardinality(e)
  <2>1. IsFiniteSet(e) /\ ce = OwnItems - 1 /\ d \subseteq e
    BY <1>1, <1>5, FS_RemoveElement
  <2>2. cd <= ce
    BY <2>1, FS_Subset
  <2> HIDE DEF ce, cd
  <2> QED
    BY <1>1, <1>3, <2>1, <2>2
<1> QED
  BY <1>3, <1>4, <1>5

SameFlags(r, ps, s, qs) ==
    /\ r.processingsdes = s.processingsdes /\ r.done = s.done
    /\ \A q \in Peers : ps[q].processed <=> qs[q].processed

LEMMA LeftSame ==
    ASSUME NEW r, NEW s, NEW ps, NEW qs, SameFlags(r, ps, s, qs)
    PROVE  /\ \A p \in Peers : Left(r, ps, p) = Left(s, qs, p)
           /\ Flags(r, ps) <=> Flags(s, qs)
<1> USE DEF SameFlags
<1>1. \A p : Others(ps, p) = Others(qs, p)
  BY DEF Others
<1>2. ASSUME NEW p \in Peers PROVE Left(r, ps, p) = Left(s, qs, p)
  BY <1>1 DEF Left
<1> QED
  BY <1>2 DEF Flags

LEMMA ToSetConcat ==
    ASSUME NEW S, NEW s \in Seq(S), NEW t \in Seq(S)
    PROVE  ToSet(s) \cup ToSet(t) \subseteq ToSet(s \o t)
<1> DEFINE w == s \o t
           m == Len(s)
           n == Len(t)
<1>1. /\ w \in Seq(S) /\ Len(w) = m + n
      /\ \A i \in 1 .. m + n : w[i] = IF i <= m THEN s[i] ELSE t[i - m]
  BY ConcatProperties
<1>2. m \in Nat /\ n \in Nat /\ DOMAIN s = 1 .. m /\ DOMAIN t = 1 .. n /\ DOMAIN w = 1 .. m + n
  BY <1>1, LenProperties
<1> HIDE DEF w, m, n
<1>3. ASSUME NEW x \in ToSet(s) PROVE x \in ToSet(w)
  <2>1. PICK i \in 1 .. m : x = s[i]
    BY <1>2, <1>3 DEF ToSet
  <2>2. i \in 1 .. m + n /\ w[i] = x
    BY <1>1, <1>2, <2>1
  <2> QED
    BY <1>2, <2>2 DEF ToSet
<1>4. ASSUME NEW x \in ToSet(t) PROVE x \in ToSet(w)
  <2>1. PICK i \in 1 .. n : x = t[i]
    BY <1>2, <1>4 DEF ToSet
  <2>2. m + i \in 1 .. m + n /\ ~(m + i <= m) /\ (m + i) - m = i
    BY <1>2
  <2>3. w[m + i] = x
    BY <1>1, <2>1, <2>2
  <2> QED
    BY <1>2, <2>2, <2>3 DEF ToSet
<1> QED
  BY <1>3, <1>4 DEF w

LEMMA ReportsParts ==
    ASSUME ReportsInv
    PROVE  /\ reports \in ReportRecords /\ peers \in Seq(Peers) /\ IsInjective(peers)
           /\ peer \in [Peers -> PeerRecords] /\ Flags(reports, peer) /\ OwnLengths
<1>1. reports \in ReportRecords
  BY DEF ReportsInv, ReportsTypeOK, ReportRecords
<1>2. peers \in Seq(Peers) /\ IsInjective(peers) /\ peer \in [Peers -> PeerRecords]
  BY DEF ReportsInv, ReportsTypeOK, PeerRecords
<1>3. Flags(reports, peer)
  BY DEF ReportsInv
<1>4. OwnLengths
  BY <1>1 DEF OwnLengths, ReportRecords
<1> QED
  BY <1>1, <1>2, <1>3, <1>4

\* What a packet has to do to the sources for the invariant to survive it.
LEMMA FinishKeeps ==
    ASSUME ReportsInv, NEW b, Roomy(b), NEW r \in ReportRecords, NEW ps \in [Peers -> PeerRecords],
           NEW first, NEW skipped, NEW second, NEW empty,
           Finish(b, ps, r, first, skipped, second, empty), Flags(r, ps),
           \A p \in Peers : SameSource(ps[p], peer[p]),
           \A p \in Peers : ShouldProcess(peer[p]) /\ p \notin ToSet(first \o second)
                               => Left(r, ps, p) + 1 <= Left(reports, peer, p),
           empty \subseteq ToSet(first) \cap ToSet(second)
    PROVE  ReportsInv'
<1> DEFINE told(p) == p \in ToSet(first \o second)
           wait(p) == Waited(peer[p], told(p))
           new(p) == [ps[p] EXCEPT !.fresh = FALSE, !.waits = wait(p)]
<1>1. /\ reports' = [r EXCEPT !.firstpacket = FALSE]
      /\ peer' = [p \in DOMAIN ps |-> new(p)]
      /\ built' = [first |-> first, skipped |-> skipped, second |-> second,
                   packet |-> Layout(b), empty |-> empty]
      /\ peers' = peers
  BY DEF Finish
<1>2. DOMAIN ps = Peers
  OBVIOUS
<1>3. /\ reports \in ReportRecords /\ peers \in Seq(Peers) /\ IsInjective(peers)
      /\ peer \in [Peers -> PeerRecords]
  BY ReportsParts
<1>4. \A p \in Peers : wait(p) \in Nat
  <2> SUFFICES ASSUME NEW p \in Peers PROVE wait(p) \in Nat
    OBVIOUS
  <2>1. peer[p].waits \in Nat
    BY <1>3 DEF PeerRecords
  <2> HIDE DEF told
  <2> QED
    BY <2>1 DEF Waited
<1> HIDE DEF wait, told
<1>5. ASSUME NEW p \in Peers
      PROVE  /\ new(p) \in PeerRecords /\ peer'[p] = new(p)
             /\ new(p).fresh = FALSE /\ new(p).waits = wait(p)
             /\ new(p).sent = ps[p].sent /\ (new(p).processed <=> ps[p].processed)
  <2> DEFINE s == ps[p]
             n == wait(p)
  <2>1. s \in PeerRecords /\ n \in Nat
    BY <1>4
  <2>2. peer'[p] = new(p)
    BY <1>1, <1>2
  <2> HIDE DEF s, n
  <2>3. /\ [s EXCEPT !.fresh = FALSE, !.waits = n] \in PeerRecords
        /\ [s EXCEPT !.fresh = FALSE, !.waits = n].fresh = FALSE
        /\ [s EXCEPT !.fresh = FALSE, !.waits = n].waits = n
        /\ [s EXCEPT !.fresh = FALSE, !.waits = n].sent = s.sent
        /\ [s EXCEPT !.fresh = FALSE, !.waits = n].processed = s.processed
    BY <2>1 DEF PeerRecords
  <2> QED
    BY <2>2, <2>3 DEF s, n
<1>6. peer' \in [Peers -> PeerRecords]
  <2> HIDE DEF new
  <2> QED
    BY <1>1, <1>2, <1>5
<1>7. /\ reports' \in ReportRecords /\ reports'.firstpacket = FALSE
      /\ reports'.processingsdes = r.processingsdes /\ reports'.done = r.done
  <2>1. [r EXCEPT !.firstpacket = FALSE] \in ReportRecords
    BY DEF ReportRecords
  <2> QED
    BY <1>1, <2>1 DEF ReportRecords
<1>8. /\ \A p \in Peers : Left(reports', peer', p) = Left(r, ps, p)
      /\ Flags(reports', peer')
  <2>1. \A q \in Peers : peer'[q].processed <=> ps[q].processed
    BY <1>5
  <2>2. SameFlags(reports', peer', r, ps)
    BY <1>7, <2>1 DEF SameFlags
  <2> QED
    BY <2>2, LeftSame, Zenon
<1>9. ReportsTypeOK'
  <2>1. peers' \in Seq(Peers) /\ IsInjective(peers')
    BY <1>1, <1>3
  <2>2. reports' \in ReportRecords /\ peer' \in [Peers -> PeerRecords]
    BY <1>6, <1>7
  <2> QED
    BY <2>1, <2>2 DEF ReportsTypeOK, ReportRecords, PeerRecords
<1>10. ASSUME NEW p \in Peers
       PROVE  /\ peer'[p].sent => p \in ToSet(peers')
              /\ (peer'[p].fresh \/ reports'.firstpacket) /\ peer'[p].sent => peer'[p].num > 0
              /\ peer'[p].waits + Left(reports', peer', p) <= 2 * OtherPeers + OwnItems
  <2>1. peer'[p].sent = peer[p].sent /\ peer'[p].fresh = FALSE /\ peer'[p].waits = wait(p)
    <3>1. ps[p].sent = peer[p].sent
      BY DEF SameSource
    <3> QED
      BY <1>5, <3>1
  <2>2. peer[p].sent => p \in ToSet(peers)
    BY DEF ReportsInv
  <2>3. wait(p) + Left(r, ps, p) <= 2 * OtherPeers + OwnItems
    <3> DEFINE l == Left(r, ps, p)
               m == Left(reports, peer, p)
               x == peer[p].waits
               top == 2 * OtherPeers + OwnItems
    <3>1. l \in Nat /\ l <= top
      BY LeftMost
    <3>2. m \in Nat /\ x \in Nat /\ x + m <= top
      <4>1. m \in Nat
        BY <1>3, ReportsParts, LeftMost
      <4>2. x \in Nat
        BY <1>3 DEF PeerRecords
      <4>3. x + m <= top
        BY DEF ReportsInv
      <4> QED
        BY <4>1, <4>2, <4>3
    <3>3. top \in Nat
      <4>1. OtherPeers \in Nat /\ OwnItems \in Nat
        BY OthersMost, PeersFinite
      <4> QED
        BY <4>1
    <3>4. CASE ~ShouldProcess(peer[p]) \/ told(p)
      <4>1. wait(p) = 0
        BY <3>4 DEF wait, Waited
      <4> HIDE DEF l, top
      <4>2. wait(p) + l <= top
        BY <3>1, <4>1
      <4> QED
        BY <4>2 DEF l, top
    <3>5. CASE ShouldProcess(peer[p]) /\ ~told(p)
      <4>1. wait(p) = x + 1
        BY <3>5 DEF wait, Waited
      <4>2. l + 1 <= m
        BY <3>5 DEF told
      <4> HIDE DEF l, m, x, top
      <4>3. wait(p) + l <= top
        BY <3>1, <3>2, <3>3, <4>1, <4>2
      <4> QED
        BY <4>3 DEF l, top
    <3> QED
      BY <3>4, <3>5
  <2>4. Left(reports', peer', p) = Left(r, ps, p)
    BY <1>8
  <2> QED
    BY <1>1, <1>7, <2>1, <2>2, <2>3, <2>4
<1>11. Len(built'.packet) <= MaxPacket
  BY <1>1, RoomLaid
<1>12. built'.empty \subseteq ToSet(built'.first) \cap ToSet(built'.second)
  BY <1>1
<1> QED
  BY <1>8, <1>9, <1>10, <1>11, <1>12 DEF ReportsInv
-----------------------------------------------------------------------------
(* What the runs of one packet leave of the sources.                         *)

LEMMA FillEnds ==
    ASSUME NEW b, Roomy(b), NEW ps \in [Peers -> PeerRecords], NEW maxcount \in Nat,
           peers \in Seq(Peers), \A p \in Peers : ps[p].sent => p \in ToSet(peers)
    PROVE  LET f == FillInReportBlocks(b, ps, maxcount)
           IN  /\ f \in Fills /\ Roomy(f.b) /\ Visited(f, ps)
               /\ f.added = <<>> => f.b = b
               /\ f.state = "full" => ~CanAddReportBlock(f.b)
               /\ f.state = "enough" => f.added # <<>>
               /\ maxcount = TotalCount => f.state # "enough"
               /\ f.state = "going" =>
                     \A p \in Peers : ShouldProcess(ps[p]) =>
                         f.ps[p].processed /\ (ps[p].processed => p \in f.skipped)
<1> DEFINE f == FillInReportBlocks(b, ps, maxcount)
           n == Len(peers)
<1>1. Filling(f, b, ps, maxcount, n)
  BY FillEnd
<1> HIDE DEF f
<1>2. n \in Nat /\ DOMAIN peers = 1 .. n
  BY LenProperties
<1>3. f \in Fills /\ Roomy(f.b) /\ Visited(f, ps) /\ NoneLeft(f, ps, n) /\ Len(f.added) <= n
      /\ (f.added = <<>> => f.b = b) /\ (f.state = "full" => ~CanAddReportBlock(f.b))
      /\ (f.state = "enough" => Len(f.added) >= maxcount /\ f.added # <<>>)
  BY <1>1, Zenon DEF Filling
<1>4. maxcount = TotalCount => f.state # "enough"
  <2> SUFFICES ASSUME maxcount = n + 1, Len(f.added) >= maxcount PROVE FALSE
    BY <1>3 DEF TotalCount
  <2>1. f.added \in Seq(Peers)
    BY <1>3 DEF Fills
  <2>2. Len(f.added) \in Nat
    BY <2>1, LenProperties
  <2> DEFINE l == Len(f.added)
  <2>3. l \in Nat /\ l <= n /\ l >= n + 1
    BY <1>3, <2>2
  <2> HIDE DEF l, n
  <2> QED
    BY <1>2, <2>3
<1>5. ASSUME f.state = "going", NEW p \in Peers, ShouldProcess(ps[p])
      PROVE  f.ps[p].processed /\ (ps[p].processed => p \in f.skipped)
  <2>1. p \in ToSet(peers)
    BY <1>5 DEF ShouldProcess
  <2>2. PICK i \in 1 .. n : peers[i] = p
    BY <1>2, <2>1 DEF ToSet
  <2> QED
    BY <1>3, <1>5, <2>2 DEF NoneLeft
<1> QED
  BY <1>3, <1>4, <1>5 DEF f

\* A source with a block that was due had packets to report.
LEMMA NoneEmpty ==
    ASSUME ReportsInv, NEW f, f \in Fills, Visited(f, peer)
    PROVE  f.empty = {}
<1> SUFFICES ASSUME NEW p \in f.empty PROVE FALSE
  OBVIOUS
<1>1. p \in Peers
  BY DEF Fills
<1>2. ShouldProcess(peer[p]) /\ peer[p].num = 0
  BY <1>1 DEF Visited
<1>3. (peer[p].fresh \/ reports.firstpacket) /\ peer[p].sent => peer[p].num > 0
  BY <1>1 DEF ReportsInv
<1>4. peer[p].num > 0
  BY <1>2, <1>3 DEF ShouldProcess
<1> QED
  BY <1>2, <1>4

LEMMA ClearedPeers ==
    ASSUME NEW ps \in [Peers -> PeerRecords]
    PROVE  /\ ClearAllSourceFlags(ps) \in [Peers -> PeerRecords]
           /\ \A p \in Peers : /\ SameSource(ClearAllSourceFlags(ps)[p], ps[p])
                               /\ ~ClearAllSourceFlags(ps)[p].processed
                               /\ ClearAllSourceFlags(ps)[p].num = ps[p].num
<1> DEFINE new(p) == [ps[p] EXCEPT !.processed = FALSE]
<1>1. ClearAllSourceFlags(ps) = [p \in Peers |-> new(p)]
  BY DEF ClearAllSourceFlags
<1>2. ASSUME NEW p \in Peers
      PROVE  /\ new(p) \in PeerRecords /\ SameSource(new(p), ps[p]) /\ ~new(p).processed
             /\ new(p).num = ps[p].num
  <2> DEFINE s == ps[p]
  <2>1. s \in PeerRecords
    OBVIOUS
  <2> HIDE DEF s
  <2>2. /\ [s EXCEPT !.processed = FALSE] \in PeerRecords
        /\ [s EXCEPT !.processed = FALSE].processed = FALSE
        /\ [s EXCEPT !.processed = FALSE].num = s.num
        /\ SameSource([s EXCEPT !.processed = FALSE], s)
    BY <2>1 DEF PeerRecords, SameSource
  <2> QED
    BY <2>2 DEF s
<1> HIDE DEF new
<1>3. ClearAllSourceFlags(ps) \in [Peers -> PeerRecords]
  BY <1>1, <1>2
<1> QED
  BY <1>1, <1>2, <1>3

\* The packet that has items of the one before.
LEMMA ItemsKeep ==
    ASSUME ReportsInv, NEW sender \in BOOLEAN, CanOpen(sender), reports.processingsdes,
           BuildItems(sender)
    PROVE  ReportsInv'
<1> DEFINE s == FillInSDES(Opened(sender), reports.due, reports.done)
           f == FillInReportBlocks(s.b, peer, TotalCount)
           had == reports.done
<1>1. /\ reports \in ReportRecords /\ peers \in Seq(Peers) /\ peer \in [Peers -> PeerRecords]
      /\ Flags(reports, peer) /\ OwnLengths
  BY ReportsParts
<1>2. /\ had \in SUBSET DOMAIN SDESItems /\ reports.due \in SUBSET DOMAIN SDESItems
      /\ (\A p \in Peers : ~peer[p].processed) /\ Cardinality(had) < OwnItems
      /\ OwnItems \in Nat
  BY <1>1, PeersFinite DEF ReportRecords, Flags
<1>3. Collecting(s, Opened(sender), reports.due, had)
  BY <1>1, <1>2, OpenedRoomy, CollectEnd
<1>4. s.count # 0
      /\ IF s.full THEN Finish(s.b, peer, [reports EXCEPT !.done = s.done], <<>>, {}, <<>>, {})
         ELSE Finish(f.b, IF AtEndOfList(f) THEN ClearAllSourceFlags(f.ps) ELSE f.ps,
                     [reports EXCEPT !.processingsdes = FALSE, !.done = {}],
                     f.added, f.skipped, <<>>, f.empty)
  BY DEF BuildItems
<1> HIDE DEF s, f
<1>5. /\ s.done \in SUBSET DOMAIN SDESItems /\ Roomy(s.b) /\ had \subseteq s.done
      /\ (\E i \in s.done : i \notin had)
      /\ (s.full => \E i \in DOMAIN SDESItems : i \notin s.done)
  BY <1>3, <1>4 DEF Collecting, Collects
<1>6. Cardinality(had) \in Nat
  BY <1>2, DoneMore
<1>7. CASE s.full
  <2> DEFINE r == [reports EXCEPT !.done = s.done]
             ch == Cardinality(had)
             cd == Cardinality(s.done)
  <2>1. r \in ReportRecords /\ r.processingsdes = reports.processingsdes /\ r.done = s.done
    BY <1>1, <1>5 DEF ReportRecords
  <2>2. ch + 1 <= cd /\ cd < OwnItems /\ cd \in Nat /\ ch \in Nat
    BY <1>2, <1>5, <1>7, DoneMore
  <2>3. Finish(s.b, peer, r, <<>>, {}, <<>>, {})
    BY <1>4, <1>7
  <2> HIDE DEF r
  <2>4. Flags(r, peer)
    BY <1>2, <2>1, <2>2 DEF Flags
  <2>5. ASSUME NEW p \in Peers PROVE Left(r, peer, p) + 1 <= Left(reports, peer, p)
    <3>1. OtherPeers \in Nat
      BY OthersMost
    <3>2. Left(r, peer, p) = OwnItems - cd + OtherPeers /\ Left(reports, peer, p) = OwnItems - ch + OtherPeers
      BY <2>1 DEF Left
    <3> HIDE DEF ch, cd
    <3> QED
      BY <1>2, <2>2, <3>1, <3>2
  <2>6. \A p \in Peers : SameSource(peer[p], peer[p])
    BY DEF SameSource
  <2> QED
    BY <1>1, <1>5, <2>1, <2>3, <2>4, <2>5, <2>6, FinishKeeps
<1>8. CASE ~s.full
  <2> DEFINE r == [reports EXCEPT !.processingsdes = FALSE, !.done = {}]
             ps == IF AtEndOfList(f) THEN ClearAllSourceFlags(f.ps) ELSE f.ps
             ch == Cardinality(had)
  <2>1. r \in ReportRecords /\ r.processingsdes = FALSE
    <3>1. [reports EXCEPT !.done = {}] \in ReportRecords
      BY <1>1 DEF ReportRecords
    <3> DEFINE q == [reports EXCEPT !.done = {}]
    <3>2. r = [q EXCEPT !.processingsdes = FALSE]
      BY <1>1 DEF ReportRecords
    <3> HIDE DEF q, r
    <3> QED
      BY <3>1, <3>2 DEF ReportRecords, q
  <2>2. Finish(f.b, ps, r, f.added, f.skipped, <<>>, f.empty)
    BY <1>4, <1>8
  <2> HIDE DEF r
  <2>3. f \in Fills /\ Roomy(f.b) /\ Visited(f, peer)
    <3>1. \A p \in Peers : peer[p].sent => p \in ToSet(peers)
      BY DEF ReportsInv
    <3>2. TotalCount \in Nat
      BY <1>1, LenProperties DEF TotalCount
    <3> QED
      BY <1>1, <1>5, <3>1, <3>2, FillEnds DEF f
  <2>4. f.ps \in [Peers -> PeerRecords] /\ f.added \in Seq(Peers)
    BY <2>3 DEF Fills
  <2>5. ps \in [Peers -> PeerRecords] /\ \A p \in Peers : SameSource(ps[p], f.ps[p])
        /\ (~f.ps[p].processed => ~ps[p].processed)
    <3>1. \A p \in Peers : SameSource(f.ps[p], f.ps[p])
      BY DEF SameSource
    <3>2. CASE AtEndOfList(f)
      BY <2>4, <3>2, ClearedPeers
    <3>3. CASE ~AtEndOfList(f)
      BY <2>4, <3>1, <3>3
    <3> QED
      BY <3>2, <3>3
  <2> HIDE DEF ps
  <2>6. \A p \in Peers : SameSource(ps[p], peer[p])
    <3>1. \A p \in Peers : SameSource(f.ps[p], peer[p])
      BY <2>3 DEF Visited
    <3> QED
      BY <2>5, <3>1 DEF SameSource
  <2>7. Flags(r, ps)
    BY <2>1 DEF Flags
  <2>8. ASSUME NEW p \in Peers, p \notin ToSet(f.added \o <<>>)
        PROVE  Left(r, ps, p) + 1 <= Left(reports, peer, p)
    <3>1. p \notin ToSet(f.added)
      <4>1. <<>> \in Seq(Peers)
        BY EmptySeq
      <4>2. ToSet(f.added) \cup ToSet(<<>>) \subseteq ToSet(f.added \o <<>>)
        BY <2>4, <4>1, ToSetConcat
      <4> QED
        BY <2>8, <4>2
    <3>2. f.ps[p] = peer[p] /\ ~peer[p].processed
      BY <1>2, <2>3, <3>1 DEF Visited
    <3>3. ~ps[p].processed
      BY <2>5, <3>2
    <3> DEFINE c == Cardinality(Others(ps, p))
    <3>4. c \in Nat /\ c <= OtherPeers /\ OtherPeers \in Nat
      BY OthersMost
    <3>5. Left(r, ps, p) = c /\ Left(reports, peer, p) = OwnItems - ch + OtherPeers
      BY <2>1, <3>3 DEF Left
    <3>6. ch \in Nat /\ ch < OwnItems
      BY <1>2, <1>6
    <3> HIDE DEF c, ch
    <3> QED
      BY <1>2, <3>4, <3>5, <3>6
  <2>9. f.empty = {}
    BY <2>3, NoneEmpty
  <2> QED
    BY <1>1, <2>1, <2>2, <2>3, <2>5, <2>6, <2>7, <2>8, <2>9, FinishKeeps
<1> QED
  BY <1>7, <1>8
-----------------------------------------------------------------------------
(* The packet that starts over with the sources.                             *)

\* A source that is in a list is one of the others for a source that is not.
LEMMA AddedOther ==
    ASSUME NEW f \in Fills, NEW ps, Visited(f, ps), NEW p \in Peers, p \notin ToSet(f.added),
           f.added # <<>>
    PROVE  \E q \in Peers : q # p /\ q \in ToSet(f.added) /\ ~ps[q].processed /\ f.ps[q].processed
<1> DEFINE l == f.added
<1>1. l \in Seq(Peers) /\ l # <<>>
  BY DEF Fills
<1> HIDE DEF l
<1>2. Len(l) \in Nat /\ Len(l) # 0 /\ DOMAIN l = 1 .. Len(l)
  BY <1>1, LenProperties, EmptySeq
<1>3. 1 \in 1 .. Len(l)
  BY <1>2
<1>4. l[1] \in Peers /\ l[1] \in ToSet(l)
  <2>1. l[1] \in Peers
    BY <1>1, <1>3, ElementOfSeq
  <2> QED
    BY <1>2, <1>3, <2>1 DEF ToSet
<1> USE DEF l
<1> QED
  BY <1>4 DEF Visited

LEMMA FillProcesses ==
    ASSUME NEW f, NEW ps, Visited(f, ps)
    PROVE  \A q \in Peers : ps[q].processed => f.ps[q].processed
<1> SUFFICES ASSUME NEW q \in Peers, ps[q].processed PROVE f.ps[q].processed
  OBVIOUS
<1>1. q \in ToSet(f.added) => f.ps[q].processed
  BY DEF Visited
<1>2. q \notin ToSet(f.added) => f.ps[q] = ps[q]
  BY DEF Visited
<1> QED
  BY <1>1, <1>2

\* Its first run: the packet is full of blocks.
LEMMA FullKeeps ==
    ASSUME ReportsInv, NEW f \in Fills, Roomy(f.b), Visited(f, peer), ~reports.processingsdes,
           f.added # <<>>, Finish(f.b, f.ps, reports, f.added, f.skipped, <<>>, f.empty)
    PROVE  ReportsInv'
<1>1. reports \in ReportRecords /\ peer \in [Peers -> PeerRecords]
  BY ReportsParts
<1>2. f.ps \in [Peers -> PeerRecords] /\ f.added \in Seq(Peers)
  BY DEF Fills
<1>3. \A p \in Peers : SameSource(f.ps[p], peer[p])
  BY DEF Visited
<1>4. Flags(reports, f.ps)
  BY DEF Flags
<1>5. ASSUME NEW p \in Peers, p \notin ToSet(f.added \o <<>>)
      PROVE  Left(reports, f.ps, p) + 1 <= Left(reports, peer, p)
  <2>1. p \notin ToSet(f.added)
    <3>1. <<>> \in Seq(Peers)
      BY EmptySeq
    <3>2. ToSet(f.added) \cup ToSet(<<>>) \subseteq ToSet(f.added \o <<>>)
      BY <1>2, <3>1, ToSetConcat
    <3> QED
      BY <1>5, <3>2
  <2>2. PICK q \in Peers : q # p /\ ~peer[q].processed /\ f.ps[q].processed
    BY <2>1, AddedOther
  <2> DEFINE c == Cardinality(Others(f.ps, p))
             d == Cardinality(Others(peer, p))
  <2>3. c + 1 <= d
    BY <2>2, FillProcesses, OthersFewer
  <2>4. c \in Nat /\ d \in Nat /\ OtherPeers \in Nat /\ OwnItems \in Nat
    BY OthersMost, PeersFinite
  <2>5. f.ps[p] = peer[p]
    BY <2>1 DEF Visited
  <2>6. CASE peer[p].processed
    <3>1. Left(reports, f.ps, p) = c + OtherPeers + OwnItems /\ Left(reports, peer, p) = d + OtherPeers + OwnItems
      BY <2>5, <2>6 DEF Left
    <3> HIDE DEF c, d
    <3> QED
      BY <2>3, <2>4, <3>1
  <2>7. CASE ~peer[p].processed
    <3>1. Left(reports, f.ps, p) = c /\ Left(reports, peer, p) = d
      BY <2>5, <2>7 DEF Left
    <3> HIDE DEF c, d
    <3> QED
      BY <2>3, <2>4, <3>1
  <2> QED
    BY <2>6, <2>7
<1>6. f.empty = {}
  BY NoneEmpty
<1> QED
  BY <1>1, <1>2, <1>3, <1>4, <1>5, <1>6, FinishKeeps

\* The first run came to the end: who was left out had its turn before.
LEMMA LeftOut ==
    ASSUME ReportsInv, NEW f \in Fills, Visited(f, peer), ~reports.processingsdes,
           \A q \in Peers : ShouldProcess(peer[q]) =>
               f.ps[q].processed /\ (peer[q].processed => q \in f.skipped),
           NEW p \in Peers, ShouldProcess(peer[p]), p \notin ToSet(f.added)
    PROVE  /\ peer[p].processed /\ p \in f.skipped
           /\ Left(reports, peer, p) = Cardinality(Others(peer, p)) + OtherPeers + OwnItems
           /\ f.added # <<>> => 1 <= Cardinality(Others(peer, p))
<1>1. f.ps[p] = peer[p]
  BY DEF Visited
<1>2. peer[p].processed /\ p \in f.skipped
  BY <1>1
<1>3. Left(reports, peer, p) = Cardinality(Others(peer, p)) + OtherPeers + OwnItems
  BY <1>2 DEF Left
<1>4. ASSUME f.added # <<>> PROVE 1 <= Cardinality(Others(peer, p))
  <2>1. PICK q \in Peers : q # p /\ ~peer[q].processed /\ f.ps[q].processed
    BY <1>4, AddedOther
  <2> QED
    BY <2>1, OthersSome
<1> QED
  BY <1>2, <1>3, <1>4

\* Items are left over, or no source was left out.
LEMMA LeftoverKeeps ==
    ASSUME ReportsInv, NEW sender \in BOOLEAN, CanOpen(sender),
           NEW f \in Fills, Visited(f, peer), ~reports.processingsdes,
           f.added = <<>> => f.b = Opened(sender),
           \A q \in Peers : ShouldProcess(peer[q]) =>
               f.ps[q].processed /\ (peer[q].processed => q \in f.skipped),
           NEW due \in SUBSET DOMAIN SDESItems, NEW s, Collecting(s, f.b, due, {}),
           s.full \/ f.skipped = {},
           NEW r \in ReportRecords, r.processingsdes <=> s.full, s.full => r.done = s.done,
           Finish(s.b, ClearAllSourceFlags(f.ps), r, f.added, f.skipped, <<>>, f.empty)
    PROVE  ReportsInv'
<1> DEFINE ps == ClearAllSourceFlags(f.ps)
           cd == Cardinality(s.done)
<1>1. reports \in ReportRecords /\ peer \in [Peers -> PeerRecords] /\ OwnLengths
  BY ReportsParts
<1>2. f.ps \in [Peers -> PeerRecords] /\ f.added \in Seq(Peers)
  BY DEF Fills
<1>3. ps \in [Peers -> PeerRecords] /\ \A p \in Peers : SameSource(ps[p], f.ps[p]) /\ ~ps[p].processed
  BY <1>2, ClearedPeers
<1> HIDE DEF ps
<1>4. \A p \in Peers : SameSource(ps[p], peer[p])
  <2>1. \A p \in Peers : SameSource(f.ps[p], peer[p])
    BY DEF Visited
  <2> QED
    BY <1>3, <2>1 DEF SameSource
<1>5. /\ s.done \in SUBSET DOMAIN SDESItems /\ Roomy(s.b) /\ s.done \in SUBSET DOMAIN SDESItems
      /\ (s.count = 0 => s.b = f.b /\ s.done = {})
      /\ (s.count # 0 => \E i \in s.done : i \notin {})
      /\ (s.full => \E i \in DOMAIN SDESItems \ s.done :
                        ~CanAddSDESNormalItem(s.b, reports.length[i]))
  BY DEF Collecting, Collects
<1>6. cd \in Nat /\ (s.full => cd < OwnItems) /\ (s.count # 0 => 1 <= cd)
  <2>1. {} \in SUBSET DOMAIN SDESItems /\ {} \subseteq s.done /\ Cardinality({}) = 0
    BY FS_EmptySet
  <2>2. cd \in Nat
    BY <1>5, <2>1, DoneMore
  <2>3. s.full => cd < OwnItems
    BY <1>5, <2>1, DoneMore
  <2>4. s.count # 0 => Cardinality({}) + 1 <= cd
    BY <1>5, <2>1, DoneMore
  <2> HIDE DEF cd
  <2>5. s.count # 0 => 1 <= cd
    BY <2>1, <2>2, <2>4
  <2> QED
    BY <2>2, <2>3, <2>5
<1>7. Flags(r, ps)
  BY <1>3, <1>6 DEF Flags
<1>8. ASSUME NEW p \in Peers, ShouldProcess(peer[p]), p \notin ToSet(f.added \o <<>>)
      PROVE  Left(r, ps, p) + 1 <= Left(reports, peer, p)
  <2> DEFINE u == Cardinality(Others(peer, p))
  <2>1. p \notin ToSet(f.added)
    <3>1. <<>> \in Seq(Peers)
      BY EmptySeq
    <3>2. ToSet(f.added) \cup ToSet(<<>>) \subseteq ToSet(f.added \o <<>>)
      BY <1>2, <3>1, ToSetConcat
    <3> QED
      BY <1>8, <3>2
  <2>2. p \in f.skipped /\ Left(reports, peer, p) = u + OtherPeers + OwnItems
        /\ (f.added # <<>> => 1 <= u)
    BY <1>8, <2>1, LeftOut
  <2>3. s.full /\ Left(r, ps, p) = OwnItems - cd + OtherPeers
    BY <2>2 DEF Left
  <2>4. 1 <= cd \/ 1 <= u
    <3>1. CASE f.added # <<>>
      BY <2>2, <3>1
    <3>2. CASE f.added = <<>> /\ s.count # 0
      BY <1>6, <3>2
    <3>3. CASE f.added = <<>> /\ s.count = 0
      <4>1. s.b = Opened(sender)
        BY <1>5, <3>3
      <4>2. PICK i \in DOMAIN SDESItems : ~CanAddSDESNormalItem(s.b, reports.length[i])
        BY <1>5, <2>3
      <4>3. reports.length[i] \in 0 .. MaxItem
        BY <1>1 DEF OwnLengths
      <4> DEFINE n == reports.length[i]
      <4> HIDE DEF n
      <4>4. CanAddSDESNormalItem(Opened(sender), n)
        BY <4>3, OpenedTakes DEF n
      <4> QED
        BY <4>1, <4>2, <4>4 DEF n
    <3> QED
      BY <3>1, <3>2, <3>3
  <2>5. u \in Nat /\ OtherPeers \in Nat /\ OwnItems \in Nat
    BY OthersMost, PeersFinite
  <2> HIDE DEF u, cd
  <2> QED
    BY <1>6, <2>2, <2>3, <2>4, <2>5
<1>9. f.empty = {}
  BY NoneEmpty
<1> QED
  BY <1>3, <1>4, <1>5, <1>7, <1>8, <1>9, FinishKeeps DEF ps

\* A second run, for the sources that had their turn before.
LEMMA SecondKeeps ==
    ASSUME ReportsInv, NEW sender \in BOOLEAN, CanOpen(sender),
           NEW f \in Fills, Visited(f, peer), ~reports.processingsdes,
           f.added = <<>> => f.b = Opened(sender),
           \A q \in Peers : ShouldProcess(peer[q]) =>
               f.ps[q].processed /\ (peer[q].processed => q \in f.skipped),
           NEW due \in SUBSET DOMAIN SDESItems, NEW s, Collecting(s, f.b, due, {}),
           NEW r \in ReportRecords, ~r.processingsdes, NEW g,
           g = FillInReportBlocks(s.b, ClearAllSourceFlags(f.ps), Cardinality(f.skipped)),
           Finish(g.b, g.ps, r, f.added, f.skipped, g.added, f.empty \cup g.empty)
    PROVE  ReportsInv'
<1> DEFINE ps == ClearAllSourceFlags(f.ps)
           m == Cardinality(f.skipped)
<1>1. reports \in ReportRecords /\ peer \in [Peers -> PeerRecords] /\ peers \in Seq(Peers)
  BY ReportsParts
<1>2. f.ps \in [Peers -> PeerRecords] /\ f.added \in Seq(Peers) /\ f.skipped \subseteq Peers
  BY DEF Fills
<1>3. /\ ps \in [Peers -> PeerRecords]
      /\ \A p \in Peers : SameSource(ps[p], f.ps[p]) /\ ~ps[p].processed /\ ps[p].num = f.ps[p].num
  BY <1>2, ClearedPeers
<1>4. g = FillInReportBlocks(s.b, ps, m)
  OBVIOUS
<1>5. m \in Nat
  BY <1>2, PeersFinite, FS_Subset, FS_CardinalityType
<1> HIDE DEF ps, m
<1>6. \A p \in Peers : SameSource(ps[p], peer[p])
  <2>1. \A p \in Peers : SameSource(f.ps[p], peer[p])
    BY DEF Visited
  <2> QED
    BY <1>3, <2>1 DEF SameSource
<1>7. /\ s.done \in SUBSET DOMAIN SDESItems /\ Roomy(s.b)
      /\ (s.count = 0 => s.b = f.b)
      /\ (s.count # 0 => \E i \in s.done : i \notin {})
  BY DEF Collecting, Collects
<1>8. /\ g \in Fills /\ Roomy(g.b) /\ Visited(g, ps)
      /\ (g.added = <<>> => g.b = s.b)
      /\ (g.state = "full" => ~CanAddReportBlock(g.b))
      /\ (g.state = "enough" => g.added # <<>>)
      /\ (g.state = "going" => \A p \in Peers : ShouldProcess(ps[p]) => g.ps[p].processed)
  <2>1. \A p \in Peers : ps[p].sent => p \in ToSet(peers)
    BY <1>6 DEF ReportsInv, SameSource
  <2> QED
    BY <1>1, <1>3, <1>4, <1>5, <1>7, <2>1, FillEnds, SMTT(30)
<1>9. g.ps \in [Peers -> PeerRecords] /\ g.added \in Seq(Peers)
      /\ g.state \in {"going", "full", "enough"} /\ g.empty \subseteq Peers
  BY <1>8 DEF Fills
<1>10. \A p \in Peers : SameSource(g.ps[p], peer[p])
  <2>1. \A p \in Peers : SameSource(g.ps[p], ps[p])
    BY <1>8 DEF Visited
  <2> QED
    BY <1>6, <2>1 DEF SameSource
<1>11. Flags(r, g.ps)
  BY DEF Flags
<1>12. ASSUME NEW p \in Peers, ShouldProcess(peer[p]), p \notin ToSet(f.added \o g.added)
       PROVE  Left(r, g.ps, p) + 1 <= Left(reports, peer, p)
  <2> DEFINE u == Cardinality(Others(peer, p))
             c == Cardinality(Others(g.ps, p))
             d == Cardinality(Others(ps, p))
  <2>1. p \notin ToSet(f.added) /\ p \notin ToSet(g.added)
    <3>1. ToSet(f.added) \cup ToSet(g.added) \subseteq ToSet(f.added \o g.added)
      BY <1>2, <1>9, ToSetConcat
    <3> QED
      BY <1>12, <3>1
  <2>2. Left(reports, peer, p) = u + OtherPeers + OwnItems /\ (f.added # <<>> => 1 <= u)
    BY <1>12, <2>1, LeftOut
  <2>3. ~g.ps[p].processed
    BY <1>3, <1>8, <2>1 DEF Visited
  <2>4. Left(r, g.ps, p) = c
    BY <2>3 DEF Left
  <2>5. /\ u \in Nat /\ c \in Nat /\ d \in Nat /\ c <= OtherPeers /\ d <= OtherPeers
        /\ OtherPeers \in Nat /\ OwnItems \in Nat
    BY OthersMost, PeersFinite
  <2>6. c + 1 <= OtherPeers \/ 1 <= u \/ 1 <= OwnItems
    <3>1. CASE f.added # <<>>
      BY <2>2, <3>1
    <3>2. CASE 1 <= OwnItems
      BY <3>2
    <3>3. CASE f.added = <<>> /\ ~(1 <= OwnItems)
      <4>1. DOMAIN SDESItems = {}
        BY <2>5, <3>3, PeersFinite
      <4>2. s.b = Opened(sender)
        BY <1>7, <3>3, <4>1
      <4>3. g.added # <<>>
        <5> SUFFICES ASSUME g.added = <<>> PROVE FALSE
          OBVIOUS
        <5>1. CanAddReportBlock(g.b)
          BY <1>8, <4>2, OpenedTakes
        <5>2. g.state = "going"
          BY <1>8, <1>9, <5>1
        <5>3. ShouldProcess(ps[p])
          BY <1>6, <1>12, SameDue
        <5> QED
          BY <1>8, <2>3, <5>2, <5>3
      <4>4. PICK q \in Peers : q # p /\ ~ps[q].processed /\ g.ps[q].processed
        BY <1>8, <2>1, <4>3, AddedOther
      <4>5. c + 1 <= d
        BY <1>8, <4>4, FillProcesses, OthersFewer
      <4> HIDE DEF c, d, u
      <4> QED
        BY <2>5, <4>5
    <3> QED
      BY <3>1, <3>2, <3>3
  <2> HIDE DEF u, c, d
  <2> QED
    BY <2>2, <2>4, <2>5, <2>6
<1>13. f.empty \cup g.empty \subseteq ToSet(f.added) \cap ToSet(g.added)
  <2>1. f.empty = {}
    BY NoneEmpty
  <2>2. ASSUME NEW q \in g.empty PROVE q \in ToSet(f.added) /\ q \in ToSet(g.added)
    <3>1. q \in Peers
      BY <1>9
    <3>2. q \in ToSet(g.added) /\ ps[q].num = 0 /\ ShouldProcess(ps[q])
      BY <1>8, <3>1 DEF Visited
    <3>3. ShouldProcess(peer[q])
      BY <1>6, <3>1, <3>2, SameDue
    <3>4. peer[q].num > 0
      BY <3>1, <3>3 DEF ReportsInv, ShouldProcess
    <3>5. peer[q].num # 0 /\ f.ps[q].num = 0
      BY <1>3, <3>1, <3>2, <3>4
    <3>6. f.ps[q] # peer[q]
      BY <3>5
    <3> QED
      BY <3>1, <3>2, <3>6 DEF Visited
  <2> QED
    BY <2>1, <2>2
<1> QED
  BY <1>8, <1>9, <1>10, <1>11, <1>12, <1>13, FinishKeeps

LEMMA ReportsKeep ==
    ASSUME ReportsInv, NEW sender \in BOOLEAN, CanOpen(sender), ~reports.processingsdes,
           BuildReports(sender)
    PROVE  ReportsInv'
<1> DEFINE f == FillInReportBlocks(Opened(sender), peer, TotalCount)
           count == reports.sdesbuildcount + 1
           due == DueItems(count)
           s == FillInSDES(f.b, due, {})
           ps == ClearAllSourceFlags(f.ps)
           had == IF s.full THEN s.done ELSE {}
           r == [reports EXCEPT !.sdesbuildcount = count, !.due = due, !.processingsdes = s.full,
                                !.done = had]
           g == FillInReportBlocks(s.b, ps, Cardinality(f.skipped))
<1>1. /\ reports \in ReportRecords /\ peers \in Seq(Peers) /\ peer \in [Peers -> PeerRecords]
      /\ OwnLengths
  BY ReportsParts
<1>2. /\ ~(IsFull(f) /\ f.added = <<>>)
      /\ IsFull(f) => Finish(f.b, f.ps, reports, f.added, f.skipped, <<>>, f.empty)
      /\ ~IsFull(f) =>
            IF s.full \/ f.skipped = {}
            THEN Finish(s.b, ps, r, f.added, f.skipped, <<>>, f.empty)
            ELSE Finish(g.b, g.ps, r, f.added, f.skipped, g.added, f.empty \cup g.empty)
  BY DEF BuildReports
<1>3. Roomy(Opened(sender))
  BY OpenedRoomy
<1>4. /\ f \in Fills /\ Roomy(f.b) /\ Visited(f, peer)
      /\ (f.added = <<>> => f.b = Opened(sender)) /\ f.state # "enough"
      /\ (f.state = "going" => \A q \in Peers : ShouldProcess(peer[q]) =>
             f.ps[q].processed /\ (peer[q].processed => q \in f.skipped))
  <2>1. \A p \in Peers : peer[p].sent => p \in ToSet(peers)
    BY DEF ReportsInv
  <2>2. TotalCount \in Nat
    BY <1>1, LenProperties DEF TotalCount
  <2> QED
    BY <1>1, <1>3, <2>1, <2>2, FillEnds
<1>5. g = FillInReportBlocks(s.b, ClearAllSourceFlags(f.ps), Cardinality(f.skipped))
      /\ ps = ClearAllSourceFlags(f.ps)
  OBVIOUS
<1> HIDE DEF f
<1>6. due \in SUBSET DOMAIN SDESItems /\ count \in Nat
  BY <1>1 DEF DueItems, ReportRecords
<1>7. Collecting(s, f.b, due, {})
  <2>1. {} \in SUBSET DOMAIN SDESItems
    OBVIOUS
  <2> HIDE DEF due
  <2> QED
    BY <1>1, <1>4, <1>6, <2>1, CollectEnd
<1> HIDE DEF s, count, due, g, ps
<1>8. s.full \in BOOLEAN /\ had \in SUBSET DOMAIN SDESItems
  BY <1>7 DEF Collecting, Collects
<1> HIDE DEF had
<1>9. r \in ReportRecords /\ r.processingsdes = s.full /\ r.done = had
  <2> DEFINE p == [reports EXCEPT !.sdesbuildcount = count, !.due = due, !.done = had]
             full == s.full
  <2>1. p \in ReportRecords
    BY <1>1, <1>6, <1>8 DEF ReportRecords
  <2>2. r = [p EXCEPT !.processingsdes = full]
    BY <1>1 DEF ReportRecords
  <2>3. p.done = had
    BY <1>1 DEF ReportRecords
  <2>4. full \in BOOLEAN
    BY <1>8
  <2> HIDE DEF p, full, r
  <2>5. /\ [p EXCEPT !.processingsdes = full] \in ReportRecords
        /\ [p EXCEPT !.processingsdes = full].done = p.done
    BY <2>1, <2>4 DEF ReportRecords
  <2>6. [p EXCEPT !.processingsdes = full].processingsdes = full
    BY <2>1 DEF ReportRecords
  <2> QED
    BY <2>2, <2>3, <2>5, <2>6 DEF full
<1> HIDE DEF r
<1>10. CASE IsFull(f)
  BY <1>2, <1>4, <1>10, FullKeeps
<1>11. CASE ~IsFull(f)
  <2>1. f.state = "going"
    BY <1>4, <1>11 DEF IsFull, Fills
  <2>2. \A q \in Peers : ShouldProcess(peer[q]) =>
           f.ps[q].processed /\ (peer[q].processed => q \in f.skipped)
    BY <1>4, <2>1
  <2>3. CASE s.full \/ f.skipped = {}
    <3>1. Finish(s.b, ClearAllSourceFlags(f.ps), r, f.added, f.skipped, <<>>, f.empty)
      BY <1>2, <1>5, <1>11, <2>3
    <3>2. (r.processingsdes <=> s.full) /\ (s.full => r.done = s.done)
      BY <1>9 DEF had
    <3> QED
      BY <1>4, <1>6, <1>7, <1>9, <2>2, <2>3, <3>1, <3>2, LeftoverKeeps
  <2>4. CASE ~(s.full \/ f.skipped = {})
    <3>1. Finish(g.b, g.ps, r, f.added, f.skipped, g.added, f.empty \cup g.empty)
      BY <1>2, <1>11, <2>4
    <3>2. ~r.processingsdes
      BY <1>9, <2>4
    <3> QED
      BY <1>4, <1>5, <1>6, <1>7, <1>9, <2>2, <3>1, <3>2, SecondKeeps
  <2> QED
    BY <2>3, <2>4
<1> QED
  BY <1>10, <1>11
-----------------------------------------------------------------------------
(* The sources come and go.                                                  *)

LEMMA ListAppended ==
    ASSUME NEW S, NEW q \in Seq(S), IsInjective(q), NEW p \in S, p \notin ToSet(q)
    PROVE  IsInjective(Append(q, p))
<1> DEFINE w == Append(q, p)
           n == Len(q)
<1>1. w \in Seq(S) /\ Len(w) = n + 1 /\ w[n + 1] = p /\ \A i \in 1 .. n : w[i] = q[i]
  BY AppendProperties
<1>2. n \in Nat /\ DOMAIN q = 1 .. n /\ DOMAIN w = 1 .. n + 1
  BY <1>1, LenProperties
<1> HIDE DEF w, n
<1>3. \A i \in 1 .. n : q[i] # p
  BY <1>2 DEF ToSet
<1>4. \A i, j \in 1 .. n : q[i] = q[j] => i = j
  BY <1>2 DEF IsInjective
<1>5. \A i \in 1 .. n + 1 : i \in 1 .. n \/ i = n + 1
  BY <1>2
<1>6. \A i, j \in 1 .. n + 1 : w[i] = w[j] => i = j
  BY <1>1, <1>3, <1>4, <1>5
<1>7. IsInjective(w)
  BY <1>2, <1>6 DEF IsInjective
<1> QED
  BY <1>7 DEF w

LEMMA ListRemoved ==
    ASSUME NEW S, NEW q \in Seq(S), IsInjective(q), NEW i \in DOMAIN q
    PROVE  /\ RemoveAt(q, i) \in Seq(S) /\ IsInjective(RemoveAt(q, i))
           /\ \A x \in ToSet(q) : x # q[i] => x \in ToSet(RemoveAt(q, i))
<1> DEFINE n == Len(q)
           w == RemoveAt(q, i)
<1>1. n \in Nat /\ i \in 1 .. n /\ DOMAIN q = 1 .. n
  BY LenProperties
<1>2. /\ w \in Seq(S) /\ DOMAIN w = 1 .. n - 1
      /\ \A j \in 1 .. n - 1 : w[j] = q[IF j < i THEN j ELSE j + 1]
  <2>1. /\ w \in Seq(S) /\ DOMAIN w = 1 .. n - 1
        /\ \A j \in 1 .. n - 1 : w[j] = IF j < i THEN q[j] ELSE q[j + 1]
    BY WithoutOne
  <2> HIDE DEF w
  <2> QED
    BY <2>1
<1> HIDE DEF w
<1>3. \A a, b \in 1 .. n : q[a] = q[b] => a = b
  BY <1>1 DEF IsInjective
<1>4. IsInjective(w)
  <2> SUFFICES ASSUME NEW a \in 1 .. n - 1, NEW b \in 1 .. n - 1, w[a] = w[b] PROVE a = b
    BY <1>2 DEF IsInjective
  <2> DEFINE c == IF a < i THEN a ELSE a + 1
             d == IF b < i THEN b ELSE b + 1
  <2>1. c \in 1 .. n /\ d \in 1 .. n
    BY <1>1
  <2>2. w[a] = q[c] /\ w[b] = q[d]
    BY <1>2
  <2>3. c = d
    <3> HIDE DEF c, d
    <3> QED
      BY <1>3, <2>1, <2>2
  <2> QED
    BY <1>1, <2>3
<1>5. ASSUME NEW x \in ToSet(q), x # q[i] PROVE x \in ToSet(w)
  <2>1. PICK j \in 1 .. n : q[j] = x
    BY <1>1, <1>5 DEF ToSet
  <2>2. j # i
    BY <1>5, <2>1
  <2>3. PICK k \in 1 .. n - 1 : (IF k < i THEN k ELSE k + 1) = j
    <3>1. CASE j < i
      BY <1>1, <3>1
    <3>2. CASE j > i
      <4>1. j - 1 \in 1 .. n - 1 /\ ~(j - 1 < i) /\ (j - 1) + 1 = j
        BY <1>1, <3>2
      <4> QED
        BY <3>2, <4>1
    <3> QED
      BY <1>1, <2>2, <3>1, <3>2
  <2>4. w[k] = x
    BY <1>2, <2>1, <2>3
  <2> QED
    BY <1>2, <2>4 DEF ToSet
<1> QED
  BY <1>2, <1>4, <1>5 DEF w

\* A step that leaves the waiting of the sources alone.
LEMMA SourcesKeep ==
    ASSUME ReportsInv, reports' \in ReportRecords,
           peers' \in Seq(Peers), IsInjective(peers'), peer' \in [Peers -> PeerRecords],
           SameFlags(reports', peer', reports, peer), built' = built,
           \A p \in Peers : /\ peer'[p].sent => p \in ToSet(peers')
                            /\ (peer'[p].fresh \/ reports'.firstpacket) /\ peer'[p].sent
                                  => peer'[p].num > 0
                            /\ peer'[p].waits = peer[p].waits
    PROVE  ReportsInv'
<1>1. /\ \A p \in Peers : Left(reports', peer', p) = Left(reports, peer, p)
      /\ Flags(reports', peer')
  BY LeftSame, ReportsParts, Zenon
<1>2. ReportsTypeOK'
  BY DEF ReportsTypeOK, ReportRecords, PeerRecords
<1>3. \A p \in Peers : peer'[p].waits + Left(reports', peer', p) <= 2 * OtherPeers + OwnItems
  <2> SUFFICES ASSUME NEW p \in Peers
               PROVE  peer'[p].waits + Left(reports', peer', p) <= 2 * OtherPeers + OwnItems
    OBVIOUS
  <2>1. peer[p].waits + Left(reports, peer, p) <= 2 * OtherPeers + OwnItems
    BY DEF ReportsInv
  <2>2. peer'[p].waits = peer[p].waits /\ Left(reports', peer', p) = Left(reports, peer, p)
    BY <1>1
  <2> QED
    BY <2>1, <2>2
<1>4. Len(built'.packet) <= MaxPacket /\ built'.empty \subseteq ToSet(built'.first) \cap ToSet(built'.second)
  BY DEF ReportsInv
<1> QED
  BY <1>1, <1>2, <1>3, <1>4 DEF ReportsInv

LEMMA ReportsStart ==
    ASSUME ReportsInit
    PROVE  ReportsInv
<1>1. reports = NewReports /\ peers = <<>> /\ peer = [p \in Peers |-> NewPeer] /\ built = NoPacket
  BY DEF ReportsInit
<1>2. 0 \in 0 .. MaxItem /\ 0 \in 0 .. MaxRtp /\ MaxPacket \in Nat
  BY CompoundAssumption, ReportsAssumption, MaxPacketIs
<1>3. /\ NewReports \in ReportRecords /\ NewReports.processingsdes = FALSE
  BY <1>2 DEF NewReports, ReportRecords
<1>4. NewPeer \in PeerRecords /\ ~NewPeer.sent /\ NewPeer.waits = 0
  BY <1>2 DEF NewPeer, PeerRecords
<1>5. peers \in Seq(Peers) /\ IsInjective(peers)
  <2>1. <<>> \in Seq(Peers) /\ DOMAIN <<>> = {}
    BY EmptySeq
  <2> QED
    BY <1>1, <2>1 DEF IsInjective
<1>6. ReportsTypeOK
  <2>1. reports \in ReportRecords /\ peer \in [Peers -> PeerRecords]
    BY <1>1, <1>3, <1>4
  <2> QED
    BY <1>5, <2>1 DEF ReportsTypeOK, ReportRecords, PeerRecords
<1>7. Flags(reports, peer)
  BY <1>1, <1>3 DEF Flags
<1>8. ASSUME NEW p \in Peers
      PROVE  /\ ~peer[p].sent
             /\ peer[p].waits + Left(reports, peer, p) <= 2 * OtherPeers + OwnItems
  <2>1. peer[p] = NewPeer
    BY <1>1
  <2>2. Left(reports, peer, p) \in Nat /\ Left(reports, peer, p) <= 2 * OtherPeers + OwnItems
    BY <1>1, <1>3, <1>7, LeftMost
  <2> DEFINE l == Left(reports, peer, p)
  <2>3. peer[p].waits = 0
    BY <1>4, <2>1
  <2>4. 0 + l = l
    BY <2>2
  <2> QED
    BY <1>4, <2>1, <2>2, <2>3, <2>4
<1>9. Len(built.packet) <= MaxPacket /\ built.empty = {}
  BY <1>1, <1>2, EmptySeq DEF NoPacket
<1> QED
  BY <1>6, <1>7, <1>8, <1>9 DEF ReportsInv

LEMMA SettingKeeps ==
    ASSUME ReportsInv, NEW i \in DOMAIN SDESItems,
           (\E n \in Int : SetInterval(i, n)) \/ \E n \in 0 .. MaxItem : SetLocal(i, n)
    PROVE  ReportsInv'
<1>1. reports \in ReportRecords /\ peers \in Seq(Peers) /\ IsInjective(peers)
      /\ peer \in [Peers -> PeerRecords]
  BY ReportsParts
<1>2. /\ peers' = peers /\ peer' = peer /\ built' = built
      /\ \/ \E n \in Int : reports' = [reports EXCEPT !.interval[i] = n]
         \/ \E n \in 0 .. MaxItem : reports' = [reports EXCEPT !.length[i] = n]
  BY DEF SetInterval, SetLocal
<1>3. /\ reports' \in ReportRecords /\ reports'.processingsdes = reports.processingsdes
      /\ reports'.done = reports.done /\ reports'.firstpacket = reports.firstpacket
  <2>1. ASSUME NEW n \in Int, reports' = [reports EXCEPT !.interval[i] = n]
        PROVE  reports'.processingsdes = reports.processingsdes /\ reports' \in ReportRecords /\ reports'.done = reports.done
               /\ reports'.firstpacket = reports.firstpacket
    <3> DEFINE v == [reports.interval EXCEPT ![i] = n]
    <3>1. v \in [DOMAIN SDESItems -> Int]
      BY <1>1 DEF ReportRecords
    <3>2. reports' = [reports EXCEPT !.interval = v]
      BY <2>1
    <3> HIDE DEF v
    <3> QED
      BY <1>1, <3>1, <3>2 DEF ReportRecords
  <2>2. ASSUME NEW n \in 0 .. MaxItem, reports' = [reports EXCEPT !.length[i] = n]
        PROVE  reports'.processingsdes = reports.processingsdes /\ reports' \in ReportRecords /\ reports'.done = reports.done
               /\ reports'.firstpacket = reports.firstpacket
    <3> DEFINE v == [reports.length EXCEPT ![i] = n]
    <3>1. v \in [DOMAIN SDESItems -> 0 .. MaxItem]
      BY <1>1 DEF ReportRecords
    <3>2. reports' = [reports EXCEPT !.length = v]
      BY <2>2
    <3> HIDE DEF v
    <3> QED
      BY <1>1, <3>1, <3>2 DEF ReportRecords
  <2> QED
    BY <1>2, <2>1, <2>2
<1>4. SameFlags(reports', peer', reports, peer)
  BY <1>2, <1>3 DEF SameFlags
<1>5. \A p \in Peers : /\ peer'[p].sent => p \in ToSet(peers')
                       /\ (peer'[p].fresh \/ reports'.firstpacket) /\ peer'[p].sent
                             => peer'[p].num > 0
                       /\ peer'[p].waits = peer[p].waits
  BY <1>2, <1>3 DEF ReportsInv
<1> QED
  BY <1>1, <1>2, <1>3, <1>4, <1>5, SourcesKeep

LEMMA SendingKeeps ==
    ASSUME ReportsInv, NEW p \in Peers, PeerSends(p)
    PROVE  ReportsInv'
<1> DEFINE s == peer[p]
           n == IF s.num < MaxRtp THEN s.num + 1 ELSE s.num
           t == [s EXCEPT !.sent = TRUE, !.fresh = TRUE, !.num = n]
<1>1. reports \in ReportRecords /\ peers \in Seq(Peers) /\ IsInjective(peers)
      /\ peer \in [Peers -> PeerRecords]
  BY ReportsParts
<1>2. /\ peers' = IF p \in ToSet(peers) THEN peers ELSE Append(peers, p)
      /\ peer' = [peer EXCEPT ![p] = t] /\ reports' = reports /\ built' = built
  <2>1. /\ peers' = IF p \in ToSet(peers) THEN peers ELSE Append(peers, p)
        /\ reports' = reports /\ built' = built
    BY DEF PeerSends
  <2>2. peer' = [peer EXCEPT ![p] = peer'[p]]
    BY DEF PeerSends
  <2>3. peer'[p] = t
    BY <1>1 DEF PeerSends, PeerRecords
  <2> QED
    BY <2>1, <2>2, <2>3, Zenon
<1>3. s \in PeerRecords /\ n \in 0 .. MaxRtp /\ n > 0
  <2>1. s \in PeerRecords /\ s.num \in 0 .. MaxRtp
    BY <1>1 DEF PeerRecords
  <2>2. MaxRtp \in Nat \ {0}
    BY ReportsAssumption
  <2> QED
    BY <2>1, <2>2
<1> HIDE DEF s, n
<1>4. /\ t \in PeerRecords /\ t.num = n /\ t.waits = s.waits /\ t.processed = s.processed
  <2> DEFINE u == [s EXCEPT !.num = n]
             v == [u EXCEPT !.sent = TRUE]
  <2>1. u \in PeerRecords /\ u.num = n /\ u.waits = s.waits /\ u.processed = s.processed
    BY <1>3 DEF PeerRecords
  <2>2. t = [[u EXCEPT !.sent = TRUE] EXCEPT !.fresh = TRUE]
    BY <1>3 DEF PeerRecords
  <2> HIDE DEF u, t
  <2>3. v \in PeerRecords /\ v.num = n /\ v.waits = s.waits /\ v.processed = s.processed
    BY <2>1 DEF PeerRecords
  <2>4. t = [v EXCEPT !.fresh = TRUE]
    BY <2>2
  <2> HIDE DEF v
  <2> QED
    BY <2>3, <2>4 DEF PeerRecords
<1> HIDE DEF t
<1>5. /\ peer' \in [Peers -> PeerRecords] /\ peer'[p] = t
      /\ \A q \in Peers : q # p => peer'[q] = peer[q]
  BY <1>1, <1>2, <1>4
<1>6. SameFlags(reports', peer', reports, peer)
  BY <1>2, <1>4, <1>5 DEF SameFlags, s
<1>7. /\ peers' \in Seq(Peers) /\ IsInjective(peers') /\ ToSet(peers) \cup {p} \subseteq ToSet(peers')
  <2>1. CASE p \in ToSet(peers)
    BY <1>1, <1>2, <2>1
  <2>2. CASE p \notin ToSet(peers)
    BY <1>1, <1>2, <2>2, ToSetAppend, ListAppended
  <2> QED
    BY <2>1, <2>2
<1>8. ASSUME NEW q \in Peers
      PROVE  /\ peer'[q].sent => q \in ToSet(peers')
             /\ (peer'[q].fresh \/ reports'.firstpacket) /\ peer'[q].sent => peer'[q].num > 0
             /\ peer'[q].waits = peer[q].waits
  <2>1. CASE q = p
    BY <1>3, <1>4, <1>5, <1>7, <2>1 DEF s
  <2>2. CASE q # p
    BY <1>2, <1>5, <1>7, <2>2 DEF ReportsInv
  <2> QED
    BY <2>1, <2>2
<1> QED
  BY <1>1, <1>2, <1>5, <1>6, <1>7, <1>8, SourcesKeep

LEMMA ListedKeeps ==
    ASSUME ReportsInv, NEW p \in Peers, PeerListed(p)
    PROVE  ReportsInv'
<1> DEFINE s == peer[p]
           t == [s EXCEPT !.csrc = TRUE]
<1>1. reports \in ReportRecords /\ peers \in Seq(Peers) /\ IsInjective(peers)
      /\ peer \in [Peers -> PeerRecords]
  BY ReportsParts
<1>2. peers' = peers /\ peer' = [peer EXCEPT ![p] = t] /\ reports' = reports /\ built' = built
  BY DEF PeerListed
<1>3. s \in PeerRecords
  BY <1>1
<1> HIDE DEF s
<1>4. /\ t \in PeerRecords /\ t.num = s.num /\ t.waits = s.waits /\ t.processed = s.processed
      /\ t.sent = s.sent /\ t.fresh = s.fresh
  BY <1>3 DEF PeerRecords
<1> HIDE DEF t
<1>5. /\ peer' \in [Peers -> PeerRecords] /\ peer'[p] = t
      /\ \A q \in Peers : q # p => peer'[q] = peer[q]
  BY <1>1, <1>2, <1>4
<1>6. SameFlags(reports', peer', reports, peer)
  BY <1>2, <1>4, <1>5 DEF SameFlags, s
<1>7. ASSUME NEW q \in Peers
      PROVE  /\ peer'[q].sent => q \in ToSet(peers')
             /\ (peer'[q].fresh \/ reports'.firstpacket) /\ peer'[q].sent => peer'[q].num > 0
             /\ peer'[q].waits = peer[q].waits
  <2>1. /\ peer[q].sent => q \in ToSet(peers)
        /\ (peer[q].fresh \/ reports.firstpacket) /\ peer[q].sent => peer[q].num > 0
    BY DEF ReportsInv
  <2>2. /\ peer'[q].sent = peer[q].sent /\ peer'[q].fresh = peer[q].fresh
        /\ peer'[q].num = peer[q].num /\ peer'[q].waits = peer[q].waits
    BY <1>4, <1>5 DEF s
  <2> QED
    BY <1>2, <2>1, <2>2
<1> QED
  BY <1>1, <1>2, <1>5, <1>6, <1>7, SourcesKeep

LEMMA LeavingKeeps ==
    ASSUME ReportsInv, NEW p \in Peers, PeerTimesOut(p)
    PROVE  ReportsInv'
<1> DEFINE z(q) == [peer[q] EXCEPT !.waits = 0]
<1>1. reports \in ReportRecords /\ peers \in Seq(Peers) /\ IsInjective(peers)
      /\ peer \in [Peers -> PeerRecords] /\ Flags(reports, peer)
  BY ReportsParts
<1>2. PICK i \in DOMAIN peers : peers[i] = p /\ peers' = RemoveAt(peers, i)
  BY DEF PeerTimesOut
<1>3. /\ peer' = [q \in Peers |-> IF q = p THEN NewPeer ELSE z(q)]
      /\ reports' = reports /\ built' = built
  BY DEF PeerTimesOut
<1>4. peers' \in Seq(Peers) /\ IsInjective(peers')
      /\ \A q \in ToSet(peers) : q # p => q \in ToSet(peers')
  BY <1>1, <1>2, ListRemoved
<1>5. NewPeer \in PeerRecords /\ ~NewPeer.sent /\ NewPeer.waits = 0 /\ ~NewPeer.processed
  <2>1. 0 \in 0 .. MaxRtp
    BY ReportsAssumption
  <2> QED
    BY <2>1 DEF NewPeer, PeerRecords
<1>6. ASSUME NEW q \in Peers
      PROVE  /\ z(q) \in PeerRecords /\ z(q).sent = peer[q].sent /\ z(q).fresh = peer[q].fresh
             /\ z(q).num = peer[q].num /\ z(q).waits = 0 /\ z(q).processed = peer[q].processed
  <2> DEFINE s == peer[q]
  <2>1. s \in PeerRecords
    BY <1>1
  <2> HIDE DEF s
  <2>2. /\ [s EXCEPT !.waits = 0] \in PeerRecords
        /\ [s EXCEPT !.waits = 0].sent = s.sent /\ [s EXCEPT !.waits = 0].fresh = s.fresh
        /\ [s EXCEPT !.waits = 0].num = s.num /\ [s EXCEPT !.waits = 0].waits = 0
        /\ [s EXCEPT !.waits = 0].processed = s.processed
    BY <2>1 DEF PeerRecords
  <2> QED
    BY <2>2 DEF s
<1> HIDE DEF z
<1>7. /\ peer' \in [Peers -> PeerRecords] /\ peer'[p] = NewPeer
      /\ \A q \in Peers : q # p => peer'[q] = z(q)
  BY <1>3, <1>5, <1>6
<1>8. Flags(reports', peer')
  <2>1. \A q \in Peers : ~peer[q].processed => ~peer'[q].processed
    BY <1>5, <1>6, <1>7
  <2> QED
    BY <1>1, <1>3, <2>1 DEF Flags
<1>9. ASSUME NEW q \in Peers
      PROVE  /\ peer'[q].sent => q \in ToSet(peers')
             /\ (peer'[q].fresh \/ reports'.firstpacket) /\ peer'[q].sent => peer'[q].num > 0
             /\ peer'[q].waits + Left(reports', peer', q) <= 2 * OtherPeers + OwnItems
  <2>1. peer'[q].sent => q \in ToSet(peers')
    BY <1>4, <1>5, <1>6, <1>7 DEF ReportsInv
  <2>2. (peer'[q].fresh \/ reports'.firstpacket) /\ peer'[q].sent => peer'[q].num > 0
    <3>1. (peer[q].fresh \/ reports.firstpacket) /\ peer[q].sent => peer[q].num > 0
      BY DEF ReportsInv
    <3> QED
      BY <1>3, <1>5, <1>6, <1>7, <3>1
  <2>3. peer'[q].waits = 0
    BY <1>5, <1>6, <1>7
  <2> DEFINE l == Left(reports', peer', q)
  <2>4. l \in Nat /\ l <= 2 * OtherPeers + OwnItems
    BY <1>1, <1>3, <1>8, LeftMost
  <2>5. 0 + l = l
    BY <2>4
  <2> QED
    BY <2>1, <2>2, <2>3, <2>4, <2>5
<1>10. ReportsTypeOK'
  BY <1>1, <1>3, <1>4, <1>7 DEF ReportsTypeOK, ReportRecords, PeerRecords
<1>11. Len(built'.packet) <= MaxPacket /\ built'.empty \subseteq ToSet(built'.first) \cap ToSet(built'.second)
  BY <1>3 DEF ReportsInv
<1> QED
  BY <1>8, <1>9, <1>10, <1>11 DEF ReportsInv

LEMMA ByeKeeps ==
    ASSUME ReportsInv, NEW sender \in BOOLEAN, NEW reason \in ByteValues,
           BuildBYEPacket(sender, reason)
    PROVE  ReportsInv'
<1> DEFINE b == AddBYEPacket(Opened(sender), <<Own>>, reason)
           w == Layout(b)
<1>1. CanOpen(sender) /\ CanAddBYEPacket(Opened(sender), <<Own>>, reason)
  BY DEF BuildBYEPacket, CanBuildBYEPacket
<1>2. Roomy(b)
  <2>1. Roomy(Opened(sender)) /\ Opened(sender).byes = <<>>
    BY <1>1, OpenedRoomy, OpenedIs
  <2>2. <<Own>> \in Seq(ByteValues)
    BY OwnNumbers
  <2> DEFINE q == <<Own>>
             o == Opened(sender)
  <2>3. q \in Seq(ByteValues) /\ Roomy(o) /\ o.byes = <<>> /\ CanAddBYEPacket(o, q, reason)
    BY <1>1, <2>1, <2>2
  <2>4. b = AddBYEPacket(o, q, reason)
    OBVIOUS
  <2> HIDE DEF q, o, b
  <2> QED
    BY <2>3, <2>4, RoomBye
<1>3. Len(w) <= MaxPacket
  BY <1>2, RoomLaid
<1>4. built' = [NoPacket EXCEPT !.packet = w] /\ reports' = reports /\ peers' = peers /\ peer' = peer
  BY DEF BuildBYEPacket
<1> HIDE DEF w
<1>5. built'.packet = w /\ built'.empty = {}
  BY <1>4 DEF NoPacket
<1>6. ReportsTypeOK' /\ Flags(reports', peer')
  BY <1>4 DEF ReportsInv, ReportsTypeOK
<1>7. \A p \in Peers :
          /\ peer'[p].sent => p \in ToSet(peers')
          /\ (peer'[p].fresh \/ reports'.firstpacket) /\ peer'[p].sent => peer'[p].num > 0
          /\ peer'[p].waits + Left(reports', peer', p) <= 2 * OtherPeers + OwnItems
  BY <1>4 DEF ReportsInv
<1> QED
  BY <1>3, <1>5, <1>6, <1>7 DEF ReportsInv

LEMMA ReporterStep ==
    ASSUME ReportsInv, [ReporterNext]_reportVars
    PROVE  ReportsInv'
<1>1. CASE ReporterNext
  <2>1. ASSUME NEW i \in DOMAIN SDESItems,
               (\E n \in Int : SetInterval(i, n)) \/ \E n \in 0 .. MaxItem : SetLocal(i, n)
        PROVE  ReportsInv'
    BY <2>1, SettingKeeps
  <2>2. ASSUME NEW sender \in BOOLEAN, BuildNextPacket(sender) PROVE ReportsInv'
    BY <2>2, ItemsKeep, ReportsKeep DEF BuildNextPacket
  <2>3. ASSUME NEW sender \in BOOLEAN, NEW reason \in ByteValues, BuildBYEPacket(sender, reason)
        PROVE  ReportsInv'
    BY <2>3, ByeKeeps
  <2>4. ASSUME NEW p \in Peers, PeerSends(p) \/ PeerListed(p) \/ PeerTimesOut(p) PROVE ReportsInv'
    BY <2>4, SendingKeeps, ListedKeeps, LeavingKeeps
  <2> QED
    BY <1>1, <2>1, <2>2, <2>3, <2>4, Zenon DEF ReporterNext
<1>2. CASE UNCHANGED reportVars
  BY <1>2 DEF reportVars, ReportsInv, ReportsTypeOK
<1> QED
  BY <1>1, <1>2

\* Whatever the sources and the session do, the state of the reports has its type.
THEOREM ReportsTypes == ReporterSpec => []ReportsTypeOK
<1>1. ReportsInv => ReportsTypeOK
  BY DEF ReportsInv
<1> QED
  BY <1>1, ReportsStart, ReporterStep, PTL DEF ReporterSpec

\* No source waits for its block longer than the others and the items can make
\* it, no packet is larger than the session allows, and a block about no packet
\* is the second one of its source.
THEOREM ReportsSafety == ReporterSpec => []ReportsReachAll
<1>1. ReportsInv => ReportsReachAll
  <2> SUFFICES ASSUME ReportsInv PROVE ReportsReachAll
    OBVIOUS
  <2>1. ASSUME NEW p \in Peers
        PROVE  peer[p].waits <= 2 * (Cardinality(Peers) - 1) + Len(SDESItems)
    <3> DEFINE l == Left(reports, peer, p)
               x == peer[p].waits
               top == 2 * OtherPeers + OwnItems
    <3>1. l \in Nat
      BY ReportsParts, LeftMost
    <3>2. x \in Nat /\ x + l <= top
      BY ReportsParts DEF ReportsInv, PeerRecords
    <3>3. top \in Nat /\ top = 2 * (Cardinality(Peers) - 1) + Len(SDESItems)
      <4>1. OtherPeers \in Nat /\ OwnItems \in Nat
        BY OthersMost, PeersFinite
      <4> QED
        BY <4>1 DEF OtherPeers, OwnItems
    <3>4. x <= top
      <4> HIDE DEF l, x, top
      <4> QED
        BY <3>1, <3>2, <3>3
    <3> QED
      BY <3>3, <3>4
  <2> QED
    BY <2>1 DEF ReportsInv, ReportsReachAll
<1> QED
  BY <1>1, ReportsStart, ReporterStep, PTL DEF ReporterSpec
-----------------------------------------------------------------------------
(* The types of the other parts.                                             *)

ListDistinct == IsInjective(rtpbuilder.csrcs)

LEMMA NoneDistinct == IsInjective(<<>>)
<1>1. DOMAIN <<>> = {}
  OBVIOUS
<1> QED
  BY <1>1 DEF IsInjective

\* The last source takes the place of the deleted one.
LEMMA LastMoved ==
    ASSUME NEW S, NEW q \in Seq(S), IsInjective(q), NEW i \in DOMAIN q,
           NEW r, NEW t,
           r = Front(q), t = IF i > Len(r) THEN r ELSE [r EXCEPT ![i] = Last(q)]
    PROVE  IsInjective(t)
<1> DEFINE n == Len(q)
           m == n - 1
<1>1. n \in Nat /\ i \in 1 .. n /\ DOMAIN q = 1 .. n /\ \A j \in 1 .. n : q[j] \in S
  BY LenProperties, ElementOfSeq
<1>2. /\ m \in Nat /\ n \in 1 .. n /\ n = m + 1
      /\ \A a, b \in 1 .. n : q[a] = q[b] => a = b
  BY <1>1 DEF IsInjective
<1>3. r = SubSeq(q, 1, m) /\ Last(q) = q[n]
  BY DEF Front, Last
<1> HIDE DEF n, m
<1>4. r \in Seq(S) /\ Len(r) = m /\ DOMAIN r = 1 .. m /\ \A j \in 1 .. m : r[j] = q[j]
  <2>1. 1 \in Int /\ m \in Int /\ (\A j \in 1 .. m : q[j] \in S)
    BY <1>1, <1>2
  <2>2. /\ SubSeq(q, 1, m) \in Seq(S) /\ Len(SubSeq(q, 1, m)) = (IF 1 <= m THEN m - 1 + 1 ELSE 0)
        /\ \A j \in 1 .. m - 1 + 1 : SubSeq(q, 1, m)[j] = q[1 + j - 1]
    BY <2>1, SubSeqProperties
  <2>3. (IF 1 <= m THEN m - 1 + 1 ELSE 0) = m /\ m - 1 + 1 = m /\ \A j \in 1 .. m : 1 + j - 1 = j
    BY <1>2
  <2>4. r \in Seq(S) /\ Len(r) = m /\ \A j \in 1 .. m : r[j] = q[j]
    BY <1>3, <2>2, <2>3
  <2> QED
    BY <2>4, LenProperties
<1>5. CASE i > Len(r)
  <2>1. t = r
    BY <1>5
  <2>2. \A a, b \in 1 .. m : r[a] = r[b] => a = b
    BY <1>2, <1>4
  <2> QED
    BY <1>4, <2>1, <2>2 DEF IsInjective
<1>6. CASE ~(i > Len(r))
  <2>1. i \in 1 .. m
    BY <1>1, <1>2, <1>4, <1>6
  <2>2. t = [r EXCEPT ![i] = q[n]]
    BY <1>3, <1>6
  <2>3. /\ DOMAIN t = 1 .. m /\ t[i] = q[n]
        /\ \A j \in 1 .. m : j # i => t[j] = q[j]
    BY <1>4, <2>1, <2>2
  <2>4. \A j \in 1 .. m : j \in 1 .. n /\ j # n
    BY <1>2
  <2>5. ASSUME NEW a \in 1 .. m, NEW b \in 1 .. m, t[a] = t[b] PROVE a = b
    <3>1. CASE a = i /\ b # i
      <4>1. q[n] = q[b]
        BY <2>3, <2>5, <3>1
      <4> QED
        BY <1>2, <2>4, <4>1
    <3>2. CASE a # i /\ b = i
      <4>1. q[n] = q[a]
        BY <2>3, <2>5, <3>2
      <4> QED
        BY <1>2, <2>4, <4>1
    <3>3. CASE a # i /\ b # i
      <4>1. q[a] = q[b]
        BY <2>3, <2>5, <3>3
      <4> QED
        BY <1>2, <2>4, <4>1
    <3> QED
      BY <3>1, <3>2, <3>3
  <2> QED
    BY <2>3, <2>5 DEF IsInjective
<1> QED
  BY <1>5, <1>6

LEMMA RtpListStep ==
    ASSUME RtpInv, ListDistinct, [RtpNext]_rtpVars
    PROVE  ListDistinct'
<1> DEFINE q == rtpbuilder.csrcs
<1>1. rtpbuilder \in RtpBuilders /\ q \in Seq(Uint32)
  BY ListIs DEF RtpInv
<1>2. ASSUME rtpbuilder'.csrcs = q \/ rtpbuilder'.csrcs = <<>> PROVE ListDistinct'
  BY <1>2, NoneDistinct DEF ListDistinct
<1>3. ASSUME NEW max \in Nat, InitBuilder(max) \/ SetMaximumPacketSize(max) PROVE ListDistinct'
  <2>1. rtpbuilder'.csrcs = q \/ rtpbuilder'.csrcs = <<>>
    BY <1>1, <1>3 DEF InitBuilder, SetMaximumPacketSize, SetUp, CreateNewSSRC, RtpBuilders
  <2> QED
    BY <1>2, <2>1
<1>4. CASE DestroyBuilder \/ NewSSRC \/ ClearCSRCList \/ IncrementTimestampDefault \/ Passes
  <2>1. rtpbuilder'.csrcs = q \/ rtpbuilder'.csrcs = <<>>
    BY <1>1, <1>4 DEF DestroyBuilder, NewSSRC, ClearCSRCList, IncrementTimestampDefault,
                      IncrementTimestamp, Passes, SetUp, CreateNewSSRC, RtpBuilders
  <2> QED
    BY <1>2, <2>1
<1>5. ASSUME NEW n \in Uint32, AddCSRC(n) PROVE ListDistinct'
  <2> DEFINE w == Append(q, n)
  <2>1. n \notin ToSet(q)
    BY <1>5 DEF AddCSRC, ToSet
  <2>2. IsInjective(w)
    BY <1>1, <2>1, ListAppended DEF ListDistinct
  <2>3. rtpbuilder' = [rtpbuilder EXCEPT !.csrcs = w]
    BY <1>5, Zenon DEF AddCSRC, SetUp
  <2> HIDE DEF w
  <2>4. rtpbuilder'.csrcs = w
    BY <1>1, <2>3 DEF RtpBuilders
  <2> QED
    BY <2>2, <2>4 DEF ListDistinct
<1>6. ASSUME NEW n \in Uint32, DeleteCSRC(n) PROVE ListDistinct'
  <2> DEFINE r == Front(q)
             c(i) == IF i > Len(r) THEN r ELSE [r EXCEPT ![i] = Last(q)]
  <2>1. PICK i \in DOMAIN q : rtpbuilder' = [rtpbuilder EXCEPT !.csrcs = c(i)]
    BY <1>6, Zenon DEF DeleteCSRC, SetUp
  <2>2. IsInjective(c(i))
    <3> HIDE DEF q
    <3>1. IsInjective(q)
      BY DEF ListDistinct, q
    <3> QED
      BY <1>1, <3>1, LastMoved
  <2> HIDE DEF c
  <2>3. rtpbuilder'.csrcs = c(i)
    BY <1>1, <2>1 DEF RtpBuilders
  <2> QED
    BY <2>2, <2>3 DEF ListDistinct
<1>7. ASSUME NEW n \in Uint32, SetDefaultTimestampIncrement(n) \/ IncrementTimestamp(n) PROVE ListDistinct'
  <2>1. rtpbuilder'.csrcs = q
    BY <1>1, <1>7 DEF SetDefaultTimestampIncrement, IncrementTimestamp, SetUp, RtpBuilders
  <2> QED
    BY <1>2, <2>1
<1>8. ASSUME NEW pt, SetDefaultPayloadType(pt) \/ SetDefaultMark(pt) PROVE ListDistinct'
  <2>1. rtpbuilder'.csrcs = q
    BY <1>1, <1>8 DEF SetDefaultPayloadType, SetDefaultMark, SetUp, RtpBuilders
  <2> QED
    BY <1>2, <2>1
<1>9. ASSUME NEW p, NEW inc, PacketBuilt(p, inc) PROVE ListDistinct'
  <2>1. rtpbuilder'.csrcs = q
    BY <1>1, <1>9 DEF PacketBuilt, RtpBuilders
  <2> QED
    BY <1>2, <2>1
<1>10. ASSUME NEW payload, BuildPacketEX(payload) \/ ReceiveRtp(payload) PROVE ListDistinct'
  BY <1>2, <1>9, <1>10 DEF BuildPacketEX, ReceiveRtp
<1>11. ASSUME NEW pt, NEW mark, NEW inc, NEW ext, NEW payload, BuildPacketWith(pt, mark, inc, ext, payload)
       PROVE  ListDistinct'
  BY <1>9, <1>11 DEF BuildPacketWith
<1>12. ASSUME NEW ext, NEW payload, BuildDefault(ext, payload) PROVE ListDistinct'
  BY <1>11, <1>12 DEF BuildDefault
<1>13. CASE UNCHANGED rtpVars
  BY <1>2, <1>13 DEF rtpVars
<1> QED
  BY <1>3, <1>4, <1>5, <1>6, <1>7, <1>8, <1>10, <1>11, <1>12, <1>13, Zenon DEF RtpNext

\* The builder of the RTP packets keeps to the widths of its counters, and lists no
\* contributor twice and no more of them than a header has room for.
THEOREM RtpTypes == RtpSpec => []RtpTypeOK
<1>1. RtpInit => RtpInv /\ ListDistinct
  BY RtpStarts, NoneDistinct DEF RtpInit, NewRtpBuilder, ListDistinct
<1>2. RtpInv /\ ListDistinct /\ [RtpNext]_rtpVars => RtpInv' /\ ListDistinct'
  BY RtpNextKeepsIt, RtpListStep
<1>3. RtpInv /\ ListDistinct => RtpTypeOK
  <2> SUFFICES ASSUME RtpInv, ListDistinct PROVE RtpTypeOK
    OBVIOUS
  <2>1. rtpbuilder \in RtpBuilders /\ wire \in Seq(Octets)
    BY DEF RtpInv
  <2>2. /\ rtpbuilder.init \in BOOLEAN /\ rtpbuilder.timestamp \in {n \in Nat : n < StampWrap}
        /\ rtpbuilder.seqnr \in {n \in Nat : n < SeqWrap} /\ Len(rtpbuilder.csrcs) <= MaxCSRCs
    BY <2>1 DEF RtpBuilders
  <2>3. Octets = 0 .. 255
    BY DEF Octets
  <2>4. rtpbuilder.timestamp \in 0 .. StampWrap - 1 /\ rtpbuilder.seqnr \in 0 .. SeqWrap - 1
    BY <2>2, Constants
  <2> QED
    BY <2>1, <2>2, <2>3, <2>4 DEF RtpTypeOK, ListDistinct
<1> QED
  BY <1>1, <1>2, <1>3, PTL DEF RtpSpec
-----------------------------------------------------------------------------
(* The parts together: each step of a part is one of its general             *)
(* specification, with arguments that its calls may have.                    *)

LEMMA RtpCallsRun == RtpCalls => RtpNext
<1> SUFFICES ASSUME RtpCalls PROVE RtpNext
  OBVIOUS
<1>1. Contributors \subseteq Uint32 /\ 3 \in Uint32 /\ 1 \in Uint32 /\ 0 \in Uint32
  BY SMT DEF Uint32, Contributors
<1>2. {0, 72, 224} \subseteq Octets /\ 96 \in Octets /\ {24, 16} \subseteq Nat /\ {TRUE, FALSE} \subseteq BOOLEAN
  BY DEF Octets
<1>3. CASE Prepares
  <2>1. CASE InitBuilder(24)
    BY <1>2, <2>1, Zenon DEF RtpNext
  <2>2. CASE \E pt \in {0, 72, 224} : SetDefaultPayloadType(pt)
    BY <1>2, <2>2, Zenon DEF RtpNext
  <2>3. CASE SetDefaultMark(TRUE)
    BY <1>2, <2>3, Zenon DEF RtpNext
  <2>4. CASE SetDefaultTimestampIncrement(3)
    BY <1>1, <2>4, Zenon DEF RtpNext
  <2>5. CASE \E c \in Contributors : AddCSRC(c) \/ DeleteCSRC(c)
    BY <1>1, <2>5, Zenon DEF RtpNext
  <2>6. CASE ClearCSRCList
    BY <2>6, Zenon DEF RtpNext
  <2> QED
    BY <1>3, <2>1, <2>2, <2>3, <2>4, <2>5, <2>6, Zenon DEF Prepares
<1>4. CASE Changes
  <2>1. CASE NewSSRC \/ DestroyBuilder \/ IncrementTimestampDefault \/ Passes
    BY <2>1, Zenon DEF RtpNext
  <2>2. CASE SetMaximumPacketSize(16)
    BY <1>2, <2>2, Zenon DEF RtpNext
  <2>3. CASE IncrementTimestamp(1)
    BY <1>1, <2>3, Zenon DEF RtpNext
  <2> QED
    BY <1>4, <2>1, <2>2, <2>3, Zenon DEF Changes
<1>5. CASE Builds
  <2>1. Extensions \subseteq HeaderExtensions
    <3> DEFINE e == [id |-> 258, data |-> <<1, 2, 3, 4>>]
    <3>1. 258 \in Uint16
      BY SMT DEF Uint16
    <3>2. <<1, 2, 3, 4>> \in Seq(Octets)
      <4>1. {1, 2, 3, 4} \subseteq Octets
        BY DEF Octets
      <4> QED
        BY <4>1
    <3>3. e \in [id : Uint16, data : Seq(Octets)] /\ e.data = <<1, 2, 3, 4>>
      BY <3>1, <3>2
    <3> DEFINE Right(a) == Len(a.data) % 4 = 0 /\ Len(a.data) \div 4 < 65536
    <3> HIDE DEF e
    <3>4. Right(e)
      <4>1. Len(e.data) = 4
        BY <3>3
      <4> QED
        BY <4>1, SMT
    <3>5. e \in HeaderExtensions
      <4>1. HeaderExtensions = {NoExtension} \cup {a \in [id : Uint16, data : Seq(Octets)] : Right(a)}
        BY DEF HeaderExtensions
      <4> HIDE DEF Right
      <4> QED
        BY <3>3, <3>4, <4>1
    <3>6. NoExtension \in HeaderExtensions
      BY SMT DEF HeaderExtensions
    <3> QED
      BY <3>5, <3>6, SMT DEF Extensions, e
  <2>2. Payloads \subseteq Seq(Octets)
    <3>1. {7, 8, 9} \subseteq Octets
      BY DEF Octets
    <3>2. <<7, 8, 9>> \in Seq(Octets) /\ <<>> \in Seq(Octets)
      BY <3>1
    <3> QED
      BY <3>2 DEF Payloads
  <2>3. PICK e \in Extensions, p \in Payloads :
            BuildDefault(e, p) \/ BuildPacketWith(96, FALSE, 0, e, p) \/ BuildPacketEX(p)
    BY <1>5, Zenon DEF Builds
  <2>4. e \in HeaderExtensions /\ p \in Seq(Octets) /\ 96 \in Octets /\ FALSE \in BOOLEAN /\ 0 \in Uint32
    BY <1>1, <1>2, <2>1, <2>2, Zenon
  <2> QED
    BY <2>3, <2>4, Zenon DEF RtpNext
<1>6. CASE Comes
  <2>1. PICK p \in 0 .. 1, x \in 0 .. 1, c \in 0 .. 2, second \in {0, 200, 73},
             n \in {11, 12, 16, 20, 24}, f \in {0, 1, 2, 13} :
               ReceiveRtp(Arriving(p, x, c, second, n, f))
    BY <1>6, Zenon DEF Comes
  <2>2. Arriving(p, x, c, second, n, f) \in Seq(Octets)
    <3> DEFINE h == 128 + 32 * p + 16 * x + c
               s == [i \in 1 .. n - 2 |-> IF i % 4 = 2 THEN f ELSE 0]
    <3>1. h \in Octets /\ second \in Octets /\ f \in Octets /\ 0 \in Octets
      BY <2>1 DEF Octets
    <3> HIDE DEF h
    <3>2. <<h, second>> \in Seq(Octets)
      BY <3>1
    <3>3. s \in Seq(Octets)
      <4>1. n - 2 \in Nat
        BY <2>1
      <4>2. s \in [1 .. n - 2 -> Octets]
        BY <3>1
      <4> HIDE DEF s
      <4> QED
        BY <4>1, <4>2
    <3> HIDE DEF s
    <3>4. <<h, second>> \o s \in Seq(Octets)
      BY <3>2, <3>3
    <3> QED
      BY <3>4 DEF h, s, Arriving
  <2> QED
    BY <2>1, <2>2, Zenon DEF RtpNext
<1> QED
  BY <1>3, <1>4, <1>5, <1>6 DEF RtpCalls

LEMMA ChunksCome ==
    ASSUME NEW n \in 0 .. 4, NEW c \in 0 .. 2, NEW pad \in 0 .. 1, NEW w \in [1 .. n -> Chunks]
    PROVE  <<128 + c + 32 * pad, SDES, 0, n>> \o FlattenSeq(w) \in Seq(ByteValues)
<1> DEFINE h == 128 + c + 32 * pad
<1>1. h \in ByteValues /\ SDES \in ByteValues /\ 0 \in ByteValues /\ n \in ByteValues
  BY DEF ByteValues, SDES
<1> HIDE DEF h
<1>2. <<h, SDES, 0, n>> \in Seq(ByteValues)
  BY <1>1
<1>3. Chunks \subseteq Seq(ByteValues)
  <2>1. {0, 1, 2, 4, 6, 7, 8} \subseteq ByteValues
    BY DEF ByteValues
  <2>2. \A a, b, d, e \in {0, 1, 2, 4, 6, 7, 8} : <<a, b, d, e>> \in Seq(ByteValues)
    BY <2>1
  <2> QED
    BY <2>2 DEF Chunks
<1>4. w \in Seq(Seq(ByteValues))
  <2>1. n \in Nat /\ w \in [1 .. n -> Seq(ByteValues)]
    BY <1>3
  <2> QED
    BY <2>1
<1>5. FlattenSeq(w) \in Seq(ByteValues)
  BY <1>4, FlattenJoined
<1> DEFINE s == FlattenSeq(w)
<1> HIDE DEF s
<1>6. <<h, SDES, 0, n>> \o s \in Seq(ByteValues)
  BY <1>2, <1>5 DEF s
<1> QED
  BY <1>6 DEF h, s

LEMMA CompoundCallsRun == Laying /\ CompoundNext => BuilderNext
<1> SUFFICES ASSUME Laying, CompoundNext PROVE BuilderNext
  OBVIOUS
<1>1. Len(builder.blocks) \in Nat /\ Len(builder.sources) \in Nat
  <2>1. builder \in Builders
    BY LayingTyped DEF BuilderTypeOK
  <2>2. builder.blocks \in Seq([ssrc : ByteValues, lost : Int])
        /\ builder.sources \in Seq([ssrc : ByteValues, items : Seq(Seq(ByteValues))])
    BY <2>1, Zenon DEF Builders
  <2> QED
    BY <2>2
<1>2. 0 .. 84 \subseteq ByteValues /\ 0 .. 84 \subseteq Nat /\ \A n \in 0 .. 84 : n <= MaxPackSize
  BY SMT DEF ByteValues, MaxPackSize
<1>3. {0, 1, 2, 3, 4, 72, 84} \subseteq 0 .. 84
  BY SMT
<1>4. CASE Assembles
  <2>1. CASE CallInitBuild(84)
    BY <1>2, <1>3, <2>1, Zenon DEF BuilderNext
  <2>2. CASE CallStartReport(1)
    BY <1>2, <1>3, <2>2, Zenon DEF BuilderNext
  <2>3. CASE \E i \in {Len(builder.blocks) + 1} :
                 i < 4 /\ CallAddReportBlock([ssrc |-> i, lost |-> PacketLosses[i]])
    <3>1. PICK i : /\ i = Len(builder.blocks) + 1 /\ i < 4
                   /\ CallAddReportBlock([ssrc |-> i, lost |-> PacketLosses[i]])
      BY <2>3, Zenon
    <3>2. i \in {1, 2, 3}
      BY <1>1, <3>1, SMT
    <3>3. PacketLosses[i] \in Int
      BY <3>2, SMT DEF PacketLosses
    <3>4. i \in ByteValues
      BY <1>2, <1>3, <3>2, Zenon
    <3> QED
      BY <3>1, <3>3, <3>4, Zenon DEF BuilderNext
  <2>4. CASE Len(builder.sources) < 3 /\ CallAddSDESSource(Len(builder.sources) + 1)
    <3> DEFINE m == Len(builder.sources)
    <3>1. m + 1 \in 0 .. 84
      <4>1. m \in Nat /\ m < 3
        BY <1>1, <2>4
      <4> HIDE DEF m
      <4> QED
        BY <4>1, SMT
    <3> QED
      BY <1>2, <2>4, <3>1, Zenon DEF BuilderNext
  <2>5. CASE \E n \in {0, 3} : CallAddNormalItem(1, n)
    <3>1. 1 \in 1 .. 7
      OBVIOUS
    <3> QED
      BY <1>2, <1>3, <2>5, <3>1, Zenon DEF BuilderNext
  <2>6. CASE \E q \in {<<0, 1>>, <<1, 1>>} : CallAddPrivateItem(q[1], q[2])
    <3>1. CallAddPrivateItem(0, 1) \/ CallAddPrivateItem(1, 1)
      BY <2>6, SMT
    <3> QED
      BY <1>2, <1>3, <3>1, Zenon DEF BuilderNext
  <2>7. CASE \E n \in {0, 3} : CallAddBYEPacket(<<1, 2>>, n)
    <3>1. <<1, 2>> \in Seq(ByteValues)
      <4>1. 1 \in ByteValues /\ 2 \in ByteValues
        BY <1>2, <1>3
      <4> QED
        BY <4>1
    <3> QED
      BY <1>2, <1>3, <2>7, <3>1, Zenon DEF BuilderNext
  <2>8. CASE \E n \in {4, 72} : CallAddAPPPacket(3, 1, n)
    <3>1. {4, 72} \subseteq Nat /\ 3 \in Nat /\ 1 \in ByteValues
      BY <1>2, <1>3
    <3> QED
      BY <2>8, <3>1, ZenonT(60) DEF BuilderNext
  <2>9. CASE CallEndBuild
    BY <2>9, Zenon DEF BuilderNext
  <2> QED
    BY <1>4, <2>1, <2>2, <2>3, <2>4, <2>5, <2>6, <2>7, <2>8, <2>9, Zenon DEF Assembles
<1>5. CASE Arrives
  <2>1. PICK n \in 0 .. 4, c \in 0 .. 2, pad \in 0 .. 1 : \E w \in [1 .. n -> Chunks] :
             Receive(<<128 + c + 32 * pad, SDES, 0, n>> \o FlattenSeq(w))
    BY <1>5, Zenon DEF Arrives
  <2>2. PICK s \in Seq(ByteValues) : Receive(s)
    BY <2>1, ChunksCome, Zenon
  <2> QED
    BY <2>2, Zenon DEF BuilderNext
<1> QED
  BY <1>4, <1>5 DEF CompoundNext

LEMMA ReportCallsRun == ReportsInv /\ ReportsNext => ReporterNext
<1> SUFFICES ASSUME ReportsInv, ReportsNext PROVE ReporterNext
  OBVIOUS
<1>1. MCItems = <<2, 3>> /\ SDESItems = MCItems /\ DOMAIN SDESItems = 1 .. 2 /\ DOMAIN MCItems = 1 .. 2
  BY PacketsAssumption DEF MCItems
<1>2. {0, 5, 30} \subseteq 0 .. MaxItem
  BY CompoundAssumption, PacketsAssumption
<1>3. 3 \in ByteValues
  BY DEF ByteValues
<1>4. peers \in Seq(Peers)
  BY DEF ReportsInv, ReportsTypeOK
<1>5. 1 \in DOMAIN SDESItems /\ 2 \in DOMAIN SDESItems
  BY <1>1
<1>6. CASE Settings
  <2>1. CASE SetLocal(1, 5) \/ SetLocal(2, 30) \/ SetLocal(2, 0)
    BY <1>2, <1>5, <2>1, Zenon DEF ReporterNext
  <2>2. CASE \E i \in {Cardinality({k \in DOMAIN MCItems : reports.interval[k] # -1}) + 1} :
                 ~Ready /\ SetInterval(i, i)
    <3> DEFINE S == {k \in DOMAIN MCItems : reports.interval[k] # -1}
               i == Cardinality(S) + 1
    <3>1. SetInterval(i, i) /\ ~Ready
      BY <2>2
    <3>2. PICK j \in 1 .. 2 : reports.interval[j] = -1
      BY <1>1, <3>1 DEF Ready
    <3>3. \E k : S \subseteq {k}
      <4>1. S \subseteq {3 - j}
        BY <1>1, <3>2
      <4> QED
        BY <4>1
    <3>4. Cardinality(S) \in {0, 1}
      <4>1. PICK k : S \subseteq {k}
        BY <3>3
      <4> HIDE DEF S
      <4>2. S = {} \/ S = {k}
        BY <4>1
      <4> QED
        BY <4>2, FS_EmptySet, FS_Singleton, Zenon
    <3> HIDE DEF S
    <3>5. i \in DOMAIN SDESItems /\ i \in Int
      BY <1>1, <3>4
    <3> HIDE DEF i
    <3> QED
      BY <3>1, <3>5, Zenon DEF ReporterNext
  <2> QED
    BY <1>6, <2>1, <2>2, Zenon DEF Settings
<1>7. CASE BuildNextPacket(FALSE) \/ BuildNextPacket(TRUE) \/ BuildBYEPacket(FALSE, 3)
  BY <1>3, <1>7, Zenon DEF ReporterNext
<1>8. CASE (\E p \in Peers : PeerSends(p)) \/ \E p \in Peers : PeerTimesOut(p)
  BY <1>8, Zenon DEF ReporterNext
<1>9. CASE PeerListed(1)
  <2>1. 1 \in Peers
    BY <1>4, <1>9 DEF PeerListed, ToSet
  <2> QED
    BY <1>9, <2>1, Zenon DEF ReporterNext
<1> QED
  BY <1>6, <1>7, <1>8, <1>9, Zenon DEF ReportsNext

PartsStand == Laying /\ ReportsInv

LEMMA PartsStart == PacketsInit => PartsStand
  BY LayingInit, ReportsStart DEF PacketsInit, PartsStand

LEMMA PartsStep ==
    ASSUME PartsStand, [PacketsNext]_mcVars
    PROVE  /\ [Next]_vars /\ [RtpNext]_rtpVars /\ [BuilderNext]_packetVars
           /\ [ReporterNext]_reportVars /\ [SdesNext]_sdesVars /\ [LimitsNext]_limitVars
<1>1. CASE NextMessage
  BY <1>1, Zenon DEF NextMessage
<1>2. CASE NextRtp
  BY <1>2, RtpCallsRun, Zenon DEF NextRtp
<1>3. CASE NextCompound
  BY <1>3, CompoundCallsRun, Zenon DEF NextCompound, PartsStand
<1>4. CASE NextReports
  BY <1>4, ReportCallsRun, Zenon DEF NextReports, PartsStand
<1>5. CASE NextSdes
  BY <1>5, Zenon DEF NextSdes
<1>6. CASE NextLimits
  BY <1>6, Zenon DEF NextLimits
<1>7. CASE UNCHANGED mcVars
  BY <1>7, Zenon DEF mcVars
<1> QED
  BY <1>1, <1>2, <1>3, <1>4, <1>5, <1>6, <1>7, Zenon DEF PacketsNext

LEMMA PartsStandStep == PartsStand /\ [PacketsNext]_mcVars => PartsStand'
  BY PartsStep, LayingStep, ReporterStep DEF PartsStand

\* What goes out does so by each of its parts as that part may at any time: what is
\* proved of a part alone is so of all of them.
THEOREM PartsRun ==
    PacketsSpec => Spec /\ RtpSpec /\ BuilderSpec /\ ReporterSpec /\ SdesSpec /\ LimitsSpec
<1>1. PacketsInit => Init /\ RtpInit /\ BuilderInit /\ ReportsInit /\ SdesInit /\ LimitsInit
  BY DEF PacketsInit
<1>2. PartsStand /\ [PacketsNext]_mcVars =>
          /\ [Next]_vars /\ [RtpNext]_rtpVars /\ [BuilderNext]_packetVars
          /\ [ReporterNext]_reportVars /\ [SdesNext]_sdesVars /\ [LimitsNext]_limitVars
  BY PartsStep
<1> QED
  BY <1>1, <1>2, PartsStart, PartsStandStep, PTL
     DEF PacketsSpec, Spec, RtpSpec, BuilderSpec, ReporterSpec, SdesSpec, LimitsSpec

\* The variables of every part keep their types, whatever goes out.
THEOREM PacketsTypes == PacketsSpec => []PacketsTypeOK
<1>1. SendInv => TypeOK
  BY DEF SendInv
<1>2. SdesSpec => []SdesTypeOK
  <2>1. SdesInv => SdesTypeOK
    BY DEF SdesInv
  <2> QED
    BY <2>1, SdesStarts, SdesNextKeepsIt, PTL DEF SdesSpec
<1>3. LimitsSpec => []LimitsTypeOK
  <2>1. LimitsInv => LimitsTypeOK
    BY DEF LimitsInv
  <2> QED
    BY <2>1, LimitsNextKeepsIt, InitHasIt, PTL DEF LimitsSpec
<1>4. TypeOK /\ RtpTypeOK /\ BuilderTypeOK /\ ReportsTypeOK /\ SdesTypeOK /\ LimitsTypeOK
          => PacketsTypeOK
  BY DEF PacketsTypeOK
<1> QED
  BY <1>1, <1>2, <1>3, <1>4, PartsRun, Invariance, RtpTypes, BuilderTypes, ReportsTypes, PTL
=============================================================================
