--------------------------- MODULE UdpTransmitter6 --------------------------
(***************************************************************************)
(* RTPUDPv6Transmitter.  Its file is a copy of the IPv4 one that differs   *)
(* in the type of an address, the socket options and the system calls that *)
(* find the local addresses, none of which UdpTransmitter tells apart.     *)
(* Each method is listed here as the action of UdpTransmitter it is, so    *)
(* that the two files can be compared with the one model.                  *)
(***************************************************************************)
EXTENDS UdpTransmitter

Init6 == Init
InitCall6 == InitCall

\* The list of the parameters, or getifaddrs or getaddrinfo with
\* in6addr_loopback.
GetLocalIPList6 == GetLocalIPList
LocalIPList6 ==
    localIPs' \in {AddLoopbackAddress(found) : found \in GetLocalIPList6}
                    \cup (GetLocalIPList6 \ {<<>>})
CreateFails6 == CreateFails
CreateDone6(size) == CreateDone(size) /\ LocalIPList6
Destroy6 == Destroy
DestroyEnds6 == DestroyEnds
GetLocalHostName6(t) == GetLocalHostName(t)

\* WaitForIncomingData: before, during and after select.
WaitBegin6(t) == WaitBegin(t) \/ WaitLock(t)
WaitFailed6(t) == SelectFails(t) \/ WaitFailed(t)
WaitEnds6(t) == SelectReady(t) \/ SelectTimeout(t) \/ WaitEnds(t) \/ WaitUnlock(t)
AbortWait6(t) == AbortWait(t)

ShouldAcceptData6(d) == ShouldAcceptData(d)
Polled6(s) == Polled(s)
Poll6(t) == Poll(t)
GetNextPacket6(t) == GetNextPacket(t)

SendRTPData6(t, size) == SendRTPData(t, size)
SendRTCPData6(t, size) == SendRTCPData(t, size)
AddDestination6(t, d) == AddDestination(t, d)
DeleteDestination6(t, d) == DeleteDestination(t, d)
ClearDestinations6(t) == ClearDestinations(t)
SetMaximumPacketSize6(t, size) == SetMaximumPacketSize(t, size)

\* IPV6_JOIN_GROUP and IPV6_LEAVE_GROUP on the interface mcastifidx.
JoinMulticastGroup6(t, g) == JoinMulticastGroup(t, g) \/ JoinFails(t, g)
LeaveMulticastGroup6(t, g) == LeaveMulticastGroup(t, g)
LeaveAllMulticastGroups6(t) == LeaveAllMulticastGroups(t)

SetReceiveMode6(t, m) == SetReceiveMode(t, m)
AddEntry6(ip, port) == AddEntry(ip, port)
DeleteEntry6(ip, port) == DeleteEntry(ip, port)

List6(t, m, Change) ==
    /\ Served(t)
    /\ receivemode = m
    /\ Change
    /\ UNCHANGED <<life, locks, waits, data, sends, groups, receivemode, names>>

AddToIgnoreList6(t, ip, port) ==
    List6(t, "IgnoreSome", AddEntry6(ip, port) /\ Ask(ip, port))
DeleteFromIgnoreList6(t, ip, port) ==
    List6(t, "IgnoreSome", DeleteEntry6(ip, port) /\ Recant(ip, port))
ClearIgnoreList6(t) == ClearIgnoreList(t)
AddToAcceptList6(t, ip, port) ==
    List6(t, "AcceptSome", AddEntry6(ip, port) /\ Ask(ip, port))
DeleteFromAcceptList6(t, ip, port) ==
    List6(t, "AcceptSome", DeleteEntry6(ip, port) /\ Recant(ip, port))
ClearAcceptList6(t) == ClearAcceptList(t)

-----------------------------------------------------------------------------
Life6 == InitCall6 \/ CreateFails6 \/ Destroy6 \/ DestroyEnds6
         \/ \E size \in {0, 1} : CreateDone6(size)

Wait6(t) == WaitBegin6(t) \/ WaitFailed6(t) \/ WaitEnds6(t) \/ AbortWait6(t)

Receive6(t) == Poll6(t) \/ GetNextPacket6(t)

Filter6(t) ==
    \/ \E m \in Modes : SetReceiveMode6(t, m)
    \/ \E ip \in Ips, port \in Ports \cup {0} :
          \/ AddToIgnoreList6(t, ip, port) \/ DeleteFromIgnoreList6(t, ip, port)
          \/ AddToAcceptList6(t, ip, port) \/ DeleteFromAcceptList6(t, ip, port)
    \/ ClearIgnoreList6(t) \/ ClearAcceptList6(t)

Sends6(t) ==
    \/ \E d \in Ips \X Ports : AddDestination6(t, d) \/ DeleteDestination6(t, d)
    \/ ClearDestinations6(t)
    \/ \E size \in {0, 1} :
          SetMaximumPacketSize6(t, size) \/ SendRTPData6(t, size) \/ SendRTCPData6(t, size)
    \/ GetLocalHostName6(t)

Groups6(t) ==
    \/ \E g \in Groups : JoinMulticastGroup6(t, g) \/ LeaveMulticastGroup6(t, g)
    \/ LeaveAllMulticastGroups6(t)
=============================================================================
