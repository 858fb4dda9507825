--------------------------- MODULE FakeTransmitter --------------------------
(***************************************************************************)
(* RTPFakeTransmitter: the IPv4 transmitter with its sockets commented     *)
(* out.  What comes in is the current data of its parameters, one datagram *)
(* of either kind (incoming holds it); what goes out is handed to a        *)
(* callback.  It refuses to be thread safe, so one thread calls it and the *)
(* mutexes are never taken; waiting and groups answer with an error.       *)
(***************************************************************************)
EXTENDS UdpTransmitter

FakeInitCall == InitCall

\* The list of the parameters, or the DNS: GetLocalIPList_Interfaces finds none.
FakeGetLocalIPList == GetLocalIPList
FakeLocalIPList ==
    localIPs' \in {AddLoopbackAddress(found) : found \in FakeGetLocalIPList}
                    \cup (FakeGetLocalIPList \ {<<>>})

FakeCreate(size) ==
    /\ init /\ ~created
    /\ created' = TRUE
    /\ FakeLocalIPList
    /\ maxpacksize' = size
    /\ receivemode' = "AcceptAll"
    /\ localhostname' = NoName
    /\ waitingfordata' = FALSE
    /\ UNCHANGED <<init, descriptors, locks, pc, ready, pipe, data, destinations, out,
                   groups, acceptignoreinfo, history>>

FakeDestroy ==
    /\ init /\ created
    /\ created' = FALSE
    /\ destinations' = {}
    /\ incoming' = [s \in Sockets |-> <<>>] /\ rawpacketlist' = <<>>
    /\ acceptignoreinfo' = <<>>
    /\ localIPs' = <<>> /\ localhostname' = NoName
    /\ Forget
    /\ UNCHANGED <<init, descriptors, locks, waits, maxpacksize, out, receivemode, groups>>

\* SetCurrentData of the parameters: what was there and not polled is lost.
SetCurrentData(s, d) ==
    /\ created
    /\ incoming' = [k \in Sockets |-> IF k = s THEN <<d>> ELSE <<>>]
    /\ UNCHANGED <<life, locks, waits, rawpacketlist, sends, groups, lists, names>>

FakeShouldAcceptData(d) == ShouldAcceptData(d)

\* FakePoll: the current data, unless it has no length.
FakePolled(s) == Polled(s)

\* Then the current data is set to NULL.
FakePoll ==
    /\ init /\ created
    /\ Len(rawpacketlist) < MaxQueue        \* bound
    /\ rawpacketlist' = rawpacketlist \o FakePolled("rtp") \o FakePolled("rtcp")
    /\ incoming' = [s \in Sockets |-> <<>>]
    /\ UNCHANGED <<life, locks, waits, sends, groups, lists, names>>

FakeGetNextPacket == GetNextPacket(Control)

FakeSetReceiveMode(m) == SetReceiveMode(Control, m)
FakeAddEntry(ip, port) == AddEntry(ip, port)
FakeDeleteEntry(ip, port) == DeleteEntry(ip, port)

FakeList(m, Change) ==
    /\ init /\ created
    /\ receivemode = m
    /\ Change
    /\ UNCHANGED <<life, locks, waits, data, sends, groups, receivemode, names>>

FakeAddToIgnoreList(ip, port) ==
    FakeList("IgnoreSome", FakeAddEntry(ip, port) /\ Ask(ip, port))
FakeDeleteFromIgnoreList(ip, port) ==
    FakeList("IgnoreSome", FakeDeleteEntry(ip, port) /\ Recant(ip, port))
FakeClearIgnoreList == ClearIgnoreList(Control)
FakeAddToAcceptList(ip, port) ==
    FakeList("AcceptSome", FakeAddEntry(ip, port) /\ Ask(ip, port))
FakeDeleteFromAcceptList(ip, port) ==
    FakeList("AcceptSome", FakeDeleteEntry(ip, port) /\ Recant(ip, port))
FakeClearAcceptList == ClearAcceptList(Control)

FakeAddDestination(d) == AddDestination(Control, d)
FakeDeleteDestination(d) == DeleteDestination(Control, d)
FakeClearDestinations == ClearDestinations(Control)
FakeSetMaximumPacketSize(size) == SetMaximumPacketSize(Control, size)

\* The callback is called for each destination.
FakeSendRTPData(size) == Send(Control, size, TRUE)
FakeSendRTCPData(size) == Send(Control, size, FALSE)

\* Only the first name of an address is asked for, and doubles are kept.
FakeHostNames ==
    LET known == SelectSeq(localIPs, LAMBDA ip : Names[ip] # <<>>)
    IN  [i \in DOMAIN known |-> Names[known[i]][1]]

\* The first name with a dot, in the order of the addresses.
FakeGetLocalHostName ==
    /\ init /\ created
    /\ localhostname = NoName
    /\ LET dotted == SelectSeq(FakeHostNames, LAMBDA n : n[2])
       IN  localhostname' = IF dotted # <<>> THEN Head(dotted) ELSE Head(localIPs)
    /\ UNCHANGED <<life, locks, waits, data, sends, groups, lists, localIPs>>

-----------------------------------------------------------------------------
FakeLife == FakeInitCall \/ FakeDestroy \/ \E size \in {0, 1} : FakeCreate(size)

FakeReceive ==
    \/ \E s \in Sockets, d \in Datagram : SetCurrentData(s, d)
    \/ FakePoll \/ FakeGetNextPacket

FakeFilter ==
    \/ \E m \in Modes : FakeSetReceiveMode(m)
    \/ \E ip \in Ips, port \in Ports \cup {0} :
          \/ FakeAddToIgnoreList(ip, port) \/ FakeDeleteFromIgnoreList(ip, port)
          \/ FakeAddToAcceptList(ip, port) \/ FakeDeleteFromAcceptList(ip, port)
    \/ FakeClearIgnoreList \/ FakeClearAcceptList

FakeSends ==
    \/ \E d \in Ips \X Ports : FakeAddDestination(d) \/ FakeDeleteDestination(d)
    \/ FakeClearDestinations
    \/ \E size \in {0, 1} :
          \/ FakeSetMaximumPacketSize(size)
          \/ FakeSendRTPData(size) \/ FakeSendRTCPData(size)
    \/ FakeGetLocalHostName
=============================================================================
