------------------------- MODULE ExternalTransmitter ------------------------
(***************************************************************************)
(* RTPExternalTransmitter: the application sends with an object of its own *)
(* and hands over what it has received with InjectRTP and InjectRTCP.  The *)
(* variables are those of UdpTransmitter; there are no sockets, lists,     *)
(* destinations or groups, and what does not appear here answers with an   *)
(* error and changes nothing.  A method that is the same text as in the    *)
(* UDP transmitter is taken from it.                                       *)
(***************************************************************************)
EXTENDS UdpTransmitter

ExtInit == Init

\* The pipe cannot be had, or the pipe is there and Create is done.
ExtCreate(size) ==
    /\ Entered(Control) /\ ~created
    /\ created' = TRUE
    /\ descriptors' = [k \in Kinds |-> IF k = "abort" THEN 1 ELSE 0]
    /\ pipe' = 0
    /\ maxpacksize' = size
    /\ localhostname' = NoName
    /\ waitingfordata' = FALSE
    /\ UNCHANGED <<init, locks, pc, ready, data, destinations, out, groups, lists, localIPs>>

ExtDestroy ==
    /\ Served(Control)
    /\ created' = FALSE
    /\ rawpacketlist' = <<>>
    /\ localhostname' = NoName
    /\ IF waitingfordata THEN AbortWaitInternal(Control, "destroying") ELSE UNCHANGED <<main, pipe, pc>>
    /\ descriptors' = [k \in Kinds |-> IF k = "abort" THEN DestroyAbortDescriptors ELSE 0]
    /\ UNCHANGED <<init, wait, waitingfordata, ready, incoming, sends, groups, lists, localIPs>>

\* With a packet in the list the wait is over before it begins, and the pipe is
\* not read; that leaves everything as it is.
ExtWaitBegin(t) ==
    /\ rawpacketlist = <<>>
    /\ WaitBegin(t)

\* The whole pipe is read.
ExtWaitEnds(t) ==
    /\ pc[t] = "selected"
    /\ main = NoThread
    /\ waitingfordata' = FALSE
    /\ pipe' = IF created /\ "abort" \in ready[t] THEN 0 ELSE pipe
    /\ ready' = [ready EXCEPT ![t] = {}]
    /\ WaitGo(t, "waitunlock")
    /\ UNCHANGED <<life, locks, data, sends, groups, lists, names>>

\* The packet is in the list before the byte is written, under mainmutex.
\* Whether anybody waits is not looked at, and a wait that finds packets in the
\* list reads nothing of the pipe: injecting alone fills it.
Inject(t, d, rtp) ==
    /\ Served(t)
    /\ Len(rawpacketlist) < MaxQueue        \* bound
    /\ rawpacketlist' = Append(rawpacketlist, [ip |-> d.ip, port |-> d.port, rtp |-> rtp])
    /\ AbortWaitInternal(t, "idle")
    /\ UNCHANGED <<life, wait, waitingfordata, ready, incoming, sends, groups, lists, names>>

InjectRTP(t, d) == Inject(t, d, TRUE)
InjectRTCP(t, d) == Inject(t, d, FALSE)

\* The second byte of the packet decides; an RTP packet may be taken for RTCP.
InjectRTPorRTCP(t, d) == \E rtp \in BOOLEAN : Inject(t, d, rtp)

ExtSend(t, size, rtp) ==
    /\ Served(t)
    /\ size <= maxpacksize
    /\ out' = {[to |-> <<Loopback, CHOOSE p \in Ports : TRUE>>, rtp |-> rtp]}
    /\ UNCHANGED <<life, locks, waits, data, destinations, maxpacksize, groups, lists, names>>

ExtSendRTPData(t, size) == ExtSend(t, size, TRUE)
ExtSendRTCPData(t, size) == ExtSend(t, size, FALSE)

ExtSetMaximumPacketSize(t, size) == SetMaximumPacketSize(t, size)
ExtGetNextPacket(t) == GetNextPacket(t)
ExtAbortWait(t) == AbortWait(t)

\* gethostname, kept like the names of the UDP transmitters.
ExtGetLocalHostName(t) ==
    /\ Served(t)
    /\ localhostname = NoName
    /\ localhostname' = <<0, FALSE>>
    /\ UNCHANGED <<life, locks, waits, data, sends, groups, lists, localIPs>>

-----------------------------------------------------------------------------
ExtLife ==
    \/ InitCall \/ ExtDestroy \/ DestroyEnds
    \/ \E size \in {0, 1} : ExtCreate(size)

ExtWait(t) ==
    \/ ExtWaitBegin(t) \/ ExtWaitEnds(t) \/ ExtAbortWait(t)
    \/ WaitLock(t) \/ SelectReady(t) \/ SelectTimeout(t) \/ SelectFails(t)
    \/ WaitFailed(t) \/ WaitUnlock(t) \/ WaitKilled(t)

ExtReceive(t) ==
    \/ \E d \in Datagram : InjectRTP(t, d) \/ InjectRTCP(t, d) \/ InjectRTPorRTCP(t, d)
    \/ ExtGetNextPacket(t)

ExtSends(t) ==
    \/ \E size \in {0, 1} :
          ExtSendRTPData(t, size) \/ ExtSendRTCPData(t, size) \/ ExtSetMaximumPacketSize(t, size)
    \/ ExtGetLocalHostName(t)
=============================================================================
