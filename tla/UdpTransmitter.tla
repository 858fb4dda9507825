--------------------------- MODULE UdpTransmitter ---------------------------
(***************************************************************************)
(* RTPUDPv4Transmitter.  Every method takes mainmutex, tests created and   *)
(* does its work before it gives the mutex back, so a method is one step   *)
(* that waits for the mutex; an early return changes nothing and is no     *)
(* step.  WaitForIncomingData and Destroy give the mutex up half way and   *)
(* are cut there; a write to the abort pipe when it is full keeps it.  The *)
(* thread is called safe (Init(true)), as a session with a poll thread     *)
(* calls it.                                                               *)
(***************************************************************************)
EXTENDS Integers, Sequences, SequencesExt

CONSTANTS
    Threads,        \* that call the transmitter
    Control,        \* the one of them that calls Init, Create and Destroy
    NoThread, NoName,
    Ips, Ports,     \* of those who send; port 0 in a call means every port
    Loopback,
    Groups,         \* multicast addresses
    Names,          \* [Ips -> Seq(host name)], name and aliases of the DNS
    PipeSize,       \* bytes the abort pipe holds
    MaxQueue        \* bound: datagrams a socket or the packet list holds

ASSUME TransmitterAssumption ==
    /\ Control \in Threads
    /\ NoThread \notin Threads
    /\ Loopback \in Ips
    /\ 0 \notin Ports
    /\ PipeSize \in Nat \ {0}
    /\ MaxQueue \in Nat \ {0}

VARIABLES
    init, created,
    main, wait,             \* mainmutex and waitmutex: who holds them
    pc,                     \* where a thread is in a call that gives main up or keeps it
    waitingfordata,
    ready,                  \* what select found for a waiting thread
    pipe,                   \* bytes in the abort pipe
    descriptors,            \* how many of each kind are open
    incoming,               \* the datagrams the kernel has for the two sockets
    rawpacketlist,
    destinations, maxpacksize, out,
    multicastgroups, member,    \* the table, and what the kernel has joined
    receivemode, acceptignoreinfo,
    localIPs, localhostname,
    asked, again            \* history, for FilterAgrees: see Ask

history == <<asked, again>>

locks == <<main, wait>>
waits == <<pc, waitingfordata, ready, pipe>>
lists == <<receivemode, acceptignoreinfo, history>>
sends == <<destinations, maxpacksize, out>>
groups == <<multicastgroups, member>>
names == <<localIPs, localhostname>>
data == <<incoming, rawpacketlist>>
life == <<init, created, descriptors>>
vars == <<life, locks, waits, data, sends, groups, lists, names>>

Sockets == {"rtp", "rtcp"}
Kinds == Sockets \cup {"abort"}
Modes == {"AcceptAll", "AcceptSome", "IgnoreSome"}
PortInfo == [all : BOOLEAN, ports : SUBSET Ports]
Datagram == [ip : Ips, port : Ports, empty : BOOLEAN]

TypeOK ==
    /\ init \in BOOLEAN /\ created \in BOOLEAN /\ waitingfordata \in BOOLEAN
    /\ {main, wait} \subseteq Threads \cup {NoThread}
    /\ pc \in [Threads -> {"idle", "waitlock", "select", "failed", "selected",
                           "waitunlock", "killed", "destroying", "writing"}]
    /\ ready \in [Threads -> SUBSET Kinds]
    /\ pipe \in 0 .. PipeSize
    /\ descriptors \in [Kinds -> 0 .. 1]
    /\ incoming \in [Sockets -> Seq(Datagram)]
    /\ rawpacketlist \in Seq([ip : Ips, port : Ports, rtp : BOOLEAN])
    /\ destinations \subseteq Ips \X Ports
    /\ maxpacksize \in {0, 1}
    /\ out \subseteq [to : Ips \X Ports, rtp : BOOLEAN]
    /\ multicastgroups \subseteq Groups
    /\ member \in [Sockets -> SUBSET Groups]
    /\ receivemode \in Modes
    /\ \E known \in SUBSET Ips : acceptignoreinfo \in [known -> PortInfo]
    /\ localIPs \in Seq(Ips)
    /\ asked \cup again \subseteq Ips \X Ports

Init ==
    /\ init = FALSE /\ created = FALSE /\ waitingfordata = FALSE
    /\ main = NoThread /\ wait = NoThread
    /\ pc = [t \in Threads |-> "idle"]
    /\ ready = [t \in Threads |-> {}]
    /\ pipe = 0
    /\ descriptors = [k \in Kinds |-> 0]
    /\ incoming = [s \in Sockets |-> <<>>]
    /\ rawpacketlist = <<>>
    /\ destinations = {} /\ maxpacksize = 0 /\ out = {}
    /\ multicastgroups = {} /\ member = [s \in Sockets |-> {}]
    /\ receivemode = "AcceptAll"
    /\ acceptignoreinfo = <<>>
    /\ localIPs = <<>> /\ localhostname = NoName
    /\ asked = {} /\ again = {}

\* A thread in a method that has taken mainmutex; and one that finds created set.
Entered(t) == init /\ pc[t] = "idle" /\ main = NoThread
Served(t) == Entered(t) /\ created

\* Whether the entry of a host selects a port; the addresses that are selected.
Selects(ip, port) ==
    /\ ip \in DOMAIN acceptignoreinfo
    /\ acceptignoreinfo[ip].all # (port \in acceptignoreinfo[ip].ports)

Selected == {a \in Ips \X Ports : Selects(a[1], a[2])}

\* The addresses a call on the lists names: a port of a host, or all of them.
Named(ip, port) == IF port = 0 THEN {ip} \X Ports ELSE {<<ip, port>>}

\* History, which no method reads.  asked is what the calls add up to when each
\* does what it says; again is what was added by name to an entry for all ports
\* of its host that did not select it.
Ask(ip, port) ==
    LET lost == port # 0 /\ ip \in DOMAIN acceptignoreinfo /\ acceptignoreinfo[ip].all
    IN  /\ asked' = asked \cup Named(ip, port)
        /\ again' = IF lost THEN again \cup (Named(ip, port) \ Selected)
                    ELSE again \ Named(ip, port)

Recant(ip, port) == asked' = asked \ Named(ip, port) /\ again' = again \ Named(ip, port)

Forget == asked' = {} /\ again' = {}

-----------------------------------------------------------------------------
(* Init, Create and Destroy *)

InitCall ==
    /\ ~init
    /\ init' = TRUE
    /\ UNCHANGED <<created, descriptors, locks, waits, data, sends, groups, lists, names>>

AddLoopbackAddress(found) ==
    IF Contains(found, Loopback) THEN found ELSE Append(found, Loopback)

\* The list of the parameters, else what getifaddrs finds, or the DNS when that
\* is nothing, with the loopback address.
GetLocalIPList == {<<>>} \cup {<<ip>> : ip \in Ips}
CreateLocalIPList == {AddLoopbackAddress(found) : found \in GetLocalIPList}
LocalIPList == localIPs' \in CreateLocalIPList \cup (GetLocalIPList \ {<<>>})

\* Where Create can fail after its first descriptor, with those open by then.
FailurePoints ==
    [second |-> {"rtp"}, buffers |-> Sockets, bind |-> Sockets, abort |-> Sockets,
     size |-> Kinds]

ClosedAt(point) == FailurePoints[point]

CreateFails ==
    /\ Entered(Control) /\ ~created
    /\ \E point \in DOMAIN FailurePoints :
          /\ descriptors' = [k \in Kinds |->
                IF k \in FailurePoints[point] \ ClosedAt(point) THEN 1 ELSE descriptors[k]]
          /\ IF point \in {"abort", "size"} THEN LocalIPList ELSE UNCHANGED localIPs
    /\ UNCHANGED <<init, created, locks, waits, data, sends, groups, lists, localhostname>>

CreateDone(size) ==
    /\ Entered(Control) /\ ~created
    /\ created' = TRUE
    /\ descriptors' = [k \in Kinds |-> 1]
    /\ LocalIPList
    /\ pipe' = 0
    /\ maxpacksize' = size
    /\ receivemode' = "AcceptAll"
    /\ localhostname' = NoName
    /\ waitingfordata' = FALSE
    /\ UNCHANGED <<init, locks, pc, ready, data, destinations, out, groups, acceptignoreinfo,
                   history>>

WaitGo(t, place) == pc' = [pc EXCEPT ![t] = place]

\* One byte more, after which t goes on to place.  A write to a full pipe does
\* not come back: what reads the pipe wants mainmutex, which the writer holds.
AbortWaitInternal(t, place) ==
    \/ /\ pipe < PipeSize
       /\ pipe' = pipe + 1
       /\ WaitGo(t, place)
       /\ UNCHANGED main
    \/ /\ pipe = PipeSize
       /\ main' = t
       /\ WaitGo(t, "writing")
       /\ UNCHANGED pipe

\* The abort pipe is closed last, when the byte for the thread that waits has
\* been written.
DestroyAbortDescriptors == IF pc'[Control] = "writing" THEN descriptors["abort"] ELSE 0

\* Everything is closed and cleared; a thread that waits is woken, and Destroy
\* goes on without mainmutex to wait for it.
Destroy ==
    /\ Served(Control)
    /\ created' = FALSE
    /\ destinations' = {}
    /\ multicastgroups' = {} /\ member' = [s \in Sockets |-> {}]
    /\ incoming' = [s \in Sockets |-> <<>>] /\ rawpacketlist' = <<>>
    /\ acceptignoreinfo' = <<>>
    /\ localIPs' = <<>> /\ localhostname' = NoName
    /\ IF waitingfordata THEN AbortWaitInternal(Control, "destroying") ELSE UNCHANGED <<main, pipe, pc>>
    /\ descriptors' = [k \in Kinds |-> IF k = "abort" THEN DestroyAbortDescriptors ELSE 0]
    /\ Forget
    /\ UNCHANGED <<init, wait, waitingfordata, ready, maxpacksize, out, receivemode>>

\* A mutant: Destroy does not take waitmutex.
DestroyEndsAtOnce ==
    /\ pc[Control] = "destroying"
    /\ main' = NoThread
    /\ pc' = [pc EXCEPT ![Control] = "idle"]
    /\ UNCHANGED <<life, wait, waitingfordata, ready, pipe, data, sends, groups, lists, names>>

\* waitmutex taken and given back; then mainmutex is unlocked a second time,
\* whoever holds it.
DestroyEnds ==
    /\ pc[Control] = "destroying"
    /\ wait = NoThread
    /\ main' = NoThread
    /\ pc' = [pc EXCEPT ![Control] = "idle"]
    /\ UNCHANGED <<life, wait, waitingfordata, ready, pipe, data, sends, groups, lists, names>>

-----------------------------------------------------------------------------
(* WaitForIncomingData and AbortWait *)

WaitBegin(t) ==
    /\ Served(t)
    /\ ~waitingfordata
    /\ waitingfordata' = TRUE
    /\ main' = t
    /\ WaitGo(t, "waitlock")
    /\ UNCHANGED <<life, wait, ready, pipe, data, sends, groups, lists, names>>

WaitLock(t) ==
    /\ pc[t] = "waitlock"
    /\ wait = NoThread
    /\ wait' = t
    /\ main' = NoThread
    /\ WaitGo(t, "select")
    /\ UNCHANGED <<life, waitingfordata, ready, pipe, data, sends, groups, lists, names>>

\* The descriptors select finds readable.
Readable == {s \in Sockets : incoming[s] # <<>>} \cup (IF pipe > 0 THEN {"abort"} ELSE {})

SelectReady(t) ==
    /\ pc[t] = "select"
    /\ Readable # {}
    /\ ready' = [ready EXCEPT ![t] = Readable]
    /\ WaitGo(t, "selected")
    /\ UNCHANGED <<life, locks, waitingfordata, pipe, data, sends, groups, lists, names>>

\* The delay is over.
SelectTimeout(t) ==
    /\ pc[t] = "select"
    /\ Readable = {}
    /\ ready' = [ready EXCEPT ![t] = {}]
    /\ WaitGo(t, "selected")
    /\ UNCHANGED <<life, locks, waitingfordata, pipe, data, sends, groups, lists, names>>

\* select fails: a signal, or Destroy has closed the descriptors before the call.
SelectFails(t) ==
    /\ pc[t] = "select"
    /\ WaitGo(t, "failed")
    /\ UNCHANGED <<life, locks, waitingfordata, ready, pipe, data, sends, groups, lists, names>>

\* A mutant: the error path forgets waitmutex.
WaitFailedLocked(t) ==
    /\ pc[t] = "failed"
    /\ main = NoThread
    /\ waitingfordata' = FALSE
    /\ WaitGo(t, "idle")
    /\ UNCHANGED <<life, locks, ready, pipe, data, sends, groups, lists, names>>

WaitFailed(t) ==
    /\ pc[t] = "failed"
    /\ main = NoThread
    /\ waitingfordata' = FALSE
    /\ WaitGo(t, "waitunlock")
    /\ UNCHANGED <<life, locks, ready, pipe, data, sends, groups, lists, names>>

\* A mutant: a byte is taken out of the pipe whether it was written or not.
WaitEndsUnasked(t) ==
    /\ pc[t] = "selected"
    /\ main = NoThread
    /\ waitingfordata' = FALSE
    /\ pipe' = pipe - 1
    /\ ready' = [ready EXCEPT ![t] = {}]
    /\ WaitGo(t, "waitunlock")
    /\ UNCHANGED <<life, locks, data, sends, groups, lists, names>>

\* Under mainmutex again.  One byte is read of the pipe, however many
\* AbortWait has written: the next wait then ends at once.
WaitEnds(t) ==
    /\ pc[t] = "selected"
    /\ main = NoThread
    /\ waitingfordata' = FALSE
    /\ pipe' = IF created /\ "abort" \in ready[t] THEN pipe - 1 ELSE pipe
    /\ ready' = [ready EXCEPT ![t] = {}]
    /\ WaitGo(t, "waitunlock")
    /\ UNCHANGED <<life, locks, data, sends, groups, lists, names>>

WaitUnlock(t) ==
    /\ pc[t] = "waitunlock"
    /\ wait' = NoThread
    /\ WaitGo(t, "idle")
    /\ UNCHANGED <<life, main, waitingfordata, ready, pipe, data, sends, groups, lists, names>>

\* JThread::Kill cancels the thread in select: both mutexes stay as they are.
WaitKilled(t) ==
    /\ pc[t] = "select"
    /\ t # Control
    /\ WaitGo(t, "killed")
    /\ UNCHANGED <<life, locks, waitingfordata, ready, pipe, data, sends, groups, lists, names>>

AbortWait(t) ==
    /\ Served(t)
    /\ waitingfordata
    /\ AbortWaitInternal(t, "idle")
    /\ UNCHANGED <<life, wait, waitingfordata, ready, data, sends, groups, lists, names>>

-----------------------------------------------------------------------------
(* Datagrams in: the kernel, Poll, GetNextPacket *)

Arrive(s, d) ==
    /\ descriptors[s] = 1
    /\ Len(incoming[s]) < MaxQueue
    /\ incoming' = [incoming EXCEPT ![s] = Append(@, d)]
    /\ UNCHANGED <<life, locks, waits, rawpacketlist, sends, groups, lists, names>>

ShouldAcceptData(d) ==
    \/ receivemode = "AcceptAll"
    \/ receivemode = "AcceptSome" /\ Selects(d.ip, d.port)
    \/ receivemode = "IgnoreSome" /\ ~Selects(d.ip, d.port)

\* FIONREAD tells the size of the first datagram: PollSocket reads until it is
\* 0, which it also is when the first datagram is empty.
Taken(s) == SelectInSeq(incoming[s], LAMBDA d : d.empty)
Read(s) == IF Taken(s) = 0 THEN incoming[s] ELSE SubSeq(incoming[s], 1, Taken(s) - 1)

Kept(s) == IF Taken(s) = 0 THEN <<>> ELSE SubSeq(incoming[s], Taken(s), Len(incoming[s]))

\* PollSocket: what it accepts goes to the end of the list.
Accept(list, d, rtp) ==
    IF ShouldAcceptData(d) THEN Append(list, [ip |-> d.ip, port |-> d.port, rtp |-> rtp]) ELSE list
Polled(s) == FoldLeft(LAMBDA list, d : Accept(list, d, s = "rtp"), <<>>, Read(s))

\* The RTP socket first.
Poll(t) ==
    /\ Served(t)
    /\ Len(rawpacketlist \o Polled("rtp") \o Polled("rtcp")) <= MaxQueue    \* bound
    /\ incoming' = [s \in Sockets |-> Kept(s)]
    /\ rawpacketlist' = rawpacketlist \o Polled("rtp") \o Polled("rtcp")
    /\ UNCHANGED <<life, locks, waits, sends, groups, lists, names>>

GetNextPacket(t) ==
    /\ Served(t)
    /\ rawpacketlist # <<>>
    /\ rawpacketlist' = Tail(rawpacketlist)
    /\ UNCHANGED <<life, locks, waits, incoming, sends, groups, lists, names>>

-----------------------------------------------------------------------------
(* Receive mode, accept and ignore list *)

SetReceiveMode(t, m) ==
    /\ Served(t)
    /\ m # receivemode
    /\ receivemode' = m
    /\ acceptignoreinfo' = <<>>
    /\ Forget
    /\ UNCHANGED <<life, locks, waits, data, sends, groups, names>>

SetEntry(ip, entry) ==
    acceptignoreinfo' = [h \in DOMAIN acceptignoreinfo \cup {ip} |->
                           IF h = ip THEN entry ELSE acceptignoreinfo[h]]

\* A mutant: the ports taken out of an entry for all ports stay out.
AddEntryKeepsPorts(ip, port) ==
    IF ip \notin DOMAIN acceptignoreinfo
    THEN SetEntry(ip, [all |-> port = 0, ports |-> {port} \ {0}])
    ELSE IF port = 0 THEN SetEntry(ip, [acceptignoreinfo[ip] EXCEPT !.all = TRUE])
         ELSE IF acceptignoreinfo[ip].all THEN UNCHANGED acceptignoreinfo
              ELSE SetEntry(ip, [acceptignoreinfo[ip] EXCEPT !.ports = @ \cup {port}])

\* ProcessAddAcceptIgnoreEntry.  A port that was taken out of an entry for all
\* ports is not put back: nothing happens, and 0 is returned.
AddEntry(ip, port) ==
    \/ /\ ip \notin DOMAIN acceptignoreinfo
       /\ SetEntry(ip, [all |-> port = 0, ports |-> {port} \ {0}])
    \/ /\ ip \in DOMAIN acceptignoreinfo
       /\ port = 0
       /\ SetEntry(ip, [all |-> TRUE, ports |-> {}])
    \/ /\ ip \in DOMAIN acceptignoreinfo
       /\ port # 0
       /\ IF acceptignoreinfo[ip].all THEN UNCHANGED acceptignoreinfo
          ELSE SetEntry(ip, [acceptignoreinfo[ip] EXCEPT !.ports = @ \cup {port}])

\* ProcessDeleteAcceptIgnoreEntry: the list of an entry for all ports holds the
\* ports taken out of it.
DeleteEntry(ip, port) ==
    /\ ip \in DOMAIN acceptignoreinfo
    /\ LET entry == acceptignoreinfo[ip] IN
       \/ port = 0 /\ SetEntry(ip, [all |-> FALSE, ports |-> {}])
       \/ port # 0 /\ entry.all /\ SetEntry(ip, [entry EXCEPT !.ports = @ \cup {port}])
       \/ port # 0 /\ ~entry.all /\ SetEntry(ip, [entry EXCEPT !.ports = @ \ {port}])

AddToList(t, m, ip, port) ==
    /\ Served(t)
    /\ receivemode = m
    /\ AddEntry(ip, port)
    /\ Ask(ip, port)
    /\ UNCHANGED <<life, locks, waits, data, sends, groups, receivemode, names>>

DeleteFromList(t, m, ip, port) ==
    /\ Served(t)
    /\ receivemode = m
    /\ DeleteEntry(ip, port)
    /\ Recant(ip, port)
    /\ UNCHANGED <<life, locks, waits, data, sends, groups, receivemode, names>>

ClearList(t, m) ==
    /\ Served(t)
    /\ receivemode = m
    /\ acceptignoreinfo' = <<>>
    /\ Forget
    /\ UNCHANGED <<life, locks, waits, data, sends, groups, receivemode, names>>

AddToIgnoreList(t, ip, port) == AddToList(t, "IgnoreSome", ip, port)
DeleteFromIgnoreList(t, ip, port) == DeleteFromList(t, "IgnoreSome", ip, port)
ClearIgnoreList(t) == ClearList(t, "IgnoreSome")
AddToAcceptList(t, ip, port) == AddToList(t, "AcceptSome", ip, port)
DeleteFromAcceptList(t, ip, port) == DeleteFromList(t, "AcceptSome", ip, port)
ClearAcceptList(t) == ClearList(t, "AcceptSome")

-----------------------------------------------------------------------------
(* Destinations and multicast groups *)

AddDestination(t, d) ==
    /\ Served(t)
    /\ d \notin destinations
    /\ destinations' = destinations \cup {d}
    /\ UNCHANGED <<life, locks, waits, data, maxpacksize, out, groups, lists, names>>

DeleteDestination(t, d) ==
    /\ Served(t)
    /\ d \in destinations
    /\ destinations' = destinations \ {d}
    /\ UNCHANGED <<life, locks, waits, data, maxpacksize, out, groups, lists, names>>

ClearDestinations(t) ==
    /\ Served(t)
    /\ destinations' = {}
    /\ UNCHANGED <<life, locks, waits, data, maxpacksize, out, groups, lists, names>>

SetMaximumPacketSize(t, size) ==
    /\ Served(t)
    /\ maxpacksize' = size
    /\ UNCHANGED <<life, locks, waits, data, destinations, out, groups, lists, names>>

\* One sendto for each destination, on the socket and to the port of the kind.
Send(t, size, rtp) ==
    /\ Served(t)
    /\ size <= maxpacksize
    /\ out' = {[to |-> d, rtp |-> rtp] : d \in destinations}
    /\ UNCHANGED <<life, locks, waits, data, destinations, maxpacksize, groups, lists, names>>

SendRTPData(t, size) == Send(t, size, TRUE)
SendRTCPData(t, size) == Send(t, size, FALSE)

JoinMulticastGroup(t, g) ==
    /\ Served(t)
    /\ g \notin multicastgroups
    /\ multicastgroups' = multicastgroups \cup {g}
    /\ member' = [s \in Sockets |-> member[s] \cup {g}]
    /\ UNCHANGED <<life, locks, waits, data, sends, lists, names>>

\* A mutant: the RTP socket stays in a group the RTCP socket could not join.
UndoJoinForgetful(g) == member' = [member EXCEPT !["rtp"] = @ \cup {g}]
UndoJoin(g) == UNCHANGED member

\* The first membership fails, or the second one and the first is dropped.
JoinFails(t, g) ==
    /\ Served(t)
    /\ g \notin multicastgroups
    /\ UndoJoin(g)
    /\ UNCHANGED <<life, locks, waits, data, sends, multicastgroups, lists, names>>

LeaveMulticastGroup(t, g) ==
    /\ Served(t)
    /\ g \in multicastgroups
    /\ multicastgroups' = multicastgroups \ {g}
    /\ member' = [s \in Sockets |-> member[s] \ {g}]
    /\ UNCHANGED <<life, locks, waits, data, sends, lists, names>>

LeaveAllMulticastGroups(t) ==
    /\ Served(t)
    /\ member' = [s \in Sockets |-> member[s] \ multicastgroups]
    /\ multicastgroups' = {}
    /\ UNCHANGED <<life, locks, waits, data, sends, lists, names>>

-----------------------------------------------------------------------------
(* GetLocalHostName *)

\* The names of the local addresses.  A name that is there already ends the
\* names of its address.
HostNames ==
    LET Take(known, ip) ==
          FoldLeft(LAMBDA acc, n : IF acc.double \/ n \in acc.names
                                   THEN [acc EXCEPT !.double = TRUE]
                                   ELSE [acc EXCEPT !.names = @ \cup {n}],
                   [double |-> FALSE, names |-> known], Names[ip]).names
    IN  FoldLeft(Take, {}, localIPs)

\* The first name with a dot, else the first address.  The answer is kept; a
\* buffer that is too small only learns the length.
GetLocalHostName(t) ==
    /\ Served(t)
    /\ localhostname = NoName
    /\ localIPs # <<>>
    /\ localhostname' \in
          LET dotted == {n \in HostNames : n[2]}
          IN  IF dotted # {} THEN {CHOOSE n \in dotted : \A m \in dotted : n[1] <= m[1]}
              ELSE {Head(localIPs)}
    /\ UNCHANGED <<life, locks, waits, data, sends, groups, lists, localIPs>>

-----------------------------------------------------------------------------
Life == InitCall \/ CreateFails \/ Destroy \/ DestroyEnds \/ \E size \in {0, 1} : CreateDone(size)

Wait(t) ==
    \/ WaitBegin(t) \/ WaitLock(t) \/ SelectReady(t) \/ SelectTimeout(t)
    \/ SelectFails(t) \/ WaitFailed(t) \/ WaitEnds(t) \/ WaitUnlock(t)
    \/ WaitKilled(t) \/ AbortWait(t)

Receive(t) == Poll(t) \/ GetNextPacket(t)

Filter(t) ==
    \/ \E m \in Modes : SetReceiveMode(t, m)
    \/ \E ip \in Ips, port \in Ports \cup {0} :
          \/ AddToIgnoreList(t, ip, port) \/ DeleteFromIgnoreList(t, ip, port)
          \/ AddToAcceptList(t, ip, port) \/ DeleteFromAcceptList(t, ip, port)
    \/ ClearIgnoreList(t) \/ ClearAcceptList(t)

Sends(t) ==
    \/ \E d \in Ips \X Ports : AddDestination(t, d) \/ DeleteDestination(t, d)
    \/ ClearDestinations(t)
    \/ \E size \in {0, 1} :
          SetMaximumPacketSize(t, size) \/ SendRTPData(t, size) \/ SendRTCPData(t, size)
    \/ GetLocalHostName(t)

GroupCalls(t) ==
    \/ \E g \in Groups : JoinMulticastGroup(t, g) \/ JoinFails(t, g) \/ LeaveMulticastGroup(t, g)
    \/ LeaveAllMulticastGroups(t)
=============================================================================
