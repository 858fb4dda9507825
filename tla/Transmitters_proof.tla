------------------------- MODULE Transmitters_proof -------------------------
(***************************************************************************)
(* What the four transmitters promise, for any number of threads, hosts,   *)
(* ports and groups and whatever the names of the hosts: the kernel agrees *)
(* with the transmitter, Destroy waits, and the entries of the lists come  *)
(* to what the calls add up to.                                            *)
(***************************************************************************)
EXTENDS MCTransmitters, SequenceTheorems, WellFoundedInduction, TLAPS

-----------------------------------------------------------------------------
(* What each group of methods leaves alone. *)

LEMMA SendsFrame ==
    ASSUME NEW t, Sends(t) \/ Sends6(t) \/ FakeSends \/ ExtSends(t)
    PROVE  UNCHANGED <<life, locks, waits, data, groups, lists, localIPs>>
<1>1. CASE Sends(t)
  BY <1>1 DEF names, Sends, AddDestination, DeleteDestination, ClearDestinations,
              SetMaximumPacketSize, SendRTPData, SendRTCPData, Send, GetLocalHostName
<1>2. CASE Sends6(t)
  BY <1>2 DEF names, Sends6, AddDestination6, DeleteDestination6, ClearDestinations6,
              SetMaximumPacketSize6, SendRTPData6, SendRTCPData6, GetLocalHostName6,
              AddDestination, DeleteDestination, ClearDestinations,
              SetMaximumPacketSize, SendRTPData, SendRTCPData, Send, GetLocalHostName
<1>3. CASE FakeSends
  BY <1>3 DEF names, FakeSends, FakeAddDestination, FakeDeleteDestination, FakeClearDestinations,
              FakeSetMaximumPacketSize, FakeSendRTPData, FakeSendRTCPData,
              FakeGetLocalHostName, AddDestination, DeleteDestination, ClearDestinations,
              SetMaximumPacketSize, Send
<1>4. CASE ExtSends(t)
  BY <1>4 DEF names, ExtSends, ExtSendRTPData, ExtSendRTCPData, ExtSend, ExtSetMaximumPacketSize,
              SetMaximumPacketSize, ExtGetLocalHostName
<1> QED
  BY <1>1, <1>2, <1>3, <1>4

LEMMA GroupsFrame ==
    ASSUME NEW t, GroupCalls(t) \/ Groups6(t)
    PROVE  UNCHANGED <<life, locks, waits, data, sends, lists, names>>
BY DEF GroupCalls, Groups6, JoinMulticastGroup6, LeaveMulticastGroup6,
       LeaveAllMulticastGroups6, JoinMulticastGroup, JoinFails, LeaveMulticastGroup,
       LeaveAllMulticastGroups

\* A mailbox, the packet list and the abort pipe: the lists stay as they are.
LEMMA ReceiveFrame ==
    ASSUME NEW t, \/ Network
                  \/ Poll(t) \/ GetNextPacket(t) \/ Receive(t) \/ Receive6(t) \/ FakeReceive
    PROVE  UNCHANGED <<life, locks, waits, sends, groups, lists, names>>
<1>1. CASE Network
  BY <1>1 DEF Network, Arrive
<1>2. CASE Poll(t) \/ GetNextPacket(t) \/ Receive(t) \/ Receive6(t)
  BY <1>2 DEF Receive, Receive6, Poll6, GetNextPacket6, Poll, GetNextPacket
<1>3. CASE FakeReceive
  BY <1>3 DEF FakeReceive, SetCurrentData, FakePoll, FakeGetNextPacket, GetNextPacket
<1> QED
  BY <1>1, <1>2, <1>3

LEMMA InjectFrame ==
    ASSUME NEW t, ExtReceive(t)
    PROVE  /\ UNCHANGED <<life, wait, waitingfordata, ready, incoming, sends, groups, lists, names>>
           /\ \/ UNCHANGED <<main, pc>>
              \/ Served(t) /\ AbortWaitInternal(t, "idle")
BY DEF ExtReceive, InjectRTP, InjectRTCP, InjectRTPorRTCP, Inject, ExtGetNextPacket,
       GetNextPacket, locks, waits, data

\* A call that changes the mode or the lists, of whichever transmitter.
ListStep ==
    \/ receivemode' \in Modes /\ acceptignoreinfo' = <<>> /\ Forget
    \/ /\ UNCHANGED receivemode
       /\ \E ip \in Ips, port \in Ports \cup {0} :
             \/ AddEntry(ip, port) /\ Ask(ip, port)
             \/ DeleteEntry(ip, port) /\ Recant(ip, port)

LEMMA CallsAreListSteps ==
    ASSUME NEW t, NEW m \in {"AcceptSome", "IgnoreSome"},
           \/ \E mode \in Modes : SetReceiveMode(t, mode)
           \/ \E ip \in Ips, port \in Ports \cup {0} :
                 \/ AddToList(t, m, ip, port) \/ DeleteFromList(t, m, ip, port)
                 \/ List6(t, m, AddEntry6(ip, port) /\ Ask(ip, port))
                 \/ List6(t, m, DeleteEntry6(ip, port) /\ Recant(ip, port))
                 \/ FakeList(m, FakeAddEntry(ip, port) /\ Ask(ip, port))
                 \/ FakeList(m, FakeDeleteEntry(ip, port) /\ Recant(ip, port))
           \/ ClearList(t, m)
    PROVE  ListStep /\ UNCHANGED <<life, locks, waits, data, sends, groups, names>>
<1>1. ASSUME NEW mode \in Modes, SetReceiveMode(t, mode)
      PROVE  ListStep /\ UNCHANGED <<life, locks, waits, data, sends, groups, names>>
  BY <1>1 DEF SetReceiveMode, ListStep
<1>2. ASSUME NEW ip \in Ips, NEW port \in Ports \cup {0},
             \/ AddToList(t, m, ip, port) \/ DeleteFromList(t, m, ip, port)
             \/ List6(t, m, AddEntry6(ip, port) /\ Ask(ip, port))
             \/ List6(t, m, DeleteEntry6(ip, port) /\ Recant(ip, port))
             \/ FakeList(m, FakeAddEntry(ip, port) /\ Ask(ip, port))
             \/ FakeList(m, FakeDeleteEntry(ip, port) /\ Recant(ip, port))
      PROVE  ListStep /\ UNCHANGED <<life, locks, waits, data, sends, groups, names>>
  <2>1. UNCHANGED <<receivemode, life, locks, waits, data, sends, groups, names>>
    BY <1>2 DEF AddToList, DeleteFromList, List6, FakeList
  <2>2. (AddEntry(ip, port) /\ Ask(ip, port)) \/ (DeleteEntry(ip, port) /\ Recant(ip, port))
    BY <1>2 DEF AddToList, DeleteFromList, List6, FakeList, AddEntry6, DeleteEntry6,
                FakeAddEntry, FakeDeleteEntry
  <2> QED
    BY <2>1, <2>2 DEF ListStep
<1>3. CASE ClearList(t, m)
  BY <1>3 DEF ClearList, ListStep, Modes
<1> QED
  BY <1>1, <1>2, <1>3

LEMMA FilterFrame ==
    ASSUME NEW t, Filter(t) \/ Filter6(t) \/ FakeFilter \/ Lists(t)
    PROVE  ListStep /\ UNCHANGED <<life, locks, waits, data, sends, groups, names>>
<1>1. CASE Filter(t)
  BY <1>1, CallsAreListSteps
  DEF Filter, AddToIgnoreList, DeleteFromIgnoreList, AddToAcceptList, DeleteFromAcceptList,
      ClearIgnoreList, ClearAcceptList
<1>2. CASE Filter6(t)
  BY <1>2, CallsAreListSteps
  DEF Filter6, SetReceiveMode6, AddToIgnoreList6, DeleteFromIgnoreList6, AddToAcceptList6,
      DeleteFromAcceptList6, ClearIgnoreList6, ClearAcceptList6, ClearIgnoreList, ClearAcceptList
<1>3. CASE FakeFilter
  BY <1>3, CallsAreListSteps
  DEF FakeFilter, FakeSetReceiveMode, FakeAddToIgnoreList, FakeDeleteFromIgnoreList,
      FakeAddToAcceptList, FakeDeleteFromAcceptList, FakeClearIgnoreList, FakeClearAcceptList,
      ClearIgnoreList, ClearAcceptList
<1>4. CASE Lists(t)
  <2>1. Other \in Ips /\ One \in Ports
    BY SitesAssumption, TransmitterAssumption DEF Other, One
  <2> QED
    BY <1>4, <2>1, CallsAreListSteps DEF Lists, AddToAcceptList, AddToIgnoreList
<1> QED
  BY <1>1, <1>2, <1>3, <1>4

LEMMA WaitFrame ==
    ASSUME NEW t, Wait(t) \/ Wait6(t) \/ ExtWait(t)
    PROVE  UNCHANGED <<life, data, sends, groups, lists, names>>
BY DEF Wait, Wait6, ExtWait, WaitBegin6, WaitFailed6, WaitEnds6, AbortWait6, ExtWaitBegin,
       ExtWaitEnds, ExtAbortWait, WaitBegin, WaitLock, SelectReady, SelectTimeout, SelectFails,
       WaitFailed, WaitEnds, WaitUnlock, WaitKilled, AbortWait

\* The transmitters without sockets leave the groups alone.
LEMMA OtherLifeFrame ==
    ASSUME FakeLife \/ ExtLife
    PROVE  UNCHANGED groups
BY DEF FakeLife, ExtLife, FakeInitCall, InitCall, FakeDestroy, FakeCreate, ExtCreate, ExtDestroy,
       DestroyEnds

-----------------------------------------------------------------------------
(* Destroy waits for the thread in WaitForIncomingData. *)

Places == {"idle", "waitlock", "select", "failed", "selected", "waitunlock", "killed",
           "destroying", "writing"}

\* A thread that has set waitingfordata and not yet cleared it, and one that has
\* waitmutex.
Inside == {"waitlock", "select", "failed", "selected"}
Holding == {"select", "failed", "selected", "waitunlock", "killed"}

WaitInv ==
    /\ pc \in [Threads -> Places]
    /\ \A t \in Threads : pc[t] = "waitlock" => main = t /\ created
    /\ \A t \in Threads : pc[t] = "writing" => main = t /\ (created \/ t = Control)
    /\ \A t \in Threads : pc[t] \in Holding => wait = t
    /\ \A t \in Threads : pc[t] \in Inside => waitingfordata
    /\ \A t, u \in Threads : pc[t] \in Inside /\ pc[u] \in Inside => t = u
    /\ \A t \in Threads : pc[t] = "destroying" => t = Control /\ ~created
    /\ kind = "fake" => \A t \in Threads : pc[t] = "idle"

DestroyInv == WaitInv /\ DestroyWaits

LEMMA DestroyInit == MCInit => DestroyInv
BY TransmitterAssumption
DEF MCInit, ExtInit, Init, DestroyInv, WaitInv, DestroyWaits, Places, Inside, Holding

LEMMA DestroyFrame ==
    ASSUME DestroyInv, UNCHANGED <<created, locks, pc, waitingfordata, kind>>
    PROVE  DestroyInv'
BY DEF DestroyInv, WaitInv, DestroyWaits, locks

LEMMA WaitGoGives ==
    ASSUME WaitInv, NEW t \in Threads, NEW place \in Places, WaitGo(t, place)
    PROVE  /\ pc' \in [Threads -> Places]
           /\ pc'[t] = place
           /\ \A u \in Threads \ {t} : pc'[u] = pc[u]
BY DEF WaitInv, WaitGo

\* A byte for the pipe, of AbortWait or with an injected packet: it is written
\* or the thread stays with mainmutex.
LEMMA DestroyWrite ==
    ASSUME DestroyInv, kind # "fake", NEW t \in Threads, Served(t), AbortWaitInternal(t, "idle"),
           UNCHANGED <<created, wait, waitingfordata, kind>>
    PROVE  DestroyInv'
<1>1. WaitInv /\ created /\ main = NoThread /\ pc[t] = "idle"
  BY DEF Served, Entered, DestroyInv
<1>2. CASE WaitGo(t, "idle") /\ UNCHANGED main
  <2>1. UNCHANGED pc
    BY <1>1, <1>2 DEF WaitGo, WaitInv
  <2> QED
    BY <1>2, <2>1, DestroyFrame DEF locks
<1>3. CASE WaitGo(t, "writing") /\ main' = t
  <2>1. /\ pc' \in [Threads -> Places] /\ pc'[t] = "writing"
        /\ \A u \in Threads \ {t} : pc'[u] = pc[u]
    BY <1>1, <1>3, WaitGoGives DEF Places
  <2>2. \A u \in Threads : pc[u] \notin {"waitlock", "writing"}
    BY <1>1, TransmitterAssumption DEF WaitInv
  <2> QED
    BY <1>1, <1>3, <2>1, <2>2, TransmitterAssumption
    DEF DestroyInv, WaitInv, DestroyWaits, Inside, Holding
<1> QED
  BY <1>2, <1>3 DEF AbortWaitInternal

\* Create finds no thread inside and Destroy none that has not got waitmutex.
LEMMA DestroyLife ==
    ASSUME DestroyInv, UNCHANGED kind,
           \/ kind # "fake" /\ (Life \/ Life6 \/ ExtLife)
           \/ kind = "fake" /\ FakeLife
    PROVE  DestroyInv'
<1> USE TransmitterAssumption
<1>1. CASE kind # "fake" /\ (InitCall \/ CreateFails)
  BY <1>1, DestroyFrame DEF InitCall, CreateFails, life, waits
<1>2. ASSUME NEW size, CreateDone(size) \/ ExtCreate(size) PROVE DestroyInv'
  <2>1. /\ pc[Control] = "idle" /\ ~created
        /\ created' /\ ~waitingfordata' /\ UNCHANGED <<locks, pc>>
    BY <1>2 DEF CreateDone, ExtCreate, Entered
  <2>2. \A t \in Threads : pc[t] \in {"idle", "waitunlock", "killed"}
    BY <2>1 DEF DestroyInv, DestroyWaits
  <2> QED
    BY <2>1, <2>2 DEF DestroyInv, WaitInv, DestroyWaits, locks, Inside
<1>3. CASE kind # "fake" /\ (Destroy \/ ExtDestroy)
  <2>1. /\ pc[Control] = "idle" /\ created /\ main = NoThread
        /\ ~created' /\ UNCHANGED <<wait, waitingfordata>>
        /\ IF waitingfordata THEN AbortWaitInternal(Control, "destroying") ELSE UNCHANGED <<main, pc>>
    BY <1>3 DEF Destroy, ExtDestroy, Served, Entered
  <2>2. \A t \in Threads : pc[t] \notin {"waitlock", "destroying", "writing"}
    BY <2>1 DEF DestroyInv, WaitInv
  <2>3. CASE waitingfordata /\ WaitGo(Control, "destroying") /\ UNCHANGED main
    <3>1. /\ pc' \in [Threads -> Places] /\ pc'[Control] = "destroying"
          /\ \A t \in Threads \ {Control} : pc'[t] = pc[t]
      BY <2>3, WaitGoGives DEF DestroyInv, Places
    <3> QED
      BY <1>3, <2>1, <2>2, <2>3, <3>1 DEF DestroyInv, WaitInv, DestroyWaits, Inside, Holding
  <2>4. CASE waitingfordata /\ WaitGo(Control, "writing") /\ main' = Control
    <3>1. /\ pc' \in [Threads -> Places] /\ pc'[Control] = "writing"
          /\ \A t \in Threads \ {Control} : pc'[t] = pc[t]
      BY <2>4, WaitGoGives DEF DestroyInv, Places
    <3> QED
      BY <1>3, <2>1, <2>2, <2>4, <3>1 DEF DestroyInv, WaitInv, DestroyWaits, Inside, Holding
  <2>5. CASE ~waitingfordata
    BY <2>1, <2>2, <2>5 DEF DestroyInv, WaitInv, DestroyWaits, locks, Inside, Places
  <2> QED
    BY <2>1, <2>3, <2>4, <2>5 DEF AbortWaitInternal
<1>4. CASE DestroyEnds
  <2>1. /\ pc[Control] = "destroying" /\ wait = NoThread /\ ~created
        /\ UNCHANGED <<created, wait, waitingfordata>>
    BY <1>4 DEF DestroyEnds, life, DestroyInv, WaitInv
  <2>2. pc'[Control] = "idle" /\ \A t \in Threads \ {Control} : pc'[t] = pc[t]
    BY <1>4 DEF DestroyEnds, DestroyInv, WaitInv
  <2>3. \A t \in Threads : pc[t] \in {"idle", "destroying"}
    BY <2>1 DEF DestroyInv, WaitInv, Places, Holding
  <2>4. \A t \in Threads : pc'[t] = "idle"
    BY <2>2, <2>3 DEF DestroyInv, WaitInv
  <2>5. pc' \in [Threads -> Places]
    BY <1>4 DEF DestroyEnds, DestroyInv, WaitInv, Places
  <2> QED
    BY <2>1, <2>4, <2>5 DEF DestroyInv, WaitInv, DestroyWaits, Inside, Holding
<1>5. CASE kind = "fake" /\ FakeLife
  <2>1. \A t \in Threads : pc[t] = "idle"
    BY <1>5 DEF DestroyInv, WaitInv
  <2>2. UNCHANGED <<pc, locks>>
    BY <1>5 DEF FakeLife, FakeInitCall, InitCall, FakeCreate, FakeDestroy, waits
  <2> QED
    BY <2>1, <2>2 DEF DestroyInv, WaitInv, DestroyWaits, locks, Inside, Holding
<1> QED
  BY <1>1, <1>2, <1>3, <1>4, <1>5
  DEF Life, ExtLife, Life6, InitCall6, CreateFails6, CreateDone6, Destroy6, DestroyEnds6

\* One step of WaitForIncomingData, with the mutexes as it leaves them.
LEMMA DestroyWait ==
    ASSUME DestroyInv, UNCHANGED kind, kind # "fake",
           NEW t \in Threads, Wait(t) \/ Wait6(t) \/ ExtWait(t)
    PROVE  DestroyInv'
<1> USE TransmitterAssumption
<1>0. WaitInv
  BY DEF DestroyInv
<1>1. CASE WaitBegin(t)
  <2>1. /\ created /\ ~waitingfordata /\ pc[t] = "idle"
        /\ main = NoThread /\ main' = t /\ waitingfordata'
        /\ UNCHANGED <<created, wait>>
    BY <1>1 DEF WaitBegin, Served, Entered, life
  <2>2. pc' \in [Threads -> Places] /\ pc'[t] = "waitlock" /\ \A u \in Threads \ {t} : pc'[u] = pc[u]
    BY <1>0, <1>1, WaitGoGives DEF WaitBegin, Places
  <2>3. \A u \in Threads : pc[u] \notin Inside
    BY <2>1 DEF DestroyInv, WaitInv
  <2> QED
    BY <2>1, <2>2, <2>3 DEF DestroyInv, WaitInv, DestroyWaits, Inside, Holding
<1>2. CASE WaitLock(t)
  <2>1. /\ pc[t] = "waitlock" /\ wait = NoThread /\ wait' = t /\ main' = NoThread
        /\ UNCHANGED <<created, waitingfordata>>
    BY <1>2 DEF WaitLock, life
  <2>2. pc' \in [Threads -> Places] /\ pc'[t] = "select" /\ \A u \in Threads \ {t} : pc'[u] = pc[u]
    BY <1>0, <1>2, WaitGoGives DEF WaitLock, Places
  <2>3. /\ created
        /\ \A u \in Threads \ {t} : pc[u] \notin {"waitlock", "writing"} /\ pc[u] \notin Holding
    BY <2>1 DEF DestroyInv, WaitInv
  <2> QED
    BY <2>1, <2>2, <2>3 DEF DestroyInv, WaitInv, DestroyWaits, Inside, Holding
<1>3. CASE SelectReady(t) \/ SelectTimeout(t) \/ SelectFails(t) \/ WaitKilled(t)
  <2>1. pc[t] = "select" /\ UNCHANGED <<created, locks, waitingfordata>>
    BY <1>3 DEF SelectReady, SelectTimeout, SelectFails, WaitKilled, life
  <2>2. /\ pc' \in [Threads -> Places] /\ pc'[t] \in {"selected", "failed", "killed"}
        /\ \A u \in Threads \ {t} : pc'[u] = pc[u]
    BY <1>0, <1>3, WaitGoGives DEF SelectReady, SelectTimeout, SelectFails, WaitKilled, Places
  <2> QED
    BY <2>1, <2>2 DEF DestroyInv, WaitInv, DestroyWaits, locks, Inside, Holding
<1>4. CASE WaitFailed(t) \/ WaitEnds(t) \/ ExtWaitEnds(t)
  <2>1. pc[t] \in {"failed", "selected"} /\ UNCHANGED <<created, locks>>
    BY <1>4 DEF WaitFailed, WaitEnds, ExtWaitEnds, life
  <2>2. /\ pc' \in [Threads -> Places] /\ pc'[t] = "waitunlock"
        /\ \A u \in Threads \ {t} : pc'[u] = pc[u]
    BY <1>0, <1>4, WaitGoGives DEF WaitFailed, WaitEnds, ExtWaitEnds, Places
  <2>3. \A u \in Threads \ {t} : pc[u] \notin Inside
    BY <2>1 DEF DestroyInv, WaitInv, Inside
  <2> QED
    BY <2>1, <2>2, <2>3 DEF DestroyInv, WaitInv, DestroyWaits, locks, Inside, Holding
<1>5. CASE WaitUnlock(t)
  <2>1. pc[t] = "waitunlock" /\ wait = t /\ UNCHANGED <<created, main, waitingfordata>>
    BY <1>5 DEF WaitUnlock, life, DestroyInv, WaitInv, Holding
  <2>2. /\ pc' \in [Threads -> Places] /\ pc'[t] = "idle"
        /\ \A u \in Threads \ {t} : pc'[u] = pc[u]
    BY <1>0, <1>5, WaitGoGives DEF WaitUnlock, Places
  <2>3. \A u \in Threads \ {t} : pc[u] \notin Holding
    BY <2>1 DEF DestroyInv, WaitInv
  <2> QED
    BY <2>1, <2>2, <2>3 DEF DestroyInv, WaitInv, DestroyWaits, Inside, Holding
<1>6. CASE AbortWait(t)
  BY <1>6, DestroyWrite DEF AbortWait, life
<1> QED
  BY <1>1, <1>2, <1>3, <1>4, <1>5, <1>6
  DEF Wait, Wait6, ExtWait, WaitBegin6, WaitFailed6, WaitEnds6, AbortWait6, ExtWaitBegin,
      ExtAbortWait

LEMMA DestroyNext == DestroyInv /\ [Next]_mcVars => DestroyInv'
<1> SUFFICES ASSUME DestroyInv, [Next]_mcVars PROVE DestroyInv'
  OBVIOUS
<1>1. CASE Network
  BY <1>1, ReceiveFrame, DestroyFrame DEF Network, life, waits
<1>2. ASSUME NEW t \in Threads, UNCHANGED kind,
             \/ kind = "v4" /\ V4(t)
             \/ kind = "v6" /\ V6(t)
             \/ kind = "fake" /\ Fake
             \/ kind = "external" /\ External(t)
      PROVE  DestroyInv'
  <2>1. CASE kind # "fake" /\ (Wait(t) \/ Wait6(t) \/ ExtWait(t))
    BY <1>2, <2>1, DestroyWait
  <2>2. CASE Receive(t) \/ Receive6(t) \/ FakeReceive
    BY <1>2, <2>2, ReceiveFrame, DestroyFrame DEF life, waits
  <2>3. CASE Filter(t) \/ Filter6(t) \/ FakeFilter \/ Lists(t) \/ Lists(Control)
    BY <1>2, <2>3, FilterFrame, DestroyFrame DEF life, waits
  <2>4. CASE Sends(t) \/ Sends6(t) \/ FakeSends \/ ExtSends(t)
    BY <1>2, <2>4, SendsFrame, DestroyFrame DEF life, waits
  <2>5. CASE GroupCalls(t) \/ Groups6(t)
    BY <1>2, <2>5, GroupsFrame, DestroyFrame DEF life, waits
  <2>6. CASE kind = "external" /\ ExtReceive(t)
    <3>1. UNCHANGED <<created, wait, waitingfordata>>
      BY <2>6, InjectFrame DEF life
    <3>2. CASE UNCHANGED <<main, pc>>
      BY <1>2, <3>1, <3>2, DestroyFrame DEF locks
    <3>3. CASE Served(t) /\ AbortWaitInternal(t, "idle")
      BY <1>2, <2>6, <3>1, <3>3, DestroyWrite
    <3> QED
      BY <2>6, <3>2, <3>3, InjectFrame
  <2>7. CASE \/ kind # "fake" /\ (Life \/ Life6 \/ ExtLife)
             \/ kind = "fake" /\ FakeLife
    BY <1>2, <2>7, DestroyLife
  <2>8. CASE kind = "v4" /\ V4(t)
    BY <2>1, <2>2, <2>3, <2>4, <2>5, <2>7, <2>8 DEF V4
  <2>9. CASE kind = "v6" /\ V6(t)
    BY <2>1, <2>2, <2>3, <2>4, <2>5, <2>7, <2>9 DEF V6
  <2>10. CASE kind = "fake" /\ Fake
    BY <2>2, <2>3, <2>4, <2>7, <2>10 DEF Fake
  <2>11. CASE kind = "external" /\ External(t)
    BY <2>1, <2>4, <2>6, <2>7, <2>11 DEF External
  <2> QED
    BY <1>2, <2>8, <2>9, <2>10, <2>11
<1>3. CASE UNCHANGED mcVars
  BY <1>3, DestroyFrame DEF mcVars, vars, life, waits
<1> QED
  BY <1>1, <1>2, <1>3, TransmitterAssumption DEF Next, NextV4, NextV6, NextFake, NextExternal

\* When Destroy has returned no thread is between the two locks of
\* WaitForIncomingData or looks at the transmitter after them, but to unlock
\* waitmutex, whichever transmitter it is and even when a thread was killed in
\* select.
THEOREM DestroyIsSafe == Spec => []DestroyWaits
<1>1. DestroyInv => DestroyWaits
  BY DEF DestroyInv
<1> QED
  BY <1>1, DestroyInit, DestroyNext, PTL DEF Spec

-----------------------------------------------------------------------------
(* The kernel and the transmitter agree. *)

LEMMA KernelInit == MCInit => KernelMatches
BY TransmitterAssumption DEF MCInit, ExtInit, Init, KernelMatches, Kinds, Sockets

\* Whoever leaves the life of the transmitter, the groups and a Destroy in its
\* write alone keeps it.
LEMMA KernelFrame ==
    ASSUME KernelMatches, UNCHANGED <<life, groups, kind>>,
           created \/ (pc'[Control] = "writing" <=> pc[Control] = "writing")
    PROVE  KernelMatches'
BY DEF KernelMatches, life, groups

LEMMA KernelLife ==
    ASSUME DestroyInv, KernelMatches, Life \/ Life6, UNCHANGED kind
    PROVE  KernelMatches'
<1> USE TransmitterAssumption
<1>1. CASE InitCall
  BY <1>1 DEF InitCall, KernelMatches, groups, waits
<1>2. CASE CreateFails
  <2>1. \A k \in Kinds : \A point : k \notin FailurePoints[point] \ ClosedAt(point)
    BY DEF ClosedAt
  <2>2. UNCHANGED <<created, groups, pc>> /\ ~created /\ pc[Control] = "idle"
    BY <1>2 DEF CreateFails, waits, Entered
  <2>3. kind \in {"v4", "v6"} => descriptors' = [k \in Kinds |-> 0]
    BY <1>2, <2>1, <2>2 DEF CreateFails, KernelMatches
  <2> QED
    BY <2>2, <2>3 DEF KernelMatches, groups
<1>3. ASSUME NEW size, CreateDone(size) PROVE KernelMatches'
  BY <1>3 DEF CreateDone, KernelMatches, groups
<1>4. CASE Destroy
  <2>1. /\ created /\ ~created'
        /\ descriptors' = [k \in Kinds |-> IF k = "abort" THEN DestroyAbortDescriptors ELSE 0]
        /\ \A s \in Sockets : member'[s] = multicastgroups'
    BY <1>4 DEF Destroy, Served
  <2>2. kind \in {"v4", "v6"} => descriptors["abort"] = 1
    BY <2>1 DEF KernelMatches, Kinds
  <2> QED
    BY <2>1, <2>2 DEF KernelMatches, DestroyAbortDescriptors
<1>5. CASE DestroyEnds
  <2>1. pc[Control] = "destroying" /\ pc'[Control] = "idle"
    BY <1>5 DEF DestroyEnds, DestroyInv, WaitInv
  <2> QED
    BY <1>5, <2>1, KernelFrame DEF DestroyEnds
<1> QED
  BY <1>1, <1>2, <1>3, <1>4, <1>5
  DEF Life, Life6, InitCall6, CreateFails6, CreateDone6, Destroy6, DestroyEnds6

LEMMA KernelGroups ==
    ASSUME KernelMatches, NEW t, GroupCalls(t) \/ Groups6(t), UNCHANGED kind
    PROVE  KernelMatches'
<1>1. UNCHANGED <<life, pc>>
  BY GroupsFrame DEF waits
<1>2. \A s \in Sockets : member[s] = multicastgroups
  BY DEF KernelMatches
<1>3. \A s \in Sockets : member'[s] = multicastgroups'
  <2>1. ASSUME NEW g, JoinMulticastGroup(t, g) \/ JoinFails(t, g) \/ LeaveMulticastGroup(t, g)
        PROVE  \A s \in Sockets : member'[s] = multicastgroups'
    BY <1>2, <2>1 DEF JoinMulticastGroup, JoinFails, UndoJoin, LeaveMulticastGroup
  <2>2. ASSUME LeaveAllMulticastGroups(t) PROVE \A s \in Sockets : member'[s] = multicastgroups'
    BY <1>2, <2>2 DEF LeaveAllMulticastGroups
  <2> QED
    BY <2>1, <2>2 DEF GroupCalls, Groups6, JoinMulticastGroup6, LeaveMulticastGroup6,
                      LeaveAllMulticastGroups6
<1> QED
  BY <1>1, <1>3 DEF KernelMatches, life

\* No step of WaitForIncomingData begins or ends a write, and AbortWait begins
\* one only of a transmitter that is there.
LEMMA WaitMoves ==
    ASSUME DestroyInv, NEW t \in Threads, Wait(t) \/ Wait6(t)
    PROVE  created \/ (pc'[Control] = "writing" <=> pc[Control] = "writing")
<1>1. CASE WaitBegin(t) \/ AbortWait(t)
  BY <1>1 DEF WaitBegin, AbortWait, Served
<1>2. ASSUME NEW place \in Places \ {"writing"}, WaitGo(t, place), pc[t] # "writing"
      PROVE  pc'[Control] = "writing" <=> pc[Control] = "writing"
  <2>1. pc'[t] = place /\ \A u \in Threads \ {t} : pc'[u] = pc[u]
    BY <1>2, WaitGoGives DEF DestroyInv
  <2> QED
    BY <1>2, <2>1, TransmitterAssumption
<1>3. CASE \/ WaitLock(t) \/ SelectReady(t) \/ SelectTimeout(t) \/ SelectFails(t)
           \/ WaitFailed(t) \/ WaitEnds(t) \/ WaitUnlock(t) \/ WaitKilled(t)
  <2>1. \E place \in {"select", "selected", "failed", "waitunlock", "idle", "killed"} :
           WaitGo(t, place) /\ pc[t] # "writing"
    BY <1>3 DEF WaitLock, SelectReady, SelectTimeout, SelectFails, WaitFailed, WaitEnds,
                WaitUnlock, WaitKilled
  <2> QED
    BY <1>2, <2>1 DEF Places
<1> QED
  BY <1>1, <1>3 DEF Wait, Wait6, WaitBegin6, WaitFailed6, WaitEnds6, AbortWait6

LEMMA KernelNext == DestroyInv /\ KernelMatches /\ [Next]_mcVars => KernelMatches'
<1> SUFFICES ASSUME DestroyInv, KernelMatches, [Next]_mcVars PROVE KernelMatches'
  OBVIOUS
<1>1. CASE Network
  BY <1>1, ReceiveFrame, KernelFrame DEF Network, waits
<1>2. ASSUME NEW t \in Threads, V4(t) \/ V6(t), UNCHANGED <<kind, view>>
      PROVE  KernelMatches'
  <2>1. CASE Wait(t) \/ Wait6(t)
    BY <1>2, <2>1, WaitFrame, WaitMoves, KernelFrame
  <2>2. CASE Receive(t) \/ Receive6(t)
    BY <1>2, <2>2, ReceiveFrame, KernelFrame DEF waits
  <2>3. CASE Filter(t) \/ Filter6(t) \/ Lists(t)
    BY <1>2, <2>3, FilterFrame, KernelFrame DEF waits
  <2>4. CASE Sends(t) \/ Sends6(t)
    BY <1>2, <2>4, SendsFrame, KernelFrame DEF waits
  <2> QED
    BY <1>2, <2>1, <2>2, <2>3, <2>4, KernelLife, KernelGroups DEF V4, V6
<1>3. CASE NextFake \/ NextExternal
  <2>1. UNCHANGED <<kind, groups>> /\ kind \notin {"v4", "v6"}
    BY <1>3, OtherLifeFrame, WaitFrame, ReceiveFrame, InjectFrame, FilterFrame, SendsFrame
    DEF NextFake, NextExternal, Fake, External
  <2> QED
    BY <2>1 DEF KernelMatches, groups
<1>4. CASE UNCHANGED mcVars
  BY <1>4, KernelFrame DEF mcVars, vars, waits
<1> QED
  BY <1>1, <1>2, <1>3, <1>4 DEF Next, NextV4, NextV6

\* The kernel has open and has joined what the transmitter says it has.
THEOREM KernelAgrees == Spec => []KernelMatches
  BY DestroyInit, DestroyNext, KernelInit, KernelNext, PTL DEF Spec

-----------------------------------------------------------------------------
(* What is selected is what the calls on the lists add up to. *)

EntriesTyped ==
    /\ DOMAIN acceptignoreinfo \subseteq Ips
    /\ \A ip \in DOMAIN acceptignoreinfo : acceptignoreinfo[ip] \in PortInfo

FilterInv == EntriesTyped /\ FilterAgrees

LEMMA NoneSelected == acceptignoreinfo = <<>> => EntriesTyped /\ Selected = {}
BY DEF EntriesTyped, Selected, Selects

LEMMA NoneSelectedNext == acceptignoreinfo' = <<>> => EntriesTyped' /\ Selected' = {}
BY DEF EntriesTyped, Selected, Selects

LEMMA FilterInit == MCInit => FilterInv
<1> SUFFICES ASSUME MCInit PROVE FilterInv
  OBVIOUS
<1>1. acceptignoreinfo = <<>> /\ asked = {} /\ again = {}
  BY DEF MCInit, ExtInit, Init
<1> QED
  BY <1>1, NoneSelected DEF FilterInv, FilterAgrees

LEMMA SetEntryGives ==
    ASSUME NEW ip \in Ips, NEW entry \in PortInfo, SetEntry(ip, entry), FilterInv
    PROVE  /\ DOMAIN acceptignoreinfo' = DOMAIN acceptignoreinfo \cup {ip}
           /\ acceptignoreinfo'[ip] = entry
           /\ \A h \in DOMAIN acceptignoreinfo \ {ip} : acceptignoreinfo'[h] = acceptignoreinfo[h]
BY DEF SetEntry

\* A new entry for one host changes what is listed of this host alone.
LEMMA SetEntryLists ==
    ASSUME NEW ip \in Ips, NEW entry \in PortInfo, SetEntry(ip, entry), FilterInv
    PROVE  /\ EntriesTyped'
           /\ \A p : Selects(ip, p)' <=> (entry.all # (p \in entry.ports))
           /\ \A h \in Ips \ {ip} : \A p : Selects(h, p)' <=> Selects(h, p)
<1>1. /\ DOMAIN acceptignoreinfo' = DOMAIN acceptignoreinfo \cup {ip}
      /\ acceptignoreinfo'[ip] = entry
      /\ \A h \in DOMAIN acceptignoreinfo \ {ip} : acceptignoreinfo'[h] = acceptignoreinfo[h]
  BY SetEntryGives
<1>2. EntriesTyped'
  BY <1>1 DEF FilterInv, EntriesTyped
<1>3. \A p : Selects(ip, p)' <=> (entry.all # (p \in entry.ports))
  BY <1>1 DEF Selects
<1>4. \A h \in Ips \ {ip} : \A p : Selects(h, p)' <=> Selects(h, p)
  BY <1>1 DEF Selects
<1> QED
  BY <1>2, <1>3, <1>4

LEMMA SelectedGives ==
    ASSUME NEW ip \in Ips,
           \A h \in Ips \ {ip}, p \in Ports : Selects(h, p)' <=> Selects(h, p)
    PROVE  /\ \A P \in SUBSET Ports :
                 (\A p \in Ports : Selects(ip, p)' <=> Selects(ip, p) \/ p \in P)
                    => Selected' = Selected \cup ({ip} \X P)
           /\ \A P \in SUBSET Ports :
                 (\A p \in Ports : Selects(ip, p)' <=> Selects(ip, p) /\ p \notin P)
                    => Selected' = Selected \ ({ip} \X P)
<1> DEFINE Sel(h, p) == Selects(h, p)
<1>1. \A a : a \in Selected <=> a \in Ips \X Ports /\ Selects(a[1], a[2])
  BY DEF Selected
<1>2. \A a : a \in Selected' <=> a \in Ips \X Ports /\ Selects(a[1], a[2])'
  BY DEF Selected
<1>3. ASSUME NEW P \in SUBSET Ports,
             \A p \in Ports : Selects(ip, p)' <=> Selects(ip, p) \/ p \in P
      PROVE  Selected' = Selected \cup ({ip} \X P)
  <2>1. \A a \in Ips \X Ports : Selects(a[1], a[2])' <=> Selects(a[1], a[2]) \/ a \in {ip} \X P
    BY <1>3
  <2> QED
    BY <1>1, <1>2, <2>1
<1>4. ASSUME NEW P \in SUBSET Ports,
             \A p \in Ports : Selects(ip, p)' <=> Selects(ip, p) /\ p \notin P
      PROVE  Selected' = Selected \ ({ip} \X P)
  <2>1. \A a \in Ips \X Ports : Selects(a[1], a[2])' <=> Selects(a[1], a[2]) /\ a \notin {ip} \X P
    BY <1>4
  <2> QED
    BY <1>1, <1>2, <2>1
<1> QED
  BY <1>3, <1>4

\* The addresses that a call names.
LEMMA NamedGives ==
    ASSUME NEW ip \in Ips, NEW port \in Ports \cup {0}
    PROVE  /\ port = 0 => Named(ip, port) = {ip} \X Ports
           /\ port # 0 => port \in Ports /\ {port} \in SUBSET Ports /\ Named(ip, port) = {ip} \X {port}
           /\ Named(ip, port) \subseteq Ips \X Ports
<1>1. {ip} \X {port} = {<<ip, port>>}
  OBVIOUS
<1>2. CASE port = 0
  BY <1>2 DEF Named
<1>3. CASE port # 0
  <2>1. port \in Ports /\ Named(ip, port) = {<<ip, port>>}
    BY <1>3 DEF Named
  <2> QED
    BY <1>1, <1>3, <2>1
<1> QED
  BY <1>2, <1>3

\* Adding: all the ports of a host, or the one named; a port that was taken out
\* of an entry for all ports is not put back.
LEMMA AddEntryAdds ==
    ASSUME FilterInv, NEW ip \in Ips, NEW port \in Ports \cup {0}, AddEntry(ip, port)
    PROVE  /\ EntriesTyped'
           /\ Selected' = IF port # 0 /\ ip \in DOMAIN acceptignoreinfo /\ acceptignoreinfo[ip].all
                          THEN Selected ELSE Selected \cup Named(ip, port)
<1> USE TransmitterAssumption
<1>1. CASE ip \notin DOMAIN acceptignoreinfo
  <2>1. PICK entry : entry = [all |-> port = 0, ports |-> {port} \ {0}]
    OBVIOUS
  <2>2. (port = 0) \in BOOLEAN
    OBVIOUS
  <2>3. entry \in PortInfo /\ entry.all = (port = 0) /\ entry.ports = {port} \ {0}
    BY <2>1, <2>2 DEF PortInfo
  <2>4. SetEntry(ip, entry)
    BY <1>1, <2>1 DEF AddEntry
  <2>5. \A p \in Ports : ~Selects(ip, p)
    BY <1>1 DEF Selects
  <2>6. \A p \in Ports : Selects(ip, p)' <=> (entry.all # (p \in entry.ports))
    BY <2>3, <2>4, SetEntryLists
  <2>7. CASE port = 0
    <3>1. \A p \in Ports : Selects(ip, p)' <=> Selects(ip, p) \/ p \in Ports
      BY <2>3, <2>6, <2>7
    <3> QED
      <4>1. Selected' = Selected \cup ({ip} \X Ports)
        BY <2>3, <2>4, <3>1, SetEntryLists, SelectedGives
      <4>2. EntriesTyped'
        BY <2>3, <2>4, SetEntryLists
      <4> QED
        BY <1>1, <2>7, <4>1, <4>2, NamedGives
  <2>8. CASE port # 0
    <3>1. \A p \in Ports : Selects(ip, p)' <=> Selects(ip, p) \/ p \in {port}
      BY <2>3, <2>5, <2>6, <2>8
    <3> QED
      <4>1. port \in Ports /\ {port} \in SUBSET Ports
        BY <2>8
      <4>2. Selected' = Selected \cup ({ip} \X {port})
        BY <2>3, <2>4, <3>1, <4>1, SetEntryLists, SelectedGives
      <4>3. EntriesTyped'
        BY <2>3, <2>4, SetEntryLists
      <4> QED
        BY <1>1, <2>8, <4>2, <4>3, NamedGives
  <2> QED
    BY <2>7, <2>8
<1>2. CASE ip \in DOMAIN acceptignoreinfo /\ port = 0
  <2>1. PICK entry : entry = [all |-> TRUE, ports |-> {}]
    OBVIOUS
  <2>2. entry \in PortInfo /\ entry.all = TRUE /\ entry.ports = {}
    BY <2>1 DEF PortInfo
  <2>3. SetEntry(ip, entry)
    BY <1>2, <2>1 DEF AddEntry
  <2>4. \A p \in Ports : Selects(ip, p)' <=> Selects(ip, p) \/ p \in Ports
    BY <2>2, <2>3, SetEntryLists
  <2>5. Selected' = Selected \cup ({ip} \X Ports)
    BY <2>2, <2>3, <2>4, SetEntryLists, SelectedGives
  <2>6. EntriesTyped'
    BY <2>2, <2>3, SetEntryLists
  <2> QED
    BY <1>2, <2>5, <2>6, NamedGives
<1>3. CASE ip \in DOMAIN acceptignoreinfo /\ port # 0 /\ ~acceptignoreinfo[ip].all
  <2>1. PICK entry : entry = [acceptignoreinfo[ip] EXCEPT !.ports = @ \cup {port}]
    OBVIOUS
  <2>2. acceptignoreinfo[ip] \in PortInfo
    BY <1>3 DEF FilterInv, EntriesTyped
  <2>3. /\ entry \in PortInfo /\ entry.all = acceptignoreinfo[ip].all
        /\ entry.ports = acceptignoreinfo[ip].ports \cup {port}
    BY <1>3, <2>1, <2>2 DEF PortInfo
  <2>4. SetEntry(ip, entry)
    BY <1>3, <2>1 DEF AddEntry
  <2>5. \A p \in Ports : Selects(ip, p) <=> p \in acceptignoreinfo[ip].ports
    BY <1>3, <2>2 DEF Selects, PortInfo
  <2>6. \A p \in Ports : Selects(ip, p)' <=> p \in entry.ports
    BY <1>3, <2>2, <2>3, <2>4, SetEntryLists DEF PortInfo
  <2>7. \A p \in Ports : Selects(ip, p)' <=> Selects(ip, p) \/ p \in {port}
    BY <2>3, <2>5, <2>6
  <2> QED
    <3>1. port \in Ports /\ {port} \in SUBSET Ports
      BY <1>3
    <3>2. Selected' = Selected \cup ({ip} \X {port})
      BY <2>3, <2>4, <2>7, <3>1, SetEntryLists, SelectedGives
    <3>3. EntriesTyped'
      BY <2>3, <2>4, SetEntryLists
    <3> QED
      BY <1>3, <3>2, <3>3, NamedGives
<1>4. CASE ip \in DOMAIN acceptignoreinfo /\ port # 0 /\ acceptignoreinfo[ip].all
  <2>1. UNCHANGED acceptignoreinfo
    BY <1>4 DEF AddEntry
  <2> QED
    BY <1>4, <2>1 DEF FilterInv, EntriesTyped, Selected, Selects
<1> QED
  BY <1>1, <1>2, <1>3, <1>4

LEMMA DeleteEntryDeletes ==
    ASSUME FilterInv, NEW ip \in Ips, NEW port \in Ports \cup {0}, DeleteEntry(ip, port)
    PROVE  /\ EntriesTyped'
           /\ Selected' = Selected \ Named(ip, port)
<1> USE TransmitterAssumption
<1>0. ip \in DOMAIN acceptignoreinfo /\ acceptignoreinfo[ip] \in PortInfo
  BY DEF DeleteEntry, FilterInv, EntriesTyped
<1>1. CASE port = 0
  <2>1. PICK entry : entry = [all |-> FALSE, ports |-> {}]
    OBVIOUS
  <2>2. entry \in PortInfo /\ entry.all = FALSE /\ entry.ports = {}
    BY <2>1 DEF PortInfo
  <2>3. SetEntry(ip, entry)
    BY <1>1, <2>1 DEF DeleteEntry
  <2>4. \A p \in Ports : Selects(ip, p)' <=> (entry.all # (p \in entry.ports))
    BY <2>2, <2>3, SetEntryLists
  <2>5. \A p \in Ports : Selects(ip, p)' <=> Selects(ip, p) /\ p \notin Ports
    <3> SUFFICES ASSUME NEW p \in Ports PROVE ~Selects(ip, p)'
      OBVIOUS
    <3>1. (p \in entry.ports) = FALSE
      BY <2>2
    <3> QED
      BY <2>2, <2>4, <3>1
  <2>6. Selected' = Selected \ ({ip} \X Ports)
    BY <2>2, <2>3, <2>5, SetEntryLists, SelectedGives
  <2>7. EntriesTyped'
    BY <2>2, <2>3, SetEntryLists
  <2> QED
    BY <1>1, <2>6, <2>7, NamedGives
<1>2. CASE port # 0 /\ acceptignoreinfo[ip].all
  <2>1. PICK entry : entry = [acceptignoreinfo[ip] EXCEPT !.ports = @ \cup {port}]
    OBVIOUS
  <2>2. /\ entry \in PortInfo /\ entry.all = TRUE
        /\ entry.ports = acceptignoreinfo[ip].ports \cup {port}
    BY <1>0, <1>2, <2>1 DEF PortInfo
  <2>3. SetEntry(ip, entry)
    BY <1>2, <2>1 DEF DeleteEntry
  <2>4. \A p \in Ports : Selects(ip, p) <=> p \notin acceptignoreinfo[ip].ports
    BY <1>0, <1>2 DEF Selects, PortInfo
  <2>5. \A p \in Ports : Selects(ip, p)' <=> p \notin entry.ports
    BY <2>2, <2>3, SetEntryLists DEF PortInfo
  <2>6. \A p \in Ports : Selects(ip, p)' <=> Selects(ip, p) /\ p \notin {port}
    BY <2>2, <2>4, <2>5
  <2> QED
    <3>1. port \in Ports /\ {port} \in SUBSET Ports
      BY <1>2
    <3>2. Selected' = Selected \ ({ip} \X {port})
      BY <2>2, <2>3, <2>6, <3>1, SetEntryLists, SelectedGives
    <3>3. EntriesTyped'
      BY <2>2, <2>3, SetEntryLists
    <3> QED
      BY <1>2, <3>2, <3>3, NamedGives
<1>3. CASE port # 0 /\ ~acceptignoreinfo[ip].all
  <2>1. PICK entry : entry = [acceptignoreinfo[ip] EXCEPT !.ports = @ \ {port}]
    OBVIOUS
  <2>2. /\ entry \in PortInfo /\ entry.all = FALSE
        /\ entry.ports = acceptignoreinfo[ip].ports \ {port}
    BY <1>0, <1>3, <2>1 DEF PortInfo
  <2>3. SetEntry(ip, entry)
    BY <1>3, <2>1 DEF DeleteEntry
  <2>4. \A p \in Ports : Selects(ip, p) <=> p \in acceptignoreinfo[ip].ports
    BY <1>0, <1>3 DEF Selects, PortInfo
  <2>5. \A p \in Ports : Selects(ip, p)' <=> p \in entry.ports
    BY <2>2, <2>3, SetEntryLists DEF PortInfo
  <2>6. \A p \in Ports : Selects(ip, p)' <=> Selects(ip, p) /\ p \notin {port}
    BY <2>2, <2>4, <2>5
  <2> QED
    <3>1. port \in Ports /\ {port} \in SUBSET Ports
      BY <1>3
    <3>2. Selected' = Selected \ ({ip} \X {port})
      BY <2>2, <2>3, <2>6, <3>1, SetEntryLists, SelectedGives
    <3>3. EntriesTyped'
      BY <2>2, <2>3, SetEntryLists
    <3> QED
      BY <1>3, <3>2, <3>3, NamedGives
<1> QED
  BY <1>1, <1>2, <1>3

\* A call on the lists keeps it.
LEMMA ListStepFilters ==
    ASSUME FilterInv, ListStep
    PROVE  FilterInv'
<1>0. Selected = asked \ again
  BY DEF FilterInv, FilterAgrees
<1>1. CASE acceptignoreinfo' = <<>> /\ Forget
  BY <1>1, NoneSelectedNext DEF FilterInv, FilterAgrees, Forget
<1>2. ASSUME NEW ip \in Ips, NEW port \in Ports \cup {0},
             AddEntry(ip, port), Ask(ip, port)
      PROVE  FilterInv'
  <2> DEFINE lost == port # 0 /\ ip \in DOMAIN acceptignoreinfo /\ acceptignoreinfo[ip].all
             N == Named(ip, port)
  <2>1. EntriesTyped' /\ Selected' = IF lost THEN Selected ELSE Selected \cup N
    BY <1>2, AddEntryAdds
  <2>2. asked' = asked \cup N /\ again' = IF lost THEN again \cup (N \ Selected) ELSE again \ N
    BY <1>2 DEF Ask
  <2> HIDE DEF lost, N
  <2>3. Selected' = asked' \ again'
    BY <1>0, <2>1, <2>2
  <2> QED
    BY <2>1, <2>3 DEF FilterInv, FilterAgrees
<1>3. ASSUME NEW ip \in Ips, NEW port \in Ports \cup {0},
             DeleteEntry(ip, port), Recant(ip, port)
      PROVE  FilterInv'
  <2> DEFINE N == Named(ip, port)
  <2>1. EntriesTyped' /\ Selected' = Selected \ N
    BY <1>3, DeleteEntryDeletes
  <2>2. asked' = asked \ N /\ again' = again \ N
    BY <1>3 DEF Recant
  <2> HIDE DEF N
  <2>3. Selected' = asked' \ again'
    BY <1>0, <2>1, <2>2
  <2> QED
    BY <2>1, <2>3 DEF FilterInv, FilterAgrees
<1> QED
  BY <1>1, <1>2, <1>3 DEF ListStep

\* Whoever leaves the lists and their history alone keeps it.
LEMMA FilterStays ==
    ASSUME FilterInv, UNCHANGED <<acceptignoreinfo, history>>
    PROVE  FilterInv'
BY DEF FilterInv, EntriesTyped, FilterAgrees, Selected, Selects, history

\* Create finds the lists empty and Destroy leaves them so.
LEMMA LifeFilters ==
    ASSUME FilterInv, Life \/ Life6 \/ FakeLife \/ ExtLife
    PROVE  FilterInv'
<1>1. CASE InitCall \/ CreateFails \/ DestroyEnds \/ ExtDestroy
  BY <1>1, FilterStays DEF InitCall, CreateFails, DestroyEnds, ExtDestroy, lists
<1>2. ASSUME NEW size, CreateDone(size) \/ FakeCreate(size) \/ ExtCreate(size)
      PROVE  FilterInv'
  BY <1>2, FilterStays DEF CreateDone, FakeCreate, ExtCreate, lists
<1>3. CASE Destroy \/ FakeDestroy
  <2>1. acceptignoreinfo' = <<>> /\ Forget
    BY <1>3 DEF Destroy, FakeDestroy
  <2> QED
    BY <2>1, NoneSelectedNext DEF FilterInv, FilterAgrees, Forget
<1> QED
  BY <1>1, <1>2, <1>3
  DEF Life, Life6, FakeLife, ExtLife, InitCall6, CreateFails6, CreateDone6, Destroy6,
      DestroyEnds6, FakeInitCall

LEMMA FilterNext == FilterInv /\ [Next]_mcVars => FilterInv'
<1> SUFFICES ASSUME FilterInv, [Next]_mcVars PROVE FilterInv'
  OBVIOUS
<1>1. CASE Network
  BY <1>1, ReceiveFrame, FilterStays DEF Network, lists
<1>2. ASSUME NEW t \in Threads, V4(t) \/ V6(t) \/ Fake \/ External(t)
      PROVE  FilterInv'
  <2>1. CASE Wait(t) \/ Wait6(t) \/ ExtWait(t)
    BY <2>1, WaitFrame, FilterStays DEF lists
  <2>2. CASE Receive(t) \/ Receive6(t) \/ FakeReceive
    BY <2>2, ReceiveFrame, FilterStays DEF lists
  <2>3. CASE Filter(t) \/ Filter6(t) \/ FakeFilter \/ Lists(t) \/ Lists(Control)
    BY <2>3, FilterFrame, ListStepFilters
  <2>4. CASE Sends(t) \/ Sends6(t) \/ FakeSends \/ ExtSends(t)
    BY <2>4, SendsFrame, FilterStays DEF lists
  <2>5. CASE GroupCalls(t) \/ Groups6(t)
    BY <2>5, GroupsFrame, FilterStays DEF lists
  <2>6. CASE ExtReceive(t)
    BY <2>6, InjectFrame, FilterStays DEF lists
  <2> QED
    BY <1>2, <2>1, <2>2, <2>3, <2>4, <2>5, <2>6, LifeFilters DEF V4, V6, Fake, External
<1>3. CASE UNCHANGED mcVars
  BY <1>3, FilterStays DEF mcVars, vars, lists
<1> QED
  BY <1>1, <1>2, <1>3, TransmitterAssumption DEF Next, NextV4, NextV6, NextFake, NextExternal

\* The entries with their exceptions, of all four transmitters and across
\* Destroy and Create, select what the calls on the lists add up to, one port of
\* a host or the whole host at a time, less the ports that a later call named in
\* vain.
THEOREM FilterSafety == Spec => []FilterAgrees
<1>1. FilterInv => FilterAgrees
  BY DEF FilterInv
<1> QED
  BY <1>1, FilterInit, FilterNext, PTL DEF Spec

-----------------------------------------------------------------------------
(* What the kernel and Poll do to the datagrams: a queue stays a queue. *)

\* A set of naturals that is not empty has a least element, which Min chooses.
LEMMA MinOfNats ==
    ASSUME NEW S \in SUBSET Nat, S # {}
    PROVE  Min(S) \in S /\ \A n \in S : Min(S) <= n
<1>1. PICK m \in S : \A n \in S : <<n, m>> \notin OpToRel(<, Nat)
  BY NatLessThanWellFounded, WFMin
<1>2. \A n \in S : m <= n
  <2> SUFFICES ASSUME NEW n \in S PROVE m <= n
    OBVIOUS
  <2>1. n \in Nat /\ m \in Nat
    OBVIOUS
  <2>2. n < m => <<n, m>> \in OpToRel(<, Nat)
    BY <2>1 DEF OpToRel
  <2>3. ~(n < m)
    BY <1>1, <2>2
  <2> QED
    BY <2>1, <2>3
<1> QED
  BY <1>2 DEF Min

MailInv == incoming \in [Sockets -> Seq(Datagram)]

LEMMA MailInit == MCInit => MailInv
BY DEF MCInit, ExtInit, Init, MailInv

LEMMA TakenGives ==
    ASSUME MailInv, NEW s \in Sockets
    PROVE  Taken(s) \in 0 .. Len(incoming[s])
<1> DEFINE I == {i \in 1 .. Len(incoming[s]) : incoming[s][i].empty}
<1>1. Taken(s) = IF I # {} THEN Min(I) ELSE 0
  BY DEF Taken, SelectInSeq
<1>2. incoming[s] \in Seq(Datagram) /\ Len(incoming[s]) \in Nat
  BY LenProperties DEF MailInv
<1>3. I \subseteq Nat
  BY <1>2
<1>4. I # {} => Min(I) \in I /\ \A n \in I : Min(I) <= n
  BY <1>3, MinOfNats
<1> QED
  BY <1>1, <1>2, <1>4

LEMMA KeptGives ==
    ASSUME MailInv, NEW s \in Sockets
    PROVE  Kept(s) \in Seq(Datagram)
<1>1. incoming[s] \in Seq(Datagram) /\ Len(incoming[s]) \in Nat
  BY LenProperties DEF MailInv
<1>2. CASE Taken(s) = 0
  BY <1>2 DEF Kept
<1>3. CASE Taken(s) # 0
  <2>1. Taken(s) \in 1 .. Len(incoming[s])
    BY <1>1, <1>3, TakenGives
  <2>2. \A i \in Taken(s) .. Len(incoming[s]) : incoming[s][i] \in Datagram
    BY <1>1, <2>1, ElementOfSeq
  <2>3. SubSeq(incoming[s], Taken(s), Len(incoming[s])) \in Seq(Datagram)
    BY <1>1, <2>1, <2>2, SubSeqProperties
  <2> QED
    BY <1>3, <2>3 DEF Kept
<1> QED
  BY <1>2, <1>3

LEMMA MailNetwork ==
    ASSUME MailInv, Network
    PROVE  MailInv'
<1>1. Mail \subseteq Datagram
  BY SitesAssumption, TransmitterAssumption DEF Mail, Datagram, Other, One
<1>2. (CHOOSE d \in Mail : ~d.empty) \in Mail
  <2>1. [ip |-> Other, port |-> One, empty |-> FALSE] \in Mail
    BY DEF Mail
  <2> QED
    BY <2>1
<1>3. PICK s \in Sockets, d \in Datagram : Arrive(s, d)
  BY <1>1, <1>2 DEF Network, Sockets
<1>4. incoming' = [incoming EXCEPT ![s] = Append(incoming[s], d)]
  BY <1>3 DEF Arrive
<1>5. incoming[s] \in Seq(Datagram)
  BY DEF MailInv
<1> QED
  BY <1>4, <1>5 DEF MailInv

LEMMA MailPoll ==
    ASSUME MailInv, NEW t, Poll(t)
    PROVE  MailInv'
<1>1. \A s \in Sockets : Kept(s) \in Seq(Datagram)
  BY KeptGives
<1> QED
  BY <1>1 DEF Poll, MailInv

\* The fake transmitter, whose mail is the one datagram of its parameters.
LEMMA MailFake ==
    ASSUME MailInv, FakeLife \/ FakeReceive
    PROVE  MailInv'
<1>1. <<>> \in Seq(Datagram) /\ \A d \in Datagram : <<d>> \in Seq(Datagram)
  OBVIOUS
<1>2. \A s \in Sockets, d \in Datagram :
        [k \in Sockets |-> IF k = s THEN <<d>> ELSE <<>>] \in [Sockets -> Seq(Datagram)]
  BY <1>1
<1>3. [s \in Sockets |-> <<>>] \in [Sockets -> Seq(Datagram)]
  BY <1>1
<1>4. CASE FakeLife
  <2>1. UNCHANGED incoming \/ incoming' = [s \in Sockets |-> <<>>]
    BY <1>4 DEF FakeLife, FakeInitCall, InitCall, FakeDestroy, FakeCreate, data
  <2> QED
    BY <1>3, <2>1 DEF MailInv
<1>5. CASE FakeReceive
  <2>1. \/ UNCHANGED incoming \/ incoming' = [s \in Sockets |-> <<>>]
        \/ \E s \in Sockets, d \in Datagram :
              incoming' = [k \in Sockets |-> IF k = s THEN <<d>> ELSE <<>>]
    BY <1>5 DEF FakeReceive, SetCurrentData, FakePoll, FakeGetNextPacket, GetNextPacket
  <2> QED
    BY <1>2, <1>3, <2>1 DEF MailInv
<1> QED
  BY <1>4, <1>5

-----------------------------------------------------------------------------
(* Types.  Two of them are more than that: the byte that WaitForIncomingData *)
(* reads of the abort pipe is there, and what PollSocket reads is a list of  *)
(* what it accepts.                                                          *)

LEMMA Counting ==
    ASSUME NEW S, 0 \in S, \A k \in Nat : k \in S => k + 1 \in S
    PROVE  Nat \subseteq S
<1> DEFINE B == {k \in Nat : k \notin S}
<1> SUFFICES ASSUME B # {} PROVE FALSE
  OBVIOUS
<1>1. B \in SUBSET Nat
  OBVIOUS
<1>2. Min(B) \in B /\ \A n \in B : Min(B) <= n
  <2> HIDE DEF B
  <2> QED
    BY <1>1, MinOfNats
<1> DEFINE m == Min(B)
<1>3. m \in Nat /\ m \notin S /\ m # 0
  BY <1>2
<1> HIDE DEF m
<1>4. m - 1 \in Nat /\ m = (m - 1) + 1 /\ ~(m <= m - 1)
  BY <1>3
<1>5. m - 1 \in S
  BY <1>2, <1>4 DEF m
<1> QED
  BY <1>3, <1>4, <1>5

\* The greatest place of a set of places.
LEMMA MaxOf ==
    ASSUME NEW n \in Nat, NEW s \in SUBSET (1 .. n), s # {}
    PROVE  /\ Max(s) \in 1 .. n
           /\ \A k \in Nat : s \in SUBSET (1 .. k + 1) => s \ {Max(s)} \in SUBSET (1 .. k)
<1> DEFINE S == {k \in Nat : \A r \in SUBSET (1 .. k) : r # {} => \E x \in r : \A y \in r : x >= y}
<1>1. 0 \in S
  <2>1. 1 .. 0 = {}
    OBVIOUS
  <2> QED
    BY <2>1
<1>2. ASSUME NEW k \in Nat, k \in S PROVE k + 1 \in S
  <2> SUFFICES ASSUME NEW r \in SUBSET (1 .. k + 1), r # {} PROVE \E x \in r : \A y \in r : x >= y
    OBVIOUS
  <2>1. CASE k + 1 \in r
    BY <2>1
  <2>2. CASE k + 1 \notin r
    <3>1. r \in SUBSET (1 .. k)
      BY <2>2
    <3> QED
      BY <1>2, <3>1
  <2> QED
    BY <2>1, <2>2
<1>3. n \in S
  <2> HIDE DEF S
  <2> QED
    BY <1>1, <1>2, Counting
<1>4. Max(s) \in s /\ \A y \in s : Max(s) >= y
  BY <1>3 DEF Max
<1>5. ASSUME NEW k \in Nat, s \in SUBSET (1 .. k + 1) PROVE s \ {Max(s)} \in SUBSET (1 .. k)
  <2> SUFFICES ASSUME NEW y \in s, y # Max(s) PROVE y \in 1 .. k
    OBVIOUS
  <2>1. y \in 1 .. k + 1 /\ Max(s) \in 1 .. k + 1 /\ Max(s) >= y
    BY <1>4, <1>5
  <2> QED
    BY <2>1
<1> QED
  BY <1>4, <1>5

Raws == [ip : Ips, port : Ports, rtp : BOOLEAN]

\* f is the fold of Polled over the first n datagrams of q.
IsPoll(f, q, n, rtp) ==
    f = [s \in SUBSET (1 .. n) |->
            IF s = {} THEN <<>> ELSE Accept(f[s \ {Max(s)}], q[Max(s)], rtp)]

LEMMA PollExists ==
    ASSUME NEW q, NEW n \in Nat, NEW rtp
    PROVE  \E f : IsPoll(f, q, n, rtp)
<1> DEFINE Turn(f, s) == IF s = {} THEN <<>> ELSE Accept(f[s \ {Max(s)}], q[Max(s)], rtp)
           S == {k \in Nat : \E f : IsPoll(f, q, k, rtp)}
<1>1. 0 \in S
  <2> DEFINE f0 == [s \in SUBSET (1 .. 0) |-> <<>>]
  <2>1. 1 .. 0 = {}
    OBVIOUS
  <2>2. f0 = [s \in SUBSET (1 .. 0) |-> Turn(f0, s)]
    BY <2>1
  <2>3. IsPoll(f0, q, 0, rtp)
    BY <2>2 DEF IsPoll
  <2> QED
    BY <2>3
<1>2. ASSUME NEW k \in Nat, k \in S PROVE k + 1 \in S
  <2>0. PICK f : IsPoll(f, q, k, rtp)
    BY <1>2
  <2>1. f = [s \in SUBSET (1 .. k) |-> Turn(f, s)]
    BY <2>0 DEF IsPoll
  <2> DEFINE g == [s \in SUBSET (1 .. k + 1) |-> Turn(f, s)]
  <2>2. ASSUME NEW t \in SUBSET (1 .. k) PROVE g[t] = f[t]
    <3>1. t \in SUBSET (1 .. k + 1)
      OBVIOUS
    <3>2. g[t] = Turn(f, t)
      BY <3>1
    <3>3. f[t] = Turn(f, t)
      <4> HIDE DEF Turn
      <4> QED
        BY <2>1
    <3> QED
      BY <3>2, <3>3
  <2>3. ASSUME NEW s \in SUBSET (1 .. k + 1) PROVE Turn(f, s) = Turn(g, s)
    <3>1. CASE s = {}
      BY <3>1
    <3>2. CASE s # {}
      <4>1. s \ {Max(s)} \in SUBSET (1 .. k)
        <5>1. k + 1 \in Nat
          OBVIOUS
        <5> QED
          BY <3>2, <5>1, MaxOf
      <4>2. g[s \ {Max(s)}] = f[s \ {Max(s)}]
        <5> HIDE DEF g
        <5> QED
          BY <4>1, <2>2
      <4> HIDE DEF g
      <4> QED
        BY <4>2
    <3> QED
      BY <3>1, <3>2
  <2>4. g = [s \in SUBSET (1 .. k + 1) |-> Turn(g, s)]
    <3>1. g = [s \in SUBSET (1 .. k + 1) |-> Turn(f, s)]
      OBVIOUS
    <3> HIDE DEF g, Turn
    <3> QED
      BY <2>3, <3>1
  <2>5. IsPoll(g, q, k + 1, rtp)
    <3> HIDE DEF g
    <3> QED
      BY <2>4 DEF IsPoll
  <2> QED
    BY <2>5
<1>3. n \in S
  <2> HIDE DEF S
  <2> QED
    BY <1>1, <1>2, Counting
<1> QED
  BY <1>3

\* Whatever is accepted, the list is one of packets.
LEMMA PollTyped ==
    ASSUME NEW q \in Seq(Datagram), NEW rtp \in BOOLEAN, NEW f, IsPoll(f, q, Len(q), rtp)
    PROVE  f[1 .. Len(q)] \in Seq(Raws)
<1> DEFINE n == Len(q)
           S == {k \in Nat : k <= n => \A s \in SUBSET (1 .. k) : f[s] \in Seq(Raws)}
<1>0. n \in Nat /\ \A i \in 1 .. n : q[i] \in Datagram
  OBVIOUS
<1> HIDE DEF n
<1>1. \A s \in SUBSET (1 .. n) :
         f[s] = IF s = {} THEN <<>> ELSE Accept(f[s \ {Max(s)}], q[Max(s)], rtp)
  BY DEF IsPoll, n
<1>2. \A list \in Seq(Raws), d \in Datagram : Accept(list, d, rtp) \in Seq(Raws)
  <2> SUFFICES ASSUME NEW list \in Seq(Raws), NEW d \in Datagram
               PROVE  Accept(list, d, rtp) \in Seq(Raws)
    OBVIOUS
  <2>1. [ip |-> d.ip, port |-> d.port, rtp |-> rtp] \in Raws
    BY DEF Datagram, Raws
  <2>2. Append(list, [ip |-> d.ip, port |-> d.port, rtp |-> rtp]) \in Seq(Raws)
    BY <2>1
  <2> QED
    BY <2>2 DEF Accept
<1>3. {} \in SUBSET (1 .. n) /\ f[{}] \in Seq(Raws)
  <2>1. {} \in SUBSET (1 .. n)
    OBVIOUS
  <2>2. f[{}] = <<>>
    BY <1>1, <2>1
  <2> QED
    BY <2>1, <2>2
<1>4. 0 \in S
  <2>1. 1 .. 0 = {}
    OBVIOUS
  <2> QED
    BY <1>3, <2>1
<1>5. ASSUME NEW k \in Nat, k \in S PROVE k + 1 \in S
  <2> SUFFICES ASSUME k + 1 <= n, NEW s \in SUBSET (1 .. k + 1) PROVE f[s] \in Seq(Raws)
    OBVIOUS
  <2>1. k <= n /\ s \in SUBSET (1 .. n) /\ k + 1 \in Nat
    BY <1>0
  <2>2. CASE s # {}
    <3>1. Max(s) \in 1 .. n /\ s \ {Max(s)} \in SUBSET (1 .. k)
      BY <1>0, <2>1, <2>2, MaxOf
    <3>2. f[s \ {Max(s)}] \in Seq(Raws)
      BY <1>5, <2>1, <3>1
    <3>3. f[s] = Accept(f[s \ {Max(s)}], q[Max(s)], rtp)
      BY <1>1, <2>1, <2>2
    <3> QED
      BY <1>0, <1>2, <3>1, <3>2, <3>3
  <2> QED
    BY <1>3, <2>2
<1>6. n \in S
  <2> HIDE DEF S
  <2> QED
    BY <1>0, <1>4, <1>5, Counting
<1> QED
  BY <1>0, <1>6 DEF n

LEMMA PolledTyped == ASSUME MailInv, NEW s \in Sockets PROVE Polled(s) \in Seq(Raws)
<1> DEFINE q == Read(s)
           rtp == s = "rtp"
           Is(f) == f = [p \in SUBSET (1 .. Len(q)) |->
                            IF p = {} THEN <<>> ELSE Accept(f[p \ {Max(p)}], q[Max(p)], rtp)]
           iter == CHOOSE f : Is(f)
<1>1. q \in Seq(Datagram) /\ Len(q) \in Nat /\ DOMAIN q = 1 .. Len(q)
  <2>1. incoming[s] \in Seq(Datagram) /\ Len(incoming[s]) \in Nat
    BY DEF MailInv
  <2>2. Taken(s) \in 0 .. Len(incoming[s])
    BY TakenGives
  <2>3. Taken(s) # 0 => SubSeq(incoming[s], 1, Taken(s) - 1) \in Seq(Datagram)
    BY <2>1, <2>2
  <2>4. q \in Seq(Datagram)
    BY <2>1, <2>3 DEF Read
  <2> HIDE DEF q
  <2> QED
    BY <2>4
<1>2. ASSUME NEW f PROVE IsPoll(f, q, Len(q), rtp) <=> Is(f)
  BY DEF IsPoll
<1>3. IsPoll(iter, q, Len(q), rtp)
  <2> HIDE DEF Is, q, rtp
  <2>1. \E f : Is(f)
    BY <1>1, <1>2, PollExists
  <2> QED
    BY <1>2, <2>1
<1>4. Polled(s) = iter[1 .. Len(q)]
  BY <1>1 DEF Polled, FoldLeft, MapThenFoldSet
<1>5. rtp \in BOOLEAN
  OBVIOUS
<1> HIDE DEF iter, q, rtp
<1> QED
  BY <1>1, <1>3, <1>4, <1>5, PollTyped


LEMMA NoEntries == \E known \in SUBSET Ips : <<>> \in [known -> PortInfo]
<1>1. {} \in SUBSET Ips /\ <<>> \in [{} -> PortInfo]
  OBVIOUS
<1> QED
  BY <1>1

\* What the mutexes, the wait and the descriptors are.  Who has left its select
\* and saw the pipe finds a byte in it, while the transmitter is there.
WaitTyped ==
    /\ init \in BOOLEAN /\ created \in BOOLEAN /\ waitingfordata \in BOOLEAN
    /\ main \in Threads \cup {NoThread} /\ wait \in Threads \cup {NoThread}
    /\ ready \in [Threads -> SUBSET Kinds]
    /\ pipe \in 0 .. PipeSize
    /\ descriptors \in [Kinds -> 0 .. 1]
    /\ \A t \in Threads : pc[t] # "selected" => ready[t] = {}
    /\ \A t \in Threads : pc[t] = "selected" /\ created /\ "abort" \in ready[t] => pipe > 0

SendsTyped ==
    /\ destinations \subseteq Ips \X Ports
    /\ maxpacksize \in {0, 1}
    /\ out \subseteq [to : Ips \X Ports, rtp : BOOLEAN]
    /\ localIPs \in Seq(Ips)

GroupsTyped == multicastgroups \subseteq Groups /\ member \in [Sockets -> SUBSET Groups]

ListsTyped ==
    /\ receivemode \in Modes
    /\ \E known \in SUBSET Ips : acceptignoreinfo \in [known -> PortInfo]
    /\ asked \cup again \subseteq Ips \X Ports

RawsTyped == MailInv /\ rawpacketlist \in Seq(Raws)

TypesInv == DestroyInv /\ WaitTyped /\ SendsTyped /\ GroupsTyped /\ ListsTyped /\ RawsTyped

LEMMA EmptyPipe == 0 \in 0 .. PipeSize
BY TransmitterAssumption

LEMMA TypesInit == MCInit => TypesInv
<1> SUFFICES ASSUME MCInit PROVE TypesInv
  OBVIOUS
<1>1. WaitTyped
  <2>1. init = FALSE /\ created = FALSE /\ waitingfordata = FALSE /\ main = NoThread /\ wait = NoThread
        /\ pipe = 0 /\ pc = [t \in Threads |-> "idle"]
    BY DEF MCInit, ExtInit, Init
  <2>2. ready = [t \in Threads |-> {}] /\ descriptors = [k \in Kinds |-> 0]
    BY DEF MCInit, ExtInit, Init
  <2>3. ready \in [Threads -> SUBSET Kinds] /\ descriptors \in [Kinds -> 0 .. 1]
    BY <2>2
  <2> QED
    BY <2>1, <2>2, <2>3, EmptyPipe DEF WaitTyped
<1>2. SendsTyped
  BY DEF MCInit, ExtInit, Init, SendsTyped
<1>3. GroupsTyped
  BY DEF MCInit, ExtInit, Init, GroupsTyped
<1>4. ListsTyped
  <2>1. receivemode = "AcceptAll" /\ acceptignoreinfo = <<>> /\ asked = {} /\ again = {}
    BY DEF MCInit, ExtInit, Init
  <2> QED
    BY <2>1, NoEntries DEF ListsTyped, Modes
<1>5. RawsTyped
  BY MailInit DEF MCInit, ExtInit, Init, RawsTyped
<1> QED
  BY <1>1, <1>2, <1>3, <1>4, <1>5, DestroyInit DEF TypesInv

\* What a step leaves alone keeps its type.
LEMMA WaitStays ==
    ASSUME WaitTyped, UNCHANGED <<life, locks, waits>>
    PROVE  WaitTyped'
BY DEF WaitTyped, life, locks, waits

LEMMA SendsStay == ASSUME SendsTyped, UNCHANGED <<sends, localIPs>> PROVE SendsTyped'
BY DEF SendsTyped, sends

LEMMA GroupsStay == ASSUME GroupsTyped, UNCHANGED groups PROVE GroupsTyped'
BY DEF GroupsTyped, groups

LEMMA ListsStay == ASSUME ListsTyped, UNCHANGED lists PROVE ListsTyped'
BY DEF ListsTyped, lists, history

LEMMA RawsStay == ASSUME RawsTyped, UNCHANGED data PROVE RawsTyped'
BY DEF RawsTyped, MailInv, data

\* A byte for the pipe of an idle thread.
LEMMA WriteKeepsTypes ==
    ASSUME WaitTyped, DestroyInv, NEW t \in Threads, Served(t), AbortWaitInternal(t, "idle"),
           UNCHANGED <<life, wait, waitingfordata, ready>>
    PROVE  WaitTyped'
<1>1. pc \in [Threads -> Places] /\ pc[t] = "idle"
  BY DEF DestroyInv, WaitInv, Served, Entered
<1>2. PICK place \in {"idle", "writing"} : pc' = [pc EXCEPT ![t] = place]
  BY DEF AbortWaitInternal, WaitGo
<1>3. /\ pipe \in 0 .. PipeSize /\ pipe' \in 0 .. PipeSize /\ pipe' \in {pipe, pipe + 1}
      /\ main' \in {main, t}
  <2>1. pipe \in 0 .. PipeSize /\ PipeSize \in Nat
    BY TransmitterAssumption DEF WaitTyped
  <2> QED
    BY <2>1 DEF AbortWaitInternal
<1>4. \A u \in Threads : pc'[u] = "selected" <=> pc[u] = "selected"
  BY <1>1, <1>2
<1>5. main' \in Threads \cup {NoThread} /\ UNCHANGED <<init, created, descriptors>>
  BY <1>3 DEF WaitTyped, life
<1>6. pipe > 0 => pipe' > 0
  BY <1>3, TransmitterAssumption
<1> QED
  BY <1>3, <1>4, <1>5, <1>6 DEF WaitTyped

\* WaitForIncomingData and AbortWait.
LEMMA WaitKeepsTypes ==
    ASSUME WaitTyped, DestroyInv, NEW t \in Threads,
           Wait(t) \/ Wait6(t) \/ ExtWait(t)
    PROVE  WaitTyped'
<1>0. UNCHANGED life
  BY WaitFrame
<1>1. pc \in [Threads -> Places] /\ \A u \in Threads : pc[u] \in Inside /\ pc[t] \in Inside => u = t
  BY DEF DestroyInv, WaitInv
<1>a. UNCHANGED <<init, created, descriptors>>
  BY <1>0 DEF life
<1>2. CASE WaitBegin(t)
  <2>1. /\ waitingfordata' = TRUE /\ main' = t /\ pc[t] = "idle" /\ UNCHANGED <<wait, ready, pipe>>
        /\ pc' = [pc EXCEPT ![t] = "waitlock"]
    BY <1>2 DEF WaitBegin, WaitGo, Served, Entered
  <2> QED
    BY <1>1, <1>a, <2>1 DEF WaitTyped
<1>3. CASE WaitLock(t)
  <2>1. /\ wait' = t /\ main' = NoThread /\ UNCHANGED <<waitingfordata, ready, pipe>>
        /\ pc' = [pc EXCEPT ![t] = "select"] /\ pc[t] = "waitlock"
    BY <1>3 DEF WaitLock, WaitGo
  <2> QED
    BY <1>1, <1>a, <2>1 DEF WaitTyped
<1>4. CASE SelectReady(t) \/ SelectTimeout(t)
  <2>1. PICK found \in SUBSET Kinds :
          /\ ready' = [ready EXCEPT ![t] = found]
          /\ "abort" \in found => pipe > 0
          /\ pc' = [pc EXCEPT ![t] = "selected"] /\ pc[t] = "select"
          /\ UNCHANGED <<main, wait, waitingfordata, pipe>>
    <3>1. Readable \in SUBSET Kinds /\ ("abort" \in Readable => pipe > 0)
      BY DEF Readable, Kinds, Sockets
    <3>2. {} \in SUBSET Kinds /\ "abort" \notin {}
      OBVIOUS
    <3>3. CASE SelectReady(t)
      BY <3>1, <3>3 DEF SelectReady, WaitGo, locks
    <3>4. CASE SelectTimeout(t)
      BY <3>2, <3>4 DEF SelectTimeout, WaitGo, locks
    <3> QED
      BY <1>4, <3>3, <3>4
  <2>2. ready' \in [Threads -> SUBSET Kinds]
    BY <2>1 DEF WaitTyped
  <2>3. \A u \in Threads : u # t => pc'[u] = pc[u] /\ ready'[u] = ready[u]
    BY <1>1, <2>1 DEF WaitTyped
  <2>4. pc'[t] = "selected" /\ ready'[t] = found
    BY <1>1, <2>1 DEF WaitTyped
  <2> QED
    BY <1>a, <2>1, <2>2, <2>3, <2>4 DEF WaitTyped
<1>5. CASE SelectFails(t) \/ WaitKilled(t)
  <2>1. PICK l \in {"failed", "killed"} :
          /\ pc' = [pc EXCEPT ![t] = l] /\ pc[t] = "select"
          /\ UNCHANGED <<main, wait, waitingfordata, ready, pipe>>
    BY <1>5 DEF SelectFails, WaitKilled, WaitGo, locks
  <2> QED
    BY <1>1, <1>a, <2>1 DEF WaitTyped
<1>6. CASE WaitFailed(t) \/ WaitUnlock(t)
  <2>1. PICK l \in {"waitunlock", "idle"} :
          /\ pc' = [pc EXCEPT ![t] = l] /\ pc[t] \in {"failed", "waitunlock"}
          /\ UNCHANGED <<main, ready, pipe>>
          /\ waitingfordata' \in {FALSE, waitingfordata} /\ wait' \in {NoThread, wait}
    BY <1>6 DEF WaitFailed, WaitUnlock, WaitGo, locks
  <2> QED
    BY <1>1, <1>a, <2>1 DEF WaitTyped
<1>7. CASE WaitEnds(t) \/ ExtWaitEnds(t)
  <2>1. /\ ready' = [ready EXCEPT ![t] = {}] /\ pc' = [pc EXCEPT ![t] = "waitunlock"]
        /\ pc[t] = "selected" /\ waitingfordata' = FALSE /\ UNCHANGED <<main, wait>>
        /\ pipe' \in {0, pipe} \/ (created /\ "abort" \in ready[t] /\ pipe' = pipe - 1)
    BY <1>7 DEF WaitEnds, ExtWaitEnds, WaitGo, locks
  <2>2. pipe' \in 0 .. PipeSize
    <3>1. pipe \in 0 .. PipeSize /\ PipeSize \in Nat
          /\ (created /\ "abort" \in ready[t] => pipe > 0)
      BY <2>1, TransmitterAssumption DEF WaitTyped
    <3> QED
      BY <2>1, <3>1
  <2>3. \A u \in Threads : pc'[u] # "selected"
    BY <1>1, <2>1 DEF Inside
  <2>4. ready' \in [Threads -> SUBSET Kinds] /\ \A u \in Threads : ready'[u] = {}
    <3>1. \A u \in Threads : u # t => pc[u] # "selected"
      BY <1>1, <2>1 DEF Inside
    <3> QED
      BY <2>1, <3>1 DEF WaitTyped
  <2> QED
    BY <1>a, <2>1, <2>2, <2>3, <2>4 DEF WaitTyped
<1>8. CASE AbortWait(t)
  BY <1>0, <1>8, WriteKeepsTypes DEF AbortWait
<1> QED
  BY <1>2, <1>3, <1>4, <1>5, <1>6, <1>7, <1>8
  DEF Wait, Wait6, ExtWait, WaitBegin6, WaitFailed6, WaitEnds6, AbortWait6, ExtWaitBegin, ExtAbortWait

LEMMA InjectKeepsTypes ==
    ASSUME WaitTyped, RawsTyped, DestroyInv, NEW t \in Threads, ExtReceive(t)
    PROVE  WaitTyped' /\ RawsTyped'
<1>1. CASE ExtGetNextPacket(t)
  <2>1. UNCHANGED <<life, locks, waits, incoming>> /\ rawpacketlist' = Tail(rawpacketlist)
        /\ rawpacketlist # <<>>
    BY <1>1 DEF ExtGetNextPacket, GetNextPacket
  <2>2. rawpacketlist' \in Seq(Raws)
    BY <2>1 DEF RawsTyped
  <2> QED
    BY <2>1, <2>2, WaitStays DEF RawsTyped, MailInv
<1>2. ASSUME NEW d \in Datagram, NEW rtp \in BOOLEAN, Inject(t, d, rtp)
      PROVE  WaitTyped' /\ RawsTyped'
  <2>1. /\ UNCHANGED <<life, wait, waitingfordata, ready, incoming>>
        /\ rawpacketlist' = Append(rawpacketlist, [ip |-> d.ip, port |-> d.port, rtp |-> rtp])
        /\ Served(t) /\ AbortWaitInternal(t, "idle")
    BY <1>2 DEF Inject
  <2>2. [ip |-> d.ip, port |-> d.port, rtp |-> rtp] \in Raws
    BY DEF Datagram, Raws
  <2>3. RawsTyped'
    BY <2>1, <2>2 DEF RawsTyped, MailInv
  <2>4. WaitTyped'
    BY <2>1, WriteKeepsTypes
  <2> QED
    BY <2>3, <2>4
<1> QED
  BY <1>1, <1>2 DEF ExtReceive, InjectRTP, InjectRTCP, InjectRTPorRTCP

\* Datagrams that come in, and Poll.
LEMMA RawsKeepType ==
    ASSUME RawsTyped, NEW t, Network \/ Receive(t) \/ Receive6(t) \/ FakeReceive
    PROVE  RawsTyped'
<1>1. CASE Network
  BY <1>1, MailNetwork DEF Network, Arrive, RawsTyped
<1>2. CASE Poll(t) \/ FakePoll
  <2>1. rawpacketlist' = rawpacketlist \o Polled("rtp") \o Polled("rtcp")
    BY <1>2 DEF Poll, FakePoll, FakePolled
  <2>2. Polled("rtp") \in Seq(Raws) /\ Polled("rtcp") \in Seq(Raws)
    BY PolledTyped DEF RawsTyped, Sockets
  <2>3. rawpacketlist' \in Seq(Raws)
    BY <2>1, <2>2 DEF RawsTyped
  <2>4. MailInv'
    BY <1>2, MailPoll, MailFake DEF RawsTyped, FakeReceive
  <2> QED
    BY <2>3, <2>4 DEF RawsTyped
<1>3. ASSUME NEW u, GetNextPacket(u) PROVE RawsTyped'
  <2>1. UNCHANGED incoming /\ rawpacketlist' = Tail(rawpacketlist) /\ rawpacketlist # <<>>
    BY <1>3 DEF GetNextPacket
  <2> QED
    BY <2>1 DEF RawsTyped, MailInv
<1>4. ASSUME NEW s \in Sockets, NEW d \in Datagram, SetCurrentData(s, d) PROVE RawsTyped'
  BY <1>4, MailFake DEF RawsTyped, FakeReceive, SetCurrentData
<1> QED
  BY <1>1, <1>2, <1>3, <1>4
  DEF Receive, Receive6, Poll6, GetNextPacket6, FakeReceive, FakeGetNextPacket

\* SetEntry gives the list an entry for one host.
LEMMA SetEntryTyped ==
    ASSUME ListsTyped, NEW ip \in Ips, NEW entry \in PortInfo, SetEntry(ip, entry)
    PROVE  \E known \in SUBSET Ips : acceptignoreinfo' \in [known -> PortInfo]
<1>1. PICK known \in SUBSET Ips : acceptignoreinfo \in [known -> PortInfo]
  BY DEF ListsTyped
<1>2. acceptignoreinfo' \in [known \cup {ip} -> PortInfo] /\ known \cup {ip} \in SUBSET Ips
  BY <1>1 DEF SetEntry
<1> QED
  BY <1>2

LEMMA EntryTyped ==
    ASSUME ListsTyped, NEW ip \in Ips, NEW port \in Ports \cup {0},
           AddEntry(ip, port) \/ DeleteEntry(ip, port)
    PROVE  \E known \in SUBSET Ips : acceptignoreinfo' \in [known -> PortInfo]
<1>1. \A all \in BOOLEAN, ports \in SUBSET Ports : [all |-> all, ports |-> ports] \in PortInfo
  BY DEF PortInfo
<1>2. ASSUME ip \in DOMAIN acceptignoreinfo, port # 0
      PROVE  /\ [acceptignoreinfo[ip] EXCEPT !.ports = @ \cup {port}] \in PortInfo
             /\ [acceptignoreinfo[ip] EXCEPT !.ports = @ \ {port}] \in PortInfo
  <2>1. acceptignoreinfo[ip] \in PortInfo
    BY <1>2 DEF ListsTyped
  <2> QED
    BY <1>2, <2>1 DEF PortInfo
<1>3. UNCHANGED acceptignoreinfo \/ \E entry \in PortInfo : SetEntry(ip, entry)
  <2>1. CASE AddEntry(ip, port)
    <3>1. [all |-> port = 0, ports |-> {port} \ {0}] \in PortInfo
      BY <1>1
    <3>2. [all |-> TRUE, ports |-> {}] \in PortInfo
      BY <1>1
    <3> QED
      BY <2>1, <3>1, <3>2, <1>2 DEF AddEntry
  <2>2. CASE DeleteEntry(ip, port)
    <3>1. [all |-> FALSE, ports |-> {}] \in PortInfo
      BY <1>1
    <3> QED
      BY <2>2, <3>1, <1>2 DEF DeleteEntry
  <2> QED
    BY <2>1, <2>2
<1> QED
  BY <1>3, SetEntryTyped DEF ListsTyped

LEMMA ListsKeepType == ASSUME ListsTyped, ListStep PROVE ListsTyped'
<1>1. CASE receivemode' \in Modes /\ acceptignoreinfo' = <<>> /\ Forget
  BY <1>1, NoEntries DEF ListsTyped, Forget
<1>2. ASSUME UNCHANGED receivemode, NEW ip \in Ips, NEW port \in Ports \cup {0},
             \/ AddEntry(ip, port) /\ Ask(ip, port)
             \/ DeleteEntry(ip, port) /\ Recant(ip, port)
      PROVE  ListsTyped'
  <2>1. Named(ip, port) \subseteq Ips \X Ports
    BY DEF Named
  <2>2. asked' \cup again' \subseteq Ips \X Ports
    BY <1>2, <2>1 DEF Ask, Recant, ListsTyped
  <2> QED
    BY <1>2, <2>2, EntryTyped DEF ListsTyped
<1> QED
  BY <1>1, <1>2 DEF ListStep

LEMMA SendsKeepTypes ==
    ASSUME SendsTyped, NEW t, Sends(t) \/ Sends6(t) \/ FakeSends \/ ExtSends(t), UNCHANGED localIPs
    PROVE  SendsTyped'
<1>1. ASSUME NEW u, NEW d \in Ips \X Ports,
             AddDestination(u, d) \/ DeleteDestination(u, d) \/ ClearDestinations(u)
      PROVE  SendsTyped'
  BY <1>1 DEF AddDestination, DeleteDestination, ClearDestinations, SendsTyped
<1>2. ASSUME NEW u, ClearDestinations(u) PROVE SendsTyped'
  BY <1>2 DEF ClearDestinations, SendsTyped
<1>3. ASSUME NEW u, NEW size \in {0, 1}, SetMaximumPacketSize(u, size) PROVE SendsTyped'
  BY <1>3 DEF SetMaximumPacketSize, SendsTyped
<1>4. ASSUME NEW u, NEW size \in {0, 1}, NEW rtp \in BOOLEAN, Send(u, size, rtp) PROVE SendsTyped'
  BY <1>4 DEF Send, SendsTyped
<1>5. ASSUME NEW u, NEW size \in {0, 1}, NEW rtp \in BOOLEAN, ExtSend(u, size, rtp)
      PROVE  SendsTyped'
  <2>1. <<Loopback, CHOOSE p \in Ports : TRUE>> \in Ips \X Ports
    BY TransmitterAssumption, SitesAssumption
  <2> QED
    BY <1>5, <2>1 DEF ExtSend, SendsTyped
<1>6. ASSUME NEW u, GetLocalHostName(u) \/ ExtGetLocalHostName(u) \/ FakeGetLocalHostName
      PROVE  SendsTyped'
  BY <1>6, SendsStay DEF GetLocalHostName, ExtGetLocalHostName, FakeGetLocalHostName
<1>7. CASE Sends(t)
  BY <1>7, <1>1, <1>2, <1>3, <1>4, <1>6 DEF Sends, SendRTPData, SendRTCPData
<1>8. CASE Sends6(t)
  BY <1>8, <1>1, <1>2, <1>3, <1>4, <1>6
  DEF Sends6, AddDestination6, DeleteDestination6, ClearDestinations6, SetMaximumPacketSize6,
      SendRTPData6, SendRTCPData6, GetLocalHostName6, SendRTPData, SendRTCPData
<1>9. CASE FakeSends
  BY <1>9, <1>1, <1>2, <1>3, <1>4, <1>6
  DEF FakeSends, FakeAddDestination, FakeDeleteDestination, FakeClearDestinations,
      FakeSetMaximumPacketSize, FakeSendRTPData, FakeSendRTCPData
<1>10. CASE ExtSends(t)
  BY <1>10, <1>3, <1>5, <1>6
  DEF ExtSends, ExtSendRTPData, ExtSendRTCPData, ExtSetMaximumPacketSize
<1> QED
  BY <1>7, <1>8, <1>9, <1>10

LEMMA GroupsKeepTypes ==
    ASSUME GroupsTyped, NEW t, GroupCalls(t) \/ Groups6(t)
    PROVE  GroupsTyped'
<1>1. ASSUME NEW g \in Groups,
             JoinMulticastGroup(t, g) \/ JoinFails(t, g) \/ LeaveMulticastGroup(t, g)
      PROVE  GroupsTyped'
  <2>1. /\ [s \in Sockets |-> member[s] \cup {g}] \in [Sockets -> SUBSET Groups]
        /\ [s \in Sockets |-> member[s] \ {g}] \in [Sockets -> SUBSET Groups]
    BY DEF GroupsTyped
  <2> QED
    BY <1>1, <2>1 DEF JoinMulticastGroup, JoinFails, UndoJoin, LeaveMulticastGroup, GroupsTyped
<1>2. CASE LeaveAllMulticastGroups(t)
  <2>1. [s \in Sockets |-> member[s] \ multicastgroups] \in [Sockets -> SUBSET Groups]
    BY DEF GroupsTyped
  <2> QED
    BY <1>2, <2>1 DEF LeaveAllMulticastGroups, GroupsTyped
<1> QED
  BY <1>1, <1>2
  DEF GroupCalls, Groups6, JoinMulticastGroup6, LeaveMulticastGroup6, LeaveAllMulticastGroups6

-----------------------------------------------------------------------------
(* Init, Create and Destroy keep the types. *)

\* The list that Create makes of what it is given or finds.
LEMMA LocalIPsTyped == \A found \in CreateLocalIPList \cup GetLocalIPList : found \in Seq(Ips)
<1>1. \A found \in GetLocalIPList : found \in Seq(Ips)
  <2>1. <<>> \in Seq(Ips) /\ \A ip \in Ips : <<ip>> \in Seq(Ips)
    OBVIOUS
  <2> QED
    BY <2>1 DEF GetLocalIPList
<1>2. \A found \in Seq(Ips) : AddLoopbackAddress(found) \in Seq(Ips)
  BY TransmitterAssumption DEF AddLoopbackAddress
<1> QED
  BY <1>1, <1>2 DEF CreateLocalIPList

LEMMA LocalIPListTyped ==
    ASSUME LocalIPList \/ LocalIPList6 \/ FakeLocalIPList
    PROVE  localIPs' \in Seq(Ips)
BY LocalIPsTyped DEF LocalIPList, LocalIPList6, FakeLocalIPList, CreateLocalIPList,
                     GetLocalIPList6, FakeGetLocalIPList

LEMMA LifeKeepsTypes ==
    ASSUME TypesInv, UNCHANGED kind,
           \/ kind # "fake" /\ (Life \/ Life6)
           \/ kind = "external" /\ ExtLife
           \/ kind = "fake" /\ FakeLife
    PROVE  WaitTyped' /\ SendsTyped' /\ GroupsTyped' /\ ListsTyped' /\ RawsTyped'
<1> USE TransmitterAssumption
<1> DEFINE Goal == WaitTyped' /\ SendsTyped' /\ GroupsTyped' /\ ListsTyped' /\ RawsTyped'
<1>0. WaitTyped /\ SendsTyped /\ GroupsTyped /\ ListsTyped /\ RawsTyped /\ DestroyInv
  BY DEF TypesInv
<1>b. pc \in [Threads -> Places] /\ \A t \in Threads : ready[t] = {} \/ pc[t] = "selected"
  BY <1>0 DEF WaitTyped, DestroyInv, WaitInv
<1>c. /\ [k \in Kinds |-> 0] \in [Kinds -> 0 .. 1] /\ [k \in Kinds |-> 1] \in [Kinds -> 0 .. 1]
      /\ [k \in Kinds |-> IF k = "abort" THEN 1 ELSE 0] \in [Kinds -> 0 .. 1]
  OBVIOUS
<1>d. <<>> \in Seq(Raws) /\ <<>> \in Seq(Ips)
  OBVIOUS
<1> HIDE DEF Goal
<1>1. CASE InitCall
  <2>1. init' = TRUE /\ UNCHANGED <<created, descriptors, locks, waits, data, sends, groups, lists, names>>
    BY <1>1 DEF InitCall
  <2>2. WaitTyped'
    BY <1>0, <2>1 DEF WaitTyped, locks, waits
  <2> QED
    BY <1>0, <2>1, <2>2, SendsStay, GroupsStay, ListsStay, RawsStay DEF Goal, names
<1>2. CASE CreateFails
  <2>1. /\ UNCHANGED <<init, created, locks, waits, data, sends, groups, lists>>
        /\ LocalIPList \/ UNCHANGED localIPs
    BY <1>2 DEF CreateFails
  <2>2. descriptors' \in [Kinds -> 0 .. 1]
    <3>1. \A k \in Kinds : \A point : k \notin FailurePoints[point] \ ClosedAt(point)
      BY DEF ClosedAt
    <3>2. descriptors' = [k \in Kinds |-> descriptors[k]]
      BY <1>2, <3>1 DEF CreateFails
    <3> QED
      BY <1>0, <3>2 DEF WaitTyped
  <2>3. WaitTyped'
    BY <1>0, <2>1, <2>2 DEF WaitTyped, locks, waits
  <2>4. SendsTyped'
    BY <1>0, <2>1, LocalIPListTyped DEF SendsTyped, sends
  <2> QED
    BY <1>0, <2>1, <2>3, <2>4, GroupsStay, ListsStay, RawsStay DEF Goal
<1>3. ASSUME NEW size \in {0, 1}, CreateDone(size) \/ ExtCreate(size) PROVE Goal
  <2>1. /\ pc[Control] = "idle" /\ ~created /\ created' = TRUE
        /\ pipe' = 0 /\ waitingfordata' = FALSE /\ maxpacksize' = size
        /\ UNCHANGED <<init, locks, pc, ready, data, destinations, out, groups>>
        /\ descriptors' \in [Kinds -> 0 .. 1]
    BY <1>3, <1>c DEF CreateDone, ExtCreate, Entered
  <2>2. LocalIPList \/ UNCHANGED localIPs
    BY <1>3 DEF CreateDone, ExtCreate
  <2>3. UNCHANGED <<acceptignoreinfo, asked, again>> /\ receivemode' \in {"AcceptAll", receivemode}
    BY <1>3 DEF CreateDone, ExtCreate, lists, history
  <2>4. \A t \in Threads : pc[t] # "selected"
    BY <1>0, <2>1 DEF DestroyInv, DestroyWaits
  <2>5. WaitTyped'
    BY <1>0, <2>1, <2>4, EmptyPipe DEF WaitTyped, locks
  <2>6. SendsTyped'
    BY <1>0, <2>1, <2>2, LocalIPListTyped DEF SendsTyped
  <2>7. ListsTyped'
    BY <1>0, <2>3 DEF ListsTyped, Modes
  <2> QED
    BY <1>0, <2>1, <2>5, <2>6, <2>7, GroupsStay, RawsStay DEF Goal
<1>4. ASSUME NEW size \in {0, 1}, kind = "fake", FakeCreate(size) PROVE Goal
  <2>1. /\ created' = TRUE /\ waitingfordata' = FALSE /\ maxpacksize' = size
        /\ receivemode' = "AcceptAll" /\ FakeLocalIPList
        /\ UNCHANGED <<init, descriptors, locks, pc, ready, pipe, data, destinations, out, groups,
                       acceptignoreinfo, asked, again>>
    BY <1>4 DEF FakeCreate, history
  <2>2. \A t \in Threads : pc[t] = "idle"
    BY <1>0, <1>4 DEF DestroyInv, WaitInv
  <2>3. WaitTyped'
    BY <1>0, <2>1, <2>2 DEF WaitTyped, locks
  <2>4. SendsTyped'
    BY <1>0, <2>1, LocalIPListTyped DEF SendsTyped
  <2>5. ListsTyped'
    BY <1>0, <2>1 DEF ListsTyped, Modes
  <2> QED
    BY <1>0, <2>1, <2>3, <2>4, <2>5, GroupsStay, RawsStay DEF Goal
<1>5. CASE Destroy \/ ExtDestroy
  <2>1. /\ pc[Control] = "idle" /\ created' = FALSE
        /\ descriptors' = [k \in Kinds |-> IF k = "abort" THEN DestroyAbortDescriptors ELSE 0]
        /\ UNCHANGED <<init, wait, waitingfordata, ready>>
        /\ \/ AbortWaitInternal(Control, "destroying")
           \/ UNCHANGED <<main, pipe, pc>>
    BY <1>5 DEF Destroy, ExtDestroy, Served, Entered
  <2>2. /\ main' \in {main, Control} /\ pipe' \in 0 .. PipeSize
        /\ \A t \in Threads : pc'[t] # "selected" => ready'[t] = {}
    <3>1. pipe \in 0 .. PipeSize /\ PipeSize \in Nat
      BY <1>0 DEF WaitTyped
    <3>2. CASE AbortWaitInternal(Control, "destroying")
      <4>1. PICK place \in Places : pc' = [pc EXCEPT ![Control] = place]
        BY <3>2 DEF AbortWaitInternal, WaitGo, Places
      <4> QED
        BY <1>b, <2>1, <3>1, <3>2, <4>1 DEF AbortWaitInternal
    <3>3. CASE UNCHANGED <<main, pipe, pc>>
      BY <1>b, <2>1, <3>1, <3>3
    <3> QED
      BY <2>1, <3>2, <3>3
  <2>3. descriptors' \in [Kinds -> 0 .. 1]
    <3>1. descriptors["abort"] \in 0 .. 1
      BY <1>0 DEF WaitTyped, Kinds
    <3>2. DestroyAbortDescriptors \in 0 .. 1
      BY <3>1 DEF DestroyAbortDescriptors
    <3> QED
      BY <2>1, <3>2
  <2>4. WaitTyped'
    BY <1>0, <2>1, <2>2, <2>3 DEF WaitTyped
  <2>5. rawpacketlist' = <<>>
    BY <1>5 DEF Destroy, ExtDestroy
  <2>6. CASE Destroy
    <3>1. SendsTyped'
      BY <1>0, <1>d, <2>6 DEF Destroy, SendsTyped
    <3>2. GroupsTyped'
      BY <2>6 DEF Destroy, GroupsTyped
    <3>3. ListsTyped'
      BY <1>0, <2>6, NoEntries DEF Destroy, ListsTyped, Forget
    <3>4. RawsTyped'
      BY <1>d, <2>5, <2>6 DEF Destroy, RawsTyped, MailInv
    <3> QED
      BY <2>4, <3>1, <3>2, <3>3, <3>4 DEF Goal
  <2>7. CASE ExtDestroy
    <3>1. UNCHANGED <<sends, groups, lists, localIPs, incoming>>
      BY <2>7 DEF ExtDestroy
    <3>2. RawsTyped'
      BY <1>0, <1>d, <2>5, <3>1 DEF RawsTyped, MailInv
    <3> QED
      BY <1>0, <2>4, <3>1, <3>2, SendsStay, GroupsStay, ListsStay DEF Goal
  <2> QED
    BY <1>5, <2>6, <2>7
<1>6. CASE DestroyEnds
  <2>1. /\ pc[Control] = "destroying" /\ pc' = [pc EXCEPT ![Control] = "idle"] /\ main' = NoThread
        /\ UNCHANGED <<life, wait, waitingfordata, ready, pipe, data, sends, groups, lists, names>>
    BY <1>6 DEF DestroyEnds
  <2>2. \A t \in Threads : pc'[t] = "selected" <=> pc[t] = "selected"
    BY <1>b, <2>1
  <2>3. WaitTyped'
    BY <1>0, <2>1, <2>2 DEF WaitTyped, life
  <2> QED
    BY <1>0, <2>1, <2>3, SendsStay, GroupsStay, ListsStay, RawsStay DEF Goal, names
<1>7. CASE kind = "fake" /\ FakeDestroy
  <2>1. /\ created' = FALSE /\ destinations' = {} /\ rawpacketlist' = <<>>
        /\ incoming' = [s \in Sockets |-> <<>>] /\ acceptignoreinfo' = <<>> /\ localIPs' = <<>>
        /\ asked' = {} /\ again' = {}
        /\ UNCHANGED <<init, descriptors, locks, waits, maxpacksize, out, receivemode, groups>>
    BY <1>7 DEF FakeDestroy, Forget
  <2>2. WaitTyped'
    BY <1>0, <2>1 DEF WaitTyped, locks, waits
  <2>3. SendsTyped'
    BY <1>0, <1>d, <2>1 DEF SendsTyped
  <2>4. ListsTyped'
    BY <1>0, <2>1, NoEntries DEF ListsTyped
  <2>5. RawsTyped'
    BY <1>d, <2>1 DEF RawsTyped, MailInv
  <2> QED
    BY <1>0, <2>1, <2>2, <2>3, <2>4, <2>5, GroupsStay DEF Goal
<1>8. CASE Life \/ Life6 \/ ExtLife
  BY <1>8, <1>1, <1>2, <1>3, <1>5, <1>6
  DEF Goal, Life, Life6, ExtLife, InitCall6, CreateFails6, CreateDone6, Destroy6, DestroyEnds6
<1>9. CASE kind = "fake" /\ FakeLife
  BY <1>9, <1>1, <1>4, <1>7 DEF Goal, FakeLife, FakeInitCall
<1> QED
  BY <1>8, <1>9 DEF Goal

LEMMA TypesNext == TypesInv /\ [Next]_mcVars => TypesInv'
<1> DEFINE Goal == WaitTyped' /\ SendsTyped' /\ GroupsTyped' /\ ListsTyped' /\ RawsTyped'
<1> SUFFICES ASSUME TypesInv, [Next]_mcVars PROVE Goal
  BY DestroyNext DEF TypesInv
<1>0. WaitTyped /\ SendsTyped /\ GroupsTyped /\ ListsTyped /\ RawsTyped /\ DestroyInv
  BY DEF TypesInv
<1>1. CASE Network
  <2>1. UNCHANGED <<life, locks, waits, sends, groups, lists, names>>
    BY <1>1, ReceiveFrame DEF Network
  <2>2. RawsTyped'
    BY <1>0, <1>1, RawsKeepType
  <2> QED
    BY <1>0, <2>1, <2>2, WaitStays, SendsStay, GroupsStay, ListsStay DEF names
<1>2. ASSUME NEW t \in Threads, UNCHANGED kind,
             \/ kind = "v4" /\ V4(t)
             \/ kind = "v6" /\ V6(t)
             \/ kind = "fake" /\ Fake
             \/ kind = "external" /\ External(t)
      PROVE  Goal
  <2> HIDE DEF Goal
  <2>1. CASE Wait(t) \/ Wait6(t) \/ ExtWait(t)
    <3>1. WaitTyped'
      BY <1>0, <2>1, WaitKeepsTypes
    <3>2. UNCHANGED <<data, sends, groups, lists, names>>
      BY <2>1, WaitFrame
    <3> QED
      BY <1>0, <3>1, <3>2, SendsStay, GroupsStay, ListsStay, RawsStay DEF names, Goal
  <2>2. CASE (Receive(t) \/ Receive6(t) \/ FakeReceive)
    <3>1. UNCHANGED <<life, locks, waits, sends, groups, lists, names>>
      BY <2>2, ReceiveFrame
    <3>2. RawsTyped'
      BY <1>0, <2>2, RawsKeepType
    <3> QED
      BY <1>0, <2>2, <3>1, <3>2, WaitStays, SendsStay, GroupsStay, ListsStay DEF names, Goal
  <2>3. CASE Filter(t) \/ Filter6(t) \/ FakeFilter \/ Lists(t) \/ Lists(Control)
    <3>1. ListStep /\ UNCHANGED <<life, locks, waits, data, sends, groups, names>>
      BY <2>3, FilterFrame
    <3>2. ListsTyped'
      BY <1>0, <3>1, ListsKeepType
    <3> QED
      BY <1>0, <2>3, <3>1, <3>2, WaitStays, SendsStay, GroupsStay, RawsStay DEF names, Goal
  <2>4. CASE Sends(t) \/ Sends6(t) \/ FakeSends \/ ExtSends(t)
    <3>1. UNCHANGED <<life, locks, waits, data, groups, lists, localIPs>>
      BY <2>4, SendsFrame
    <3>2. SendsTyped'
      BY <1>0, <2>4, <3>1, SendsKeepTypes
    <3> QED
      BY <1>0, <3>1, <3>2, WaitStays, GroupsStay, ListsStay, RawsStay DEF Goal
  <2>5. CASE (GroupCalls(t) \/ Groups6(t))
    <3>1. UNCHANGED <<life, locks, waits, data, sends, lists, names>>
      BY <2>5, GroupsFrame
    <3>2. GroupsTyped'
      BY <1>0, <2>5, GroupsKeepTypes
    <3> QED
      BY <1>0, <2>5, <3>1, <3>2, WaitStays, SendsStay, ListsStay, RawsStay DEF names, Goal
  <2>6. CASE ExtReceive(t)
    <3>1. UNCHANGED <<sends, groups, lists, names>>
      BY <2>6, InjectFrame
    <3>2. WaitTyped' /\ RawsTyped'
      BY <1>0, <2>6, InjectKeepsTypes
    <3> QED
      BY <1>0, <3>1, <3>2, SendsStay, GroupsStay, ListsStay DEF names, Goal
  <2>7. CASE \/ kind # "fake" /\ (Life \/ Life6)
             \/ kind = "external" /\ ExtLife
             \/ kind = "fake" /\ FakeLife
    BY <1>2, <2>7, LifeKeepsTypes DEF Goal
  <2>8. CASE kind = "v4" /\ V4(t)
    BY <2>1, <2>2, <2>3, <2>4, <2>5, <2>7, <2>8 DEF V4
  <2>9. CASE kind = "v6" /\ V6(t)
    BY <2>1, <2>2, <2>3, <2>4, <2>5, <2>7, <2>9 DEF V6
  <2>10. CASE kind = "fake" /\ Fake
    BY <2>2, <2>3, <2>4, <2>7, <2>10 DEF Fake
  <2>11. CASE kind = "external" /\ External(t)
    BY <2>1, <2>4, <2>6, <2>7, <2>11 DEF External
  <2> QED
    BY <1>2, <2>8, <2>9, <2>10, <2>11
<1>3. CASE UNCHANGED mcVars
  <2>1. UNCHANGED <<life, locks, waits, data, sends, groups, lists, names>>
    BY <1>3 DEF mcVars, vars
  <2> QED
    BY <1>0, <2>1, WaitStays, SendsStay, GroupsStay, ListsStay, RawsStay DEF names
<1> QED
  BY <1>1, <1>2, <1>3, TransmitterAssumption DEF Next, NextV4, NextV6, NextFake, NextExternal

\* Whatever is called by whomever: the descriptors are open once at most, no
\* byte is read of the abort pipe that was not written, what PollSocket puts in
\* the list is a list of packets, destinations, memberships, entries and local
\* addresses are ones that were named.
THEOREM TypesCorrect == Spec => []TypeOK
<1>1. TypesInv => TypeOK
  <2> SUFFICES ASSUME TypesInv PROVE TypeOK
    OBVIOUS
  <2>1. pc \in [Threads -> {"idle", "waitlock", "select", "failed", "selected", "waitunlock",
                            "killed", "destroying", "writing"}]
    BY DEF TypesInv, DestroyInv, WaitInv, Places
  <2>2. /\ incoming \in [Sockets -> Seq(Datagram)]
        /\ rawpacketlist \in Seq([ip : Ips, port : Ports, rtp : BOOLEAN])
    BY DEF TypesInv, RawsTyped, MailInv, Raws
  <2> QED
    BY <2>1, <2>2 DEF TypesInv, WaitTyped, SendsTyped, GroupsTyped, ListsTyped, TypeOK, TypeOK
<1> QED
  BY <1>1, TypesInit, TypesNext, PTL DEF Spec
=============================================================================
