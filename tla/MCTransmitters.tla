--------------------------- MODULE MCTransmitters ---------------------------
(***************************************************************************)
(* The four transmitters, one at a time.  kind says which of them runs and *)
(* view which of its methods are called besides Init, Create and Destroy:  *)
(* they share nothing but mainmutex and created, and together they would   *)
(* only multiply each other's states.                                      *)
(***************************************************************************)
EXTENDS UdpTransmitter6, FakeTransmitter, ExternalTransmitter

VARIABLES kind, view

\* The lists of view "receive" name a port and a host other than this one.
ASSUME SitesAssumption == Ports # {} /\ Ips # {Loopback}

\* i1 has an alias with a dot and one that it shares with the other host.
MCNames == [ip \in Ips |-> IF ip = Loopback THEN << <<1, FALSE>>, <<2, TRUE>> >>
                           ELSE << <<3, TRUE>>, <<1, FALSE>> >>]

Views == {"wait", "receive", "filter", "send", "group"}

mcVars == <<vars, kind, view>>

\* The datagrams of view "receive": one that a list can name, one that it
\* cannot, and an empty one.
Other == CHOOSE ip \in Ips : ip # Loopback
One == CHOOSE p \in Ports : TRUE
Mail == {[ip |-> Other, port |-> One, empty |-> FALSE],
         [ip |-> Loopback, port |-> One, empty |-> FALSE],
         [ip |-> Loopback, port |-> One, empty |-> TRUE]}
Lists(t) ==
    \/ \E m \in Modes : SetReceiveMode(t, m)
    \/ AddToAcceptList(t, Other, One) \/ AddToIgnoreList(t, Other, 0)

MCInit ==
    /\ ExtInit
    /\ kind \in {"v4", "v6", "fake", "external"}
    /\ view \in Views

V4(t) ==
    \/ Life
    \/ view = "wait" /\ Wait(t)
    \/ view = "receive" /\ (Receive(t) \/ Lists(t))
    \/ view = "filter" /\ Filter(t)
    \/ view = "send" /\ Sends(t)
    \/ view = "group" /\ GroupCalls(t)

V6(t) ==
    \/ Life6
    \/ view = "wait" /\ Wait6(t)
    \/ view = "receive" /\ (Receive6(t) \/ Lists(t))
    \/ view = "filter" /\ Filter6(t)
    \/ view = "send" /\ Sends6(t)
    \/ view = "group" /\ Groups6(t)

Fake ==
    \/ FakeLife
    \/ view = "receive" /\ (FakeReceive \/ Lists(Control))
    \/ view = "filter" /\ FakeFilter
    \/ view = "send" /\ FakeSends

External(t) ==
    \/ ExtLife
    \/ view = "wait" /\ (ExtWait(t) \/ ExtReceive(t))
    \/ view = "send" /\ ExtSends(t)

\* The lists are all open in view "wait", where any datagram will do.
Network == /\ kind \in {"v4", "v6"}
           /\ \/ view = "receive" /\ \E d \in Mail : Arrive("rtp", d)
              \/ view \in {"wait", "receive"} /\ Arrive("rtcp", CHOOSE d \in Mail : ~d.empty)
           /\ UNCHANGED <<kind, view>>
NextV4 == \E t \in Threads : kind = "v4" /\ V4(t) /\ UNCHANGED <<kind, view>>
NextV6 == \E t \in Threads : kind = "v6" /\ V6(t) /\ UNCHANGED <<kind, view>>
NextFake == kind = "fake" /\ Fake /\ UNCHANGED <<kind, view>>
NextExternal == \E t \in Threads : kind = "external" /\ External(t) /\ UNCHANGED <<kind, view>>

Next == Network \/ NextV4 \/ NextV6 \/ NextFake \/ NextExternal

Spec == MCInit /\ [][Next]_mcVars

\* A thread that waits for a mutex that is free again and again gets it, select
\* returns, and a thread that runs goes on.  A killed thread does not.
Progress(t) ==
    \/ WaitLock(t) \/ SelectReady(t) \/ SelectTimeout(t) \/ WaitFailed(t)
    \/ IF kind = "external" THEN ExtWaitEnds(t) ELSE WaitEnds(t)
    \/ WaitUnlock(t)

FairSpec ==
    /\ Spec
    /\ \A t \in Threads : SF_mcVars(Progress(t) /\ UNCHANGED <<kind, view>>)
    /\ SF_mcVars(DestroyEnds /\ UNCHANGED <<kind, view>>)
-----------------------------------------------------------------------------
(* Properties *)

\* The kernel and the transmitter agree.  Create leaves everything open or, when
\* it fails, nothing, and Destroy closes what is open, the abort pipe as soon as
\* its byte is written; the table of groups and the memberships of the two
\* sockets name the same groups, also after a join of which only the first half
\* succeeded.
KernelMatches ==
    /\ kind \in {"v4", "v6"} =>
          descriptors = [k \in Kinds |->
              IF created \/ (k = "abort" /\ pc[Control] = "writing") THEN 1 ELSE 0]
    /\ \A s \in Sockets : member[s] = multicastgroups

\* Once Destroy has returned no thread of WaitForIncomingData looks at the
\* transmitter any more, at its descriptors, its pipe or waitingfordata: all
\* that one may still have to do is unlock waitmutex.
DestroyWaits ==
    created \/ pc[Control] \in {"destroying", "writing"}
       \/ \A t \in Threads : pc[t] \in {"idle", "waitunlock", "killed"}

\* Destroy comes back once it has written its byte: the thread that waits is
\* woken and gives waitmutex up.  Only a thread killed in select keeps it.  A
\* Destroy whose byte does not fit into the pipe stays in its write.
DestroyReturns ==
    pc[Control] = "destroying"
       ~> (pc[Control] = "idle" \/ \E t \in Threads : pc[t] = "killed")

\* The mode and the entries with their exceptions come to what the calls on the
\* lists add up to, one port or every port of a host at a time: nothing is
\* selected that was not asked for, and everything that was but for a port added
\* by name to an entry for all ports that leaves it out.  That one comes back
\* when all ports are added.
FilterAgrees == Selected = asked \ again

-----------------------------------------------------------------------------
(* What the headers and the comments say and the code does not do *)

\* rtptransmitter.h: WaitForIncomingData waits at most a time delay.
WaitReturns == \A t \in Threads : pc[t] = "select" ~> pc[t] \in {"idle", "killed"}

\* rtpudpv4transmitter.cpp: Destroy makes sure that WaitForIncomingData ended.
WaitHasEnded ==
    created \/ pc[Control] \in {"destroying", "writing"}
       \/ \A t \in Threads : pc[t] \in {"idle", "killed"}

\* rtptransmitter.h: AddToIgnoreList and AddToAcceptList add the address.
AddsAddr == asked \subseteq Selected

\* rtptransmitter.h: Poll checks for incoming data and stores it.  What it leaves
\* in the sockets has no data.
PollStores ==
    [][\A t \in Threads : Poll(t) =>
          \A s \in Sockets : \A i \in DOMAIN incoming'[s] : incoming'[s][i].empty]_mcVars
=============================================================================
