----------------------------- MODULE MCSources -----------------------------
(***************************************************************************)
(* The other participants of a session, one view at a time, the rest        *)
(* standing still: three of the source table (one remote host and every     *)
(* kind of packet, several addresses and just enough kinds to collide,      *)
(* packets for a reader that walks the table), the numbers of one source,   *)
(* the hash table they are kept in, the RTCP timer, and JThread.            *)
(***************************************************************************)
EXTENDS SourceTable, SourceStats, KeyHashTable, RtcpScheduler, ThreadStart

\* Kinds and Walks name two addresses.
ASSUME AddressesAssumption == {1, 3} \subseteq Addresses

VARIABLE view
mcVars == <<sourceVars, statsVars, keyVars, schedVars, threadVars, view>>

MCBucket == [k \in Keys |-> k % 2]

\* Addresses 1 and 2 are ports of one host.
MCHostOf == <<1, 1, 2>>

Item(k, s, v) == [kind |-> k, ssrc |-> s, value |-> v]
Items(s) ==
    {Item(k, s, NoName) : k \in {"sr", "rr", "priv", "name", "note", "bye"}}
        \cup {Item("cname", s, c) : c \in Cnames}

\* An RTP packet whose number matters only on probation and whose contents
\* only where a packet waits.
Rtp(s) ==
    LET r == IF s \in Sources THEN table.src[s] ELSE NewSource
    IN  [ssrc : {s}, next : IF r.probation > 0 /\ ~r.validated THEN BOOLEAN ELSE {TRUE},
         dup : IF r.packets > 0 THEN BOOLEAN ELSE {FALSE},
         csrcs : {<<>>} \cup {<<c>> : c \in Ssrcs} ]

Remote == Ssrcs \ {table.owndata}
First == CHOOSE s \in Ssrcs : TRUE
Mixed == CHOOSE s \in Ssrcs : s # First
MCInit ==
    /\ SourceInit /\ table.owndata = First
    /\ StatsInit /\ KeyHashInit /\ SchedulerInit /\ ThreadInit
    /\ view \in {"kinds", "addresses", "walk", "stats", "hash", "timer", "thread"}

Kinds ==
    \/ \E s \in Remote : \E p \in Rtp(s) : RtpArrives(p, 1)
    \/ \E s \in Remote : \E i \in Items(s) : RtcpArrives(<<i>>, 1)
    \/ \E s \in Remote : \E i \in Items(s) : RtcpArrives(<<i, Item("bye", s, NoName)>>, 1)
    \/ \E s \in Remote : \E i \in Items(s) : RtcpFails(<<i>>, 1)
    \/ \E s \in Remote, k \in Stamps : Ages(s, k)
    \/ TimeoutsDue \/ OneTimeout

Addrs ==
    \/ \E s \in Ssrcs, a \in Senders : \E p \in Rtp(s) :
         p.next /\ ~p.dup /\ p.csrcs \in {<<>>, <<Mixed>>} /\ RtpArrives(p, a)
    \/ \E s \in Ssrcs, a \in Senders :
         RtcpArrives(<<Item("rr", s, NoName)>>, a) \/ RtcpFails(<<Item("rr", s, NoName)>>, a)
    \/ \E s \in Ssrcs, a \in Senders, c \in Cnames : RtcpArrives(<<Item("cname", s, c)>>, a)
    \/ \E s \in Remote : Ages(s, "msg")
    \/ \E a \in Addresses : AddressAges(a)
    \/ TimeoutsDue \/ Destroy

Walks ==
    \/ \E s \in Remote : \E p \in Rtp(s) : p.csrcs = <<>> /\ RtpArrives(p, 1)
    \/ \E s \in Ssrcs : RtcpArrives(<<Item("rr", s, NoName)>>, 3)
    \/ \E s \in Sources : Ages(s, "rtp") \/ (s \in Remote /\ Ages(s, "msg"))
    \/ TimeoutsDue \/ SendPacket \/ Goto \/ Step

SourcesNext ==
    /\ \/ view = "kinds" /\ Kinds
       \/ view = "addresses" /\ Addrs
       \/ view = "walk" /\ Walks
    /\ UNCHANGED <<statsVars, keyVars, schedVars, threadVars, view>>
NextStats ==
    view = "stats" /\ StatsNext /\ UNCHANGED <<sourceVars, keyVars, schedVars, threadVars, view>>
NextHash ==
    view = "hash" /\ KeyHashNext /\ UNCHANGED <<sourceVars, statsVars, schedVars, threadVars, view>>
NextTimer ==
    view = "timer" /\ SchedulerNext /\ UNCHANGED <<sourceVars, statsVars, keyVars, threadVars, view>>
NextThread ==
    view = "thread" /\ ThreadNext /\ UNCHANGED <<sourceVars, statsVars, keyVars, schedVars, view>>

MembersNext == SourcesNext \/ NextStats \/ NextHash \/ NextTimer \/ NextThread

\* Time passes and the poll thread asks again and again; for the threads see
\* ThreadFairness.  The rest needs no fairness.
MembersSpec ==
    /\ MCInit /\ [][MembersNext]_mcVars
    /\ WF_schedVars(view = "timer" /\ IsTime) /\ WF_schedVars(view = "timer" /\ Tick)
    /\ ThreadFairness

\* The variables of every part have their types.
MembersTypeOK ==
    SourceTypeOK /\ StatsTypeOK /\ HashTypeOK /\ SchedulerTypeOK /\ ThreadTypeOK
=============================================================================
