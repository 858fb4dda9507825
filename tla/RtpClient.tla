------------------------------ MODULE RtpClient -----------------------------
(***************************************************************************)
(* What a session promises, to any client and to an orderly one: a client  *)
(* that creates and leaves the session only while no other thread is in a  *)
(* call or reads data, as rtpsession.h asks for with "some kind of         *)
(* locking".  Only which calls begin is restricted.                        *)
(***************************************************************************)
EXTENDS RtpSession

Alone == \A a \in Apps \ {Control} : app[a] = Idle

OrderlyNext ==
    /\ ~crashed
    /\ \/ Alone /\ CreateBegin
       \/ \E op \in Leaves : Alone /\ LeaveBegin(op)
       \/ \E a \in Apps :
             /\ app[Control].pc \notin ControlLabels
             /\ SendBegin(a) \/ AccessBegin(a)
       \/ Step

OrderlySpec == Init /\ [][OrderlyNext]_vars

-----------------------------------------------------------------------------
\* The threads that are at work on the source table: a poll thread in
\* ProcessPolledData, an application thread that reads it, Control in the Clear
\* of Destroy.
OnTable ==
    {p \in Polls : poll[p].pc \in {"process", "renew", "forget"}}
        \cup {a \in Apps : app[a].pc = "access" /\ created}
        \cup {a \in {Control} : app[a].pc = "clear"}

\* Never are two threads at work on the source table, the Clear of Destroy,
\* which takes no lock, included.
TableGuarded == \A s, t \in OnTable : s = t

\* A live transmitter and a live poll thread object: nothing is used after
\* Destroy has deleted it.
NothingDeletedIsUsed == ~UsesDeleted

\* A session that was left leaves nothing behind: no lock is held, no poll
\* thread runs, and no BYE waits for the next session to send it.
NothingLeftBehind ==
    ~created /\ app[Control] = Idle =>
        /\ \A p \in Polls : poll[p] = NoPoll
        /\ Alone => ~Locked("sources") /\ ~Locked("sched")
        /\ byepackets = <<>>

\* rtpsession.cpp:1411 (a comment): "Only send BYE packet if we've actually sent
\* data using this SSRC".
ByesForUsedSsrcs == \A i \in DOMAIN byepackets : byepackets[i] \in used

\* rtpsession.h:115: BYEDestroy "Sends a BYE packet and leaves the session"; the
\* one rtp_*_destory calls finds a session to leave.
DestoryFindsSession == app[Control].pc = "byedestroy" => created

-----------------------------------------------------------------------------
(***************************************************************************)
(* Fairness.  The thread in a create or a leave and the poll threads run.  *)
(* A leave waits for a poll thread that has ended or finds a lock taken    *)
(* time and again: then the 5 seconds of Stop run out (LeaveKill).         *)
(***************************************************************************)
StopFairness ==
    /\ SF_vars(~crashed /\ ControlStep)
    /\ \A p \in Polls : WF_vars(~crashed /\ PollStep(p))

(***************************************************************************)
(* More for the rest: a call that has begun goes on, AccessEnd included    *)
(* (callbacks return); a lock that is free time and again is got; and RTCP *)
(* falls due in the end, since the scheduler's times are finite and every  *)
(* loop of the poll thread asks it.  No call is assumed to begin.          *)
(***************************************************************************)
Fairness ==
    /\ SF_vars(~crashed /\ ControlStep)
    /\ \A a \in Apps : SF_vars(~crashed /\ UserStep(a))
    /\ \A p \in Polls : /\ SF_vars(~crashed /\ PollStep(p))
                        /\ SF_vars(~crashed /\ (ProcessReport(p) \/ ProcessBye(p)))

FairSpec == Spec /\ StopFairness
FairOrderlySpec == OrderlySpec /\ Fairness

\* Destroy and BYEDestroy return, whoever holds the locks, unless the process
\* died: the wait for the poll thread and the wait for the BYEs are both bounded.
LeaveReturns ==
    app[Control].op # "none" ~> app[Control] = Idle \/ crashed

\* A BYE that waits goes out, or the session is left or its poll thread has given
\* up.
ByeGoesOut ==
    \A s \in Ssrcs :
        (\E i \in DOMAIN byepackets : byepackets[i] = s)
            ~> \/ \A i \in DOMAIN byepackets : byepackets[i] # s
               \/ \E p \in Polls : poll[p].pc = "ended"

\* A thread that waits to read data or to count a packet it sent gets the source
\* table.
TableIsGranted ==
    \A a \in Apps : app[a].pc \in {"want", "count"} ~> app[a].pc \notin {"want", "count"}
=============================================================================
