------------------------------ MODULE RtpSession ----------------------------
(***************************************************************************)
(* One jrtplib session as the RTP APIs use it (rtpsession.cpp with its     *)
(* poll thread, rtppollthread.cpp): the thread that creates and destroys   *)
(* the session, the threads that send and read packets, and the poll       *)
(* thread Create starts, which waits for packets, processes them, answers  *)
(* collisions of the session's own SSRC and sends the RTCP packets.        *)
(*                                                                         *)
(* sourcesmutex and schedmutex are kept as locks; a section under          *)
(* buildermutex, packsentmutex or stopmutex takes no other lock and ends,  *)
(* so it is one step.  created is read without any lock, as in the code.   *)
(***************************************************************************)
EXTENDS Integers, Sequences

CONSTANTS
    Apps,           \* the application threads, receiver threads included
    Control,        \* the one of Apps that creates and destroys the session
    Polls,          \* one poll thread and transmitter for each Create
    Addrs,          \* addresses another user of our SSRC may send from
    MaxSsrc,        \* bound: SSRCs one session has after its first
    MaxPackets,     \* bound: packets one Poll stores
    Nil             \* no thread, no transmitter

ASSUME SessionAssumption ==
    /\ Control \in Apps
    /\ MaxSsrc \in Nat
    /\ MaxPackets \in Nat \ {0}
    /\ Nil \notin Apps \cup Polls
    /\ Apps \cap Polls = {}

VARIABLES
    created,        \* the flag every operation tests first
    transmitter,    \* the transmitter rtptrans points to, Nil when deleted
    rawpackets,     \* packets it has stored
    sentpackets,    \* something was sent under the SSRC, as far as known
    ssrc,           \* our SSRC: how many the session had before it
    used,           \* SSRCs something really was sent under
    collisionlist,  \* addresses known to send with our SSRC
    byepackets,     \* the SSRCs of the BYE packets waiting
    byescheduled,   \* the scheduler's flag
    owner,          \* the thread that has each lock
    poll,           \* the poll threads
    app,            \* the application threads
    crashed         \* a thread used an object that was deleted

table == <<ssrc, used, collisionlist, byepackets, byescheduled>>
vars == <<created, transmitter, rawpackets, sentpackets, table, owner, poll,
          app, crashed>>

Ssrcs == 0 .. MaxSsrc
Leaves == {"Destroy", "BYEDestroy", "destory"}
ControlLabels == {"create", "started", "stopping", "bye", "flush", "delete",
                  "clear", "byedestroy"}
UserLabels == {"want", "access", "send", "count", "mark"}

\* A poll thread: where it is, the stop flag of its object, whether it was
\* cancelled and that object deleted.
Poll == [pc : {"none", "test", "lock sched", "lock sources", "wait",
               "lock process", "process", "renew", "forget", "ended", "dead"},
         stop : BOOLEAN, killed : BOOLEAN]
NoPoll == [pc |-> "none", stop |-> FALSE, killed |-> FALSE]

\* An application thread: where it is and, in a call that leaves the session,
\* which call.
App == [pc : {"idle"} \cup ControlLabels \cup UserLabels,
        op : Leaves \cup {"none"}]
Idle == [pc |-> "idle", op |-> "none"]

TypeOK ==
    /\ created \in BOOLEAN
    /\ transmitter \in Polls \cup {Nil}
    /\ rawpackets \in 0 .. MaxPackets
    /\ sentpackets \in BOOLEAN
    /\ ssrc \in Ssrcs
    /\ used \subseteq Ssrcs
    /\ collisionlist \subseteq Addrs
    /\ byepackets \in Seq(Ssrcs)
    /\ byescheduled \in BOOLEAN
    /\ owner \in [{"sources", "sched"} -> Apps \cup Polls \cup {Nil}]
    /\ poll \in [Polls -> Poll]
    /\ app \in [Apps -> App]
    /\ crashed \in BOOLEAN

Init ==
    /\ created = FALSE
    /\ transmitter = Nil
    /\ rawpackets = 0
    /\ sentpackets = FALSE
    /\ ssrc = 0
    /\ used = {}
    /\ collisionlist = {}
    /\ byepackets = <<>>
    /\ byescheduled = FALSE
    /\ owner = [l \in {"sources", "sched"} |-> Nil]
    /\ poll = [p \in Polls |-> NoPoll]
    /\ app = [a \in Apps |-> Idle]
    /\ crashed = FALSE

Locked(l) == owner[l] # Nil
Lock(l, t) == ~Locked(l) /\ owner' = [owner EXCEPT ![l] = t]

\* A mutex does not ask who unlocks it.
Unlock(l) == owner' = [owner EXCEPT ![l] = Nil]

PollGo(p, pc) == poll' = [poll EXCEPT ![p].pc = pc]
AppGo(a, pc) == app' = [app EXCEPT ![a].pc = pc]

-----------------------------------------------------------------------------
(* Create *)

CreateBegin ==
    /\ app[Control] = Idle
    /\ ~created
    /\ sentpackets' = FALSE
    /\ \E p \in Polls : poll[p].pc = "none" /\ transmitter' = p
    /\ rawpackets' = 0
    /\ AppGo(Control, "create")
    /\ UNCHANGED <<created, table, owner, poll, crashed>>

\* Any of the steps before the thread is started may fail; all they made is
\* destroyed again.
CreateFails ==
    /\ app[Control].pc = "create"
    /\ transmitter' = Nil
    /\ app' = [app EXCEPT ![Control] = Idle]
    /\ UNCHANGED <<created, rawpackets, sentpackets, table, owner, poll, crashed>>

\* The thread runs from here, before created is set.
CreateStart ==
    /\ app[Control].pc = "create"
    /\ byescheduled' = FALSE
    /\ PollGo(transmitter, "test")
    /\ AppGo(Control, "started")
    /\ UNCHANGED <<created, transmitter, rawpackets, sentpackets, ssrc, used,
                   collisionlist, byepackets, owner, crashed>>

CreateDone ==
    /\ app[Control].pc = "started"
    /\ created' = TRUE
    /\ app' = [app EXCEPT ![Control] = Idle]
    /\ UNCHANGED <<transmitter, rawpackets, sentpackets, table, owner, poll, crashed>>

-----------------------------------------------------------------------------
(* Destroy, BYEDestroy, and the rtp_*_destory that calls one after the other *)

\* RTPPollThread::Stop raises the flag and aborts the wait.
LeaveBegin(op) ==
    /\ app[Control] = Idle
    /\ created
    /\ poll' = [poll EXCEPT ![transmitter].stop = (poll[transmitter].pc # "ended")]
    /\ app' = [app EXCEPT ![Control] = [pc |-> "stopping", op |-> op]]
    /\ UNCHANGED <<created, transmitter, rawpackets, sentpackets, table, owner, crashed>>

AfterStop == IF app[Control].op = "BYEDestroy" THEN "bye" ELSE "delete"

\* A mutant of LeaveStopped: Stop does not wait for the thread.
LeaveStoppedEarly ==
    /\ app[Control].pc = "stopping"
    /\ AppGo(Control, AfterStop)
    /\ UNCHANGED <<created, transmitter, rawpackets, sentpackets, table, owner,
                   poll, crashed>>

LeaveStopped ==
    /\ app[Control].pc = "stopping"
    /\ poll[transmitter].pc = "ended"
    /\ AppGo(Control, AfterStop)
    /\ UNCHANGED <<created, transmitter, rawpackets, sentpackets, table, owner,
                   poll, crashed>>

\* A mutant of BlockedOn: no limit for a thread that waits for sourcesmutex.
BlockedOnSched(p, l) == l = "sched" /\ Locked(l) /\ poll[p].pc = "lock sched"

\* The poll thread waits for a lock somebody has.
BlockedOn(p, l) ==
    /\ Locked(l)
    /\ \/ l = "sched" /\ poll[p].pc = "lock sched"
       \/ l = "sources" /\ poll[p].pc \in {"lock sources", "lock process"}

\* Stop waits 5 seconds, far longer than a poll thread that gets its locks is
\* in a wait (at most 1.5 times the RTCP interval of a second) or at work.
LeaveKill ==
    /\ app[Control].pc = "stopping"
    /\ \E l \in {"sources", "sched"} : BlockedOn(transmitter, l)
    /\ poll' = [poll EXCEPT ![transmitter].killed = TRUE]
    /\ AppGo(Control, AfterStop)
    /\ UNCHANGED <<created, transmitter, rawpackets, sentpackets, table, owner, crashed>>

\* BYEDestroy adds its own BYE, if that can be built, to those of the collisions.
LeaveBye ==
    /\ app[Control].pc = "bye"
    /\ \E built \in {sentpackets, FALSE} :
          /\ byepackets' = IF built THEN Append(byepackets, ssrc) ELSE byepackets
          /\ byescheduled' = (byescheduled \/ (built /\ byepackets = <<>>))
    /\ AppGo(Control, IF byepackets' = <<>> THEN "delete" ELSE "flush")
    /\ UNCHANGED <<created, transmitter, rawpackets, sentpackets, ssrc, used,
                   collisionlist, owner, poll, crashed>>

\* It sends them as the scheduler's times come, or until maxwaittime is over.
LeaveFlush ==
    /\ app[Control].pc = "flush"
    /\ \/ /\ byepackets # <<>>
          /\ byepackets' = Tail(byepackets)
          /\ byescheduled' = (byepackets' # <<>>)
          /\ AppGo(Control, IF byepackets' = <<>> THEN "delete" ELSE "flush")
       \/ /\ AppGo(Control, "delete")
          /\ UNCHANGED <<byepackets, byescheduled>>
    /\ UNCHANGED <<created, transmitter, rawpackets, sentpackets, ssrc, used,
                   collisionlist, owner, poll, crashed>>

LeaveDelete ==
    /\ app[Control].pc = "delete"
    /\ transmitter' = Nil
    /\ rawpackets' = 0
    /\ poll' = [poll EXCEPT ![transmitter] =
                IF @.pc = "ended" THEN NoPoll ELSE [@ EXCEPT !.killed = TRUE]]
    /\ AppGo(Control, "clear")
    /\ UNCHANGED <<created, sentpackets, table, owner, crashed>>

\* The source table is cleared without its lock.
LeaveClear ==
    /\ app[Control].pc = "clear"
    /\ ssrc' = 0
    /\ used' = {}
    /\ collisionlist' = {}
    /\ byepackets' = <<>>
    /\ byescheduled' = FALSE
    /\ created' = FALSE
    /\ app' = [app EXCEPT ![Control] =
                IF @.op = "destory" THEN [@ EXCEPT !.pc = "byedestroy"] ELSE Idle]
    /\ UNCHANGED <<transmitter, rawpackets, sentpackets, owner, poll, crashed>>

\* rtp_*_destory now calls BYEDestroy, which tests created and returns.
DestoryBye ==
    /\ app[Control].pc = "byedestroy"
    /\ ~created
    /\ app' = [app EXCEPT ![Control] = Idle]
    /\ UNCHANGED <<created, transmitter, rawpackets, sentpackets, table, owner,
                   poll, crashed>>

-----------------------------------------------------------------------------
(* SendPacket *)

SendBegin(a) ==
    /\ app[a] = Idle
    /\ created
    /\ AppGo(a, "send")
    /\ UNCHANGED <<created, transmitter, rawpackets, sentpackets, table, owner,
                   poll, crashed>>

\* Under buildermutex: the packet carries the SSRC of this moment.
SendBuild(a) ==
    /\ app[a].pc = "send"
    /\ transmitter # Nil
    /\ used' = used \cup {ssrc}
    /\ AppGo(a, "count")
    /\ UNCHANGED <<created, transmitter, rawpackets, sentpackets, ssrc,
                   collisionlist, byepackets, byescheduled, owner, poll, crashed>>

\* BuildPacket or SendRTPData refuses the packet.
SendFails(a) ==
    /\ app[a].pc = "send"
    /\ transmitter # Nil
    /\ app' = [app EXCEPT ![a] = Idle]
    /\ UNCHANGED <<created, transmitter, rawpackets, sentpackets, table, owner,
                   poll, crashed>>

\* sources.SentRTPPacket, under sourcesmutex.
SendCount(a) ==
    /\ app[a].pc = "count"
    /\ ~Locked("sources")
    /\ AppGo(a, "mark")
    /\ UNCHANGED <<created, transmitter, rawpackets, sentpackets, table, owner,
                   poll, crashed>>

\* Under packsentmutex.
SendMark(a) ==
    /\ app[a].pc = "mark"
    /\ sentpackets' = TRUE
    /\ app' = [app EXCEPT ![a] = Idle]
    /\ UNCHANGED <<created, transmitter, rawpackets, table, owner, poll, crashed>>

-----------------------------------------------------------------------------
(* BeginDataAccess ... EndDataAccess, as the receiver loops call them: what
   BeginDataAccess answers is not looked at. *)

AccessBegin(a) ==
    /\ app[a] = Idle
    /\ AppGo(a, IF created THEN "want" ELSE "access")
    /\ UNCHANGED <<created, transmitter, rawpackets, sentpackets, table, owner,
                   poll, crashed>>

\* A mutant of AccessLock: a BeginDataAccess that does not lock.
AccessUnlocked(a) ==
    /\ app[a].pc = "want"
    /\ AppGo(a, "access")
    /\ UNCHANGED <<created, transmitter, rawpackets, sentpackets, table, owner,
                   poll, crashed>>

AccessLock(a) ==
    /\ app[a].pc = "want"
    /\ Lock("sources", a)
    /\ AppGo(a, "access")
    /\ UNCHANGED <<created, transmitter, rawpackets, sentpackets, table, poll, crashed>>

AccessEnd(a) ==
    /\ app[a].pc = "access"
    /\ IF created THEN Unlock("sources") ELSE UNCHANGED owner
    /\ app' = [app EXCEPT ![a] = Idle]
    /\ UNCHANGED <<created, transmitter, rawpackets, sentpackets, table, poll, crashed>>

-----------------------------------------------------------------------------
(* The poll thread: RTPPollThread::Thread and RTPSession::ProcessPolledData *)

PollTest(p) ==
    /\ poll[p].pc = "test"
    /\ ~poll[p].killed
    /\ PollGo(p, IF poll[p].stop THEN "ended" ELSE "lock sched")
    /\ UNCHANGED <<created, transmitter, rawpackets, sentpackets, table, owner,
                   app, crashed>>

PollLockSched(p) ==
    /\ poll[p].pc = "lock sched"
    /\ Lock("sched", p)
    /\ PollGo(p, "lock sources")
    /\ UNCHANGED <<created, transmitter, rawpackets, sentpackets, table, app, crashed>>

\* GetTransmissionDelay, under both locks; both are free again after it.
PollDelay(p) ==
    /\ poll[p].pc = "lock sources"
    /\ ~Locked("sources")
    /\ Unlock("sched")
    /\ PollGo(p, "wait")
    /\ UNCHANGED <<created, transmitter, rawpackets, sentpackets, table, app, crashed>>

\* WaitForIncomingData ends with data, the delay or AbortWait; Poll stores what
\* has come.
PollWait(p) ==
    /\ poll[p].pc = "wait"
    /\ ~poll[p].killed
    /\ rawpackets' \in rawpackets .. MaxPackets
    /\ PollGo(p, "lock process")
    /\ UNCHANGED <<created, transmitter, sentpackets, table, owner, app, crashed>>

PollLockProcess(p) ==
    /\ poll[p].pc = "lock process"
    /\ Lock("sources", p)
    /\ PollGo(p, "process")
    /\ UNCHANGED <<created, transmitter, rawpackets, sentpackets, table, app, crashed>>

\* A packet that is none of ours, or ours from an address known to use our SSRC.
ProcessPacket(p) ==
    /\ poll[p].pc = "process"
    /\ transmitter # Nil
    /\ rawpackets > 0
    /\ ~Locked("sched")
    /\ rawpackets' = rawpackets - 1
    /\ UNCHANGED <<created, transmitter, sentpackets, table, owner, poll, app, crashed>>

\* One that shows our SSRC in use at a new address: a BYE is queued if we have
\* sent, and scheduled if it is the first.
ProcessCollision(p) ==
    /\ poll[p].pc = "process"
    /\ transmitter # Nil
    /\ rawpackets > 0
    /\ ~Locked("sched")
    /\ ssrc < MaxSsrc
    /\ rawpackets' = rawpackets - 1
    /\ \E a \in Addrs \ collisionlist : collisionlist' = collisionlist \cup {a}
    /\ byepackets' = IF sentpackets THEN Append(byepackets, ssrc) ELSE byepackets
    /\ byescheduled' = (byescheduled \/ (sentpackets /\ byepackets = <<>>))
    /\ PollGo(p, "renew")
    /\ UNCHANGED <<created, transmitter, sentpackets, ssrc, used, owner, app, crashed>>

\* CreateNewSSRC, under buildermutex.
ProcessRenew(p) ==
    /\ poll[p].pc = "renew"
    /\ ssrc < MaxSsrc
    /\ ssrc' = ssrc + 1
    /\ PollGo(p, "forget")
    /\ UNCHANGED <<created, transmitter, rawpackets, sentpackets, used, collisionlist,
                   byepackets, byescheduled, owner, app, crashed>>

\* Under packsentmutex; then the own entry of the table is replaced.  What was
\* sent under the new SSRC and marked in between is forgotten with the rest.
ProcessForget(p) ==
    /\ poll[p].pc = "forget"
    /\ sentpackets' = FALSE
    /\ PollGo(p, "process")
    /\ UNCHANGED <<created, transmitter, rawpackets, table, owner, app, crashed>>

\* All packets are processed: old addresses are forgotten.
Timeouts(p) ==
    /\ poll[p].pc = "process"
    /\ transmitter # Nil
    /\ rawpackets = 0
    /\ ~Locked("sched")
    /\ collisionlist' \in SUBSET collisionlist

ProcessNotDue(p) ==
    /\ Timeouts(p)
    /\ Unlock("sources")
    /\ PollGo(p, "test")
    /\ UNCHANGED <<created, transmitter, rawpackets, sentpackets, ssrc, used,
                   byepackets, byescheduled, app, crashed>>

\* It is time for RTCP and no BYE waits: a report goes out under our SSRC.
ProcessReport(p) ==
    /\ Timeouts(p)
    /\ byepackets = <<>>
    /\ used' = used \cup {ssrc}
    /\ byescheduled' = FALSE
    /\ sentpackets' = TRUE
    /\ Unlock("sources")
    /\ PollGo(p, "test")
    /\ UNCHANGED <<created, transmitter, rawpackets, ssrc, byepackets, app, crashed>>

ProcessByeAgain(p) ==
    /\ Timeouts(p)
    /\ byepackets # <<>>
    /\ sentpackets' = TRUE
    /\ Unlock("sources")
    /\ PollGo(p, "test")
    /\ UNCHANGED <<created, transmitter, rawpackets, ssrc, used, byepackets,
                   byescheduled, app, crashed>>

\* It is time for RTCP: the oldest BYE goes out, the next one is scheduled.
ProcessBye(p) ==
    /\ Timeouts(p)
    /\ byepackets # <<>>
    /\ byepackets' = Tail(byepackets)
    /\ byescheduled' = (byepackets' # <<>>)
    /\ sentpackets' = TRUE
    /\ Unlock("sources")
    /\ PollGo(p, "test")
    /\ UNCHANGED <<created, transmitter, rawpackets, ssrc, used, app, crashed>>

\* A mutant of PollFails: an error path without SOURCES_UNLOCK.
PollFailsLocked(p) ==
    /\ poll[p].pc = "process"
    /\ transmitter # Nil
    /\ PollGo(p, "ended")
    /\ UNCHANGED <<created, transmitter, rawpackets, sentpackets, table, owner,
                   app, crashed>>

\* A wait, a poll, a packet, a BYE or a report, or the own entry of a new SSRC
\* fails: the thread gives up.
PollFails(p) ==
    /\ \/ poll[p].pc = "wait" /\ ~poll[p].killed /\ UNCHANGED owner
       \/ poll[p].pc = "process" /\ transmitter # Nil /\ Unlock("sources")
    /\ PollGo(p, "ended")
    /\ UNCHANGED <<created, transmitter, rawpackets, sentpackets, table, app, crashed>>

\* sendto is a cancellation point: a cancelled thread dies there, lock in hand.
PollCancelled(p) ==
    /\ poll[p].pc = "process"
    /\ poll[p].killed
    /\ transmitter # Nil
    /\ rawpackets = 0
    /\ PollGo(p, "dead")
    /\ UNCHANGED <<created, transmitter, rawpackets, sentpackets, table, owner,
                   app, crashed>>

-----------------------------------------------------------------------------
\* A cancelled poll thread goes back to its deleted object, or a thread uses
\* the transmitter after it is deleted.
UsesDeleted ==
    \/ \E p \in Polls : poll[p].killed /\ poll[p].pc \in {"test", "wait"}
    \/ \E p \in Polls : poll[p].pc = "process" /\ transmitter = Nil
    \/ \E a \in Apps : app[a].pc = "send" /\ transmitter = Nil

\* The process may die of it; what else it may do is not followed.
Crash ==
    /\ UsesDeleted
    /\ crashed' = TRUE
    /\ UNCHANGED <<created, transmitter, rawpackets, sentpackets, table, owner,
                   poll, app>>

\* What a call does once it has begun.
ControlStep ==
    \/ CreateFails \/ CreateStart \/ CreateDone
    \/ LeaveStopped \/ LeaveKill \/ LeaveBye \/ LeaveFlush \/ LeaveDelete
    \/ LeaveClear \/ DestoryBye

UserStep(a) ==
    \/ SendBuild(a) \/ SendFails(a) \/ SendCount(a) \/ SendMark(a)
    \/ AccessLock(a) \/ AccessEnd(a)

PollStep(p) ==
    \/ PollTest(p) \/ PollLockSched(p) \/ PollDelay(p) \/ PollWait(p)
    \/ PollLockProcess(p) \/ ProcessPacket(p) \/ ProcessCollision(p)
    \/ ProcessRenew(p) \/ ProcessForget(p) \/ ProcessNotDue(p) \/ ProcessReport(p)
    \/ ProcessBye(p) \/ PollFails(p) \/ PollCancelled(p)

Step ==
    \/ ControlStep
    \/ \E a \in Apps : UserStep(a)
    \/ \E p \in Polls : PollStep(p)
    \/ Crash

Next ==
    /\ ~crashed
    /\ \/ CreateBegin
       \/ \E op \in Leaves : LeaveBegin(op)
       \/ \E a \in Apps : SendBegin(a) \/ AccessBegin(a)
       \/ Step

Spec == Init /\ [][Next]_vars
=============================================================================
