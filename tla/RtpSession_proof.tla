-------------------------- MODULE RtpSession_proof --------------------------
(***************************************************************************)
(* What a session promises an orderly client (RtpClient), for any number   *)
(* of threads, addresses, sessions one after the other, SSRCs and packets. *)
(***************************************************************************)
EXTENDS RtpClient, TLAPS

-----------------------------------------------------------------------------
(* Type correctness, whatever the client does. *)

LEMMA AppGoType ==
    ASSUME TypeOK, NEW a \in Apps, NEW l \in {"idle"} \cup ControlLabels \cup UserLabels
    PROVE  AppGo(a, l) => app' \in [Apps -> App]
BY DEF AppGo, TypeOK, App

LEMMA AppIdleType ==
    ASSUME TypeOK, NEW a \in Apps
    PROVE  app' = [app EXCEPT ![a] = Idle] => app' \in [Apps -> App]
BY DEF TypeOK, App, Idle

LEMMA PollGoType ==
    ASSUME TypeOK, NEW p,
           NEW l \in {"none", "test", "lock sched", "lock sources", "wait", "lock process",
                      "process", "renew", "forget", "ended", "dead"}
    PROVE  PollGo(p, l) => poll' \in [Polls -> Poll]
<1>1. CASE p \in Polls
  BY ZenonT(60), <1>1 DEF PollGo, TypeOK, Poll
<1>2. CASE p \notin Polls
  BY <1>2 DEF PollGo, TypeOK
<1> QED
  BY <1>1, <1>2

LEMMA TypeInit == Init => TypeOK
<1> SUFFICES ASSUME Init PROVE TypeOK
  OBVIOUS
<1>1. poll \in [Polls -> Poll] /\ app \in [Apps -> App]
  BY DEF Init, Poll, NoPoll, App, Idle
<1>2. ssrc \in Ssrcs /\ rawpackets \in 0 .. MaxPackets
  BY SessionAssumption DEF Init, Ssrcs
<1>3. byepackets \in Seq(Ssrcs)
  BY DEF Init
<1>4. owner \in [{"sources", "sched"} -> Apps \cup Polls \cup {Nil}]
  BY DEF Init
<1> QED
  BY <1>1, <1>2, <1>3, <1>4 DEF Init, TypeOK

LEMMA TypeControl ==
    ASSUME TypeOK,
           CreateBegin \/ (\E op \in Leaves : LeaveBegin(op)) \/ ControlStep
    PROVE  TypeOK'
<1> USE SessionAssumption
<1>1. CASE CreateBegin
  <2>1. app' \in [Apps -> App]
    BY <1>1, AppGoType DEF CreateBegin, ControlLabels
  <2>2. rawpackets' \in 0 .. MaxPackets /\ transmitter' \in Polls
    BY <1>1 DEF CreateBegin
  <2> QED
    BY <1>1, <2>1, <2>2 DEF CreateBegin, TypeOK, table
<1>2. ASSUME NEW op \in Leaves, LeaveBegin(op) PROVE TypeOK'
  <2>1. app' \in [Apps -> App]
    BY <1>2 DEF LeaveBegin, TypeOK, ControlLabels, App
  <2>2. poll' \in [Polls -> Poll]
    <3>1. (poll[transmitter].pc # "ended") \in BOOLEAN
      OBVIOUS
    <3>2. ASSUME NEW s \in BOOLEAN PROVE [poll EXCEPT ![transmitter].stop = s] \in [Polls -> Poll]
      <4>1. CASE transmitter \in Polls
        BY ZenonT(60), <4>1 DEF TypeOK, Poll
      <4>2. CASE transmitter \notin Polls
        BY <4>2 DEF TypeOK
      <4> QED
        BY <4>1, <4>2
    <3> QED
      BY <1>2, <3>1, <3>2 DEF LeaveBegin
  <2> QED
    BY <1>2, <2>1, <2>2 DEF LeaveBegin, TypeOK, table
<1>3. CASE CreateFails
  BY <1>3, AppIdleType DEF CreateFails, TypeOK, table
<1>4. CASE CreateStart
  BY <1>4, AppGoType, PollGoType DEF CreateStart, TypeOK, ControlLabels
<1>5. CASE CreateDone
  BY <1>5, AppIdleType DEF CreateDone, TypeOK, table
<1>6. CASE LeaveStopped
  BY <1>6, AppGoType DEF LeaveStopped, AfterStop, TypeOK, ControlLabels, table
<1>7. CASE LeaveKill
  BY ZenonT(60), <1>7, AppGoType DEF LeaveKill, AfterStop, TypeOK, ControlLabels, Poll, table
<1>8. CASE LeaveBye
  BY <1>8, AppGoType DEF LeaveBye, TypeOK, ControlLabels
<1>9. CASE LeaveFlush
  <2>1. app' \in [Apps -> App]
    BY <1>9, AppGoType DEF LeaveFlush, ControlLabels
  <2>2. byepackets' \in Seq(Ssrcs)
    BY SMTT(40), <1>9 DEF LeaveFlush, TypeOK
  <2>3. byescheduled' \in BOOLEAN
    BY <1>9 DEF LeaveFlush, TypeOK
  <2> QED
    BY <1>9, <2>1, <2>2, <2>3 DEF LeaveFlush, TypeOK
<1>10. CASE LeaveDelete
  <2>1. app' \in [Apps -> App]
    BY <1>10, AppGoType DEF LeaveDelete, ControlLabels
  <2>2. poll' \in [Polls -> Poll]
    <3>1. CASE transmitter \in Polls
      BY ZenonT(60), <1>10, <3>1 DEF LeaveDelete, TypeOK, Poll, NoPoll
    <3>2. CASE transmitter \notin Polls
      BY <1>10, <3>2 DEF LeaveDelete, TypeOK
    <3> QED
      BY <3>1, <3>2
  <2> QED
    BY <1>10, <2>1, <2>2 DEF LeaveDelete, TypeOK, table
<1>11. CASE LeaveClear
  <2>1. app' \in [Apps -> App]
    BY <1>11 DEF LeaveClear, TypeOK, ControlLabels, App, Idle
  <2>2. ssrc' \in Ssrcs /\ byepackets' \in Seq(Ssrcs)
    BY <1>11 DEF LeaveClear, Ssrcs
  <2> QED
    BY <1>11, <2>1, <2>2 DEF LeaveClear, TypeOK
<1>12. CASE DestoryBye
  BY <1>12, AppIdleType DEF DestoryBye, TypeOK, table
<1> QED
  BY <1>1, <1>2, <1>3, <1>4, <1>5, <1>6, <1>7, <1>8, <1>9, <1>10, <1>11, <1>12 DEF ControlStep

LEMMA TypeUser ==
    ASSUME TypeOK, NEW a \in Apps, SendBegin(a) \/ AccessBegin(a) \/ UserStep(a)
    PROVE  TypeOK'
<1>1. CASE SendBegin(a)
  BY <1>1, AppGoType DEF SendBegin, TypeOK, UserLabels, table
<1>2. CASE AccessBegin(a)
  BY <1>2, AppGoType DEF AccessBegin, TypeOK, UserLabels, table
<1>3. CASE SendBuild(a)
  BY <1>3, AppGoType DEF SendBuild, TypeOK, UserLabels
<1>4. CASE SendFails(a)
  BY <1>4, AppIdleType DEF SendFails, TypeOK, table
<1>5. CASE SendCount(a)
  BY <1>5, AppGoType DEF SendCount, TypeOK, UserLabels, table
<1>6. CASE SendMark(a)
  BY <1>6, AppIdleType DEF SendMark, TypeOK, table
<1>7. CASE AccessLock(a)
  BY <1>7, AppGoType DEF AccessLock, Lock, TypeOK, UserLabels, table
<1>8. CASE AccessEnd(a)
  BY <1>8, AppIdleType DEF AccessEnd, Unlock, TypeOK, table
<1> QED
  BY <1>1, <1>2, <1>3, <1>4, <1>5, <1>6, <1>7, <1>8 DEF UserStep

LEMMA TypePoll ==
    ASSUME TypeOK, NEW p \in Polls, PollStep(p)
    PROVE  TypeOK'
<1> USE SessionAssumption
<1>1. CASE PollTest(p)
  BY <1>1, PollGoType DEF PollTest, TypeOK, table
<1>2. CASE PollLockSched(p)
  BY <1>2, PollGoType DEF PollLockSched, Lock, TypeOK, table
<1>3. CASE PollDelay(p)
  BY <1>3, PollGoType DEF PollDelay, Unlock, TypeOK, table
<1>4. CASE PollWait(p)
  <2>1. poll' \in [Polls -> Poll]
    BY <1>4, PollGoType DEF PollWait
  <2>2. rawpackets' \in 0 .. MaxPackets
    <3>1. rawpackets \in Nat /\ MaxPackets \in Nat
      BY DEF TypeOK
    <3>2. rawpackets' \in rawpackets .. MaxPackets
      BY <1>4 DEF PollWait
    <3> QED
      BY <3>1, <3>2
  <2> QED
    BY <1>4, <2>1, <2>2 DEF PollWait, TypeOK, table
<1>5. CASE PollLockProcess(p)
  BY <1>5, PollGoType DEF PollLockProcess, Lock, TypeOK, table
<1>6. CASE ProcessPacket(p)
  BY <1>6 DEF ProcessPacket, TypeOK, table
<1>7. CASE ProcessCollision(p)
  <2>1. poll' \in [Polls -> Poll]
    BY <1>7, PollGoType DEF ProcessCollision
  <2>2. rawpackets' \in 0 .. MaxPackets /\ collisionlist' \subseteq Addrs
    BY <1>7 DEF ProcessCollision, TypeOK
  <2>3. byepackets' \in Seq(Ssrcs)
    BY <1>7 DEF ProcessCollision, TypeOK
  <2>4. byescheduled' \in BOOLEAN
    BY <1>7 DEF ProcessCollision
  <2> QED
    BY <1>7, <2>1, <2>2, <2>3, <2>4 DEF ProcessCollision, TypeOK
<1>8. CASE ProcessRenew(p)
  <2>1. poll' \in [Polls -> Poll]
    BY <1>8, PollGoType DEF ProcessRenew
  <2>2. ssrc' \in Ssrcs
    BY <1>8 DEF ProcessRenew, TypeOK, Ssrcs
  <2> QED
    BY <1>8, <2>1, <2>2 DEF ProcessRenew, TypeOK
<1>9. CASE ProcessNotDue(p)
  BY <1>9, PollGoType DEF ProcessNotDue, Timeouts, Unlock, TypeOK
<1>10. CASE ProcessReport(p)
  BY <1>10, PollGoType DEF ProcessReport, Timeouts, Unlock, TypeOK
<1>11. CASE ProcessBye(p)
  <2>1. poll' \in [Polls -> Poll]
    BY <1>11, PollGoType DEF ProcessBye
  <2>2. byepackets' \in Seq(Ssrcs)
    BY <1>11 DEF ProcessBye, TypeOK
  <2>3. byescheduled' \in BOOLEAN
    BY <1>11 DEF ProcessBye
  <2> QED
    BY <1>11, <2>1, <2>2, <2>3 DEF ProcessBye, Timeouts, Unlock, TypeOK
<1>12. CASE PollFails(p)
  BY <1>12, PollGoType DEF PollFails, Unlock, TypeOK, table
<1>13. CASE PollCancelled(p)
  BY <1>13, PollGoType DEF PollCancelled, TypeOK, table
<1>14. CASE ProcessForget(p)
  BY <1>14, PollGoType DEF ProcessForget, TypeOK, table
<1> QED
  BY <1>1, <1>2, <1>3, <1>4, <1>5, <1>6, <1>7, <1>8, <1>9, <1>10, <1>11, <1>12, <1>13, <1>14
  DEF PollStep

LEMMA TypeNext == TypeOK /\ [Next]_vars => TypeOK'
<1> SUFFICES ASSUME TypeOK, [Next]_vars PROVE TypeOK'
  OBVIOUS
<1>1. CASE Crash
  BY <1>1 DEF Crash, TypeOK, table
<1>2. CASE UNCHANGED vars
  BY <1>2 DEF vars, table, TypeOK
<1> QED
  BY <1>1, <1>2, TypeControl, TypeUser, TypePoll DEF Next, Step

\* Every state of the specification is well typed, whatever the client does:
\* among it that ssrc stays within the SSRCs of a session and that a BYE that
\* waits is for one of them.
THEOREM TypeCorrect == Spec => []TypeOK
  BY TypeInit, TypeNext, PTL DEF Spec

-----------------------------------------------------------------------------
(* The inductive invariant: what holds is told by where Control is. *)

At(label) == app[Control].pc = label

\* The thread that is in charge of the session: nobody else is in a call then.
AloneInv == app[Control].pc \in ControlLabels => Alone

\* created is up from the end of Create to the Clear of Destroy, and the
\* transmitter is there from Create to the delete.
LifeInv ==
    /\ created <=> \/ At("stopping") \/ At("bye") \/ At("flush") \/ At("delete") \/ At("clear")
                   \/ app[Control].pc \notin ControlLabels /\ transmitter # Nil
    /\ ~created /\ ~At("create") /\ ~At("started") => transmitter = Nil
    /\ At("create") \/ At("started") \/ (created /\ ~At("clear")) => transmitter \in Polls
    /\ At("clear") => transmitter = Nil

\* A call that needs the session began in it, and it is not left under way.
CallInv ==
    \A a \in Apps : app[a].pc \in {"want", "send", "count", "mark"} => created

\* Only the poll thread of this session runs, it was never cancelled, and it has
\* ended before anything of the session is taken away.
PollInv ==
    /\ \A p \in Polls : p # transmitter => poll[p] = NoPoll
    /\ \A p \in Polls : ~poll[p].killed /\ poll[p].pc # "dead"
    /\ At("create") => poll[transmitter] = NoPoll
    /\ At("started") \/ (created /\ ~At("clear")) => poll[transmitter].pc # "none"
    /\ At("bye") \/ At("flush") \/ At("delete") => poll[transmitter].pc = "ended"

\* Who has a lock is at a place where it has it, and the other way round.
LockInv ==
    /\ \A p \in Polls : poll[p].pc \in {"process", "renew", "forget"} => owner["sources"] = p
    /\ \A p \in Polls : owner["sources"] = p => poll[p].pc \in {"process", "renew", "forget"}
    /\ \A a \in Apps : app[a].pc = "access" /\ created => owner["sources"] = a
    /\ \A a \in Apps : owner["sources"] = a => app[a].pc = "access" /\ created
    /\ \A p \in Polls : poll[p].pc = "lock sources" => owner["sched"] = p
    /\ \A p \in Polls : owner["sched"] = p => poll[p].pc = "lock sources"
    /\ \A a \in Apps : owner["sched"] # a

\* No BYE waits between two sessions.
ByeInv == ~created /\ ~At("started") => byepackets = <<>>

SessionInv == TypeOK /\ AloneInv /\ LifeInv /\ CallInv /\ PollInv /\ LockInv /\ ByeInv /\ ~crashed

-----------------------------------------------------------------------------
(* It holds at first and every step keeps it. *)

LEMMA AppGoGives ==
    ASSUME TypeOK, NEW a \in Apps, NEW l, AppGo(a, l)
    PROVE  /\ app'[a].pc = l
           /\ app'[a].op = app[a].op
           /\ \A b \in Apps \ {a} : app'[b] = app[b]
BY DEF AppGo, TypeOK, App

LEMMA AppIdleGives ==
    ASSUME TypeOK, NEW a \in Apps, app' = [app EXCEPT ![a] = Idle]
    PROVE  /\ app'[a] = Idle
           /\ app'[a].pc = "idle"
           /\ \A b \in Apps \ {a} : app'[b] = app[b]
BY DEF TypeOK, Idle

LEMMA PollGoGives ==
    ASSUME TypeOK, NEW p \in Polls, NEW l, PollGo(p, l)
    PROVE  /\ poll'[p].pc = l
           /\ poll'[p].stop = poll[p].stop
           /\ poll'[p].killed = poll[p].killed
           /\ \A q \in Polls \ {p} : poll'[q] = poll[q]
BY DEF PollGo, TypeOK, Poll

LEMMA InvInit == Init => SessionInv
<1> SUFFICES ASSUME Init PROVE SessionInv
  OBVIOUS
<1>1. app[Control].pc = "idle" /\ \A a \in Apps : app[a].pc = "idle"
  BY SessionAssumption DEF Init, Idle
<1>2. \A p \in Polls : poll[p] = NoPoll
  BY DEF Init
<1> QED
  BY <1>1, <1>2, TypeInit, SessionAssumption
  DEF SessionInv, AloneInv, LifeInv, CallInv, PollInv, LockInv, ByeInv, At, Init, ControlLabels, NoPoll

LEMMA LockGives ==
    ASSUME TypeOK, NEW l \in {"sources", "sched"}, NEW t, Lock(l, t)
    PROVE  /\ owner[l] = Nil
           /\ owner'[l] = t
           /\ \A k \in {"sources", "sched"} \ {l} : owner'[k] = owner[k]
BY DEF Lock, Locked, TypeOK

LEMMA UnlockGives ==
    ASSUME TypeOK, NEW l \in {"sources", "sched"}, Unlock(l)
    PROVE  /\ owner'[l] = Nil
           /\ \A k \in {"sources", "sched"} \ {l} : owner'[k] = owner[k]
BY DEF Unlock, TypeOK

\* A poll thread that is neither unborn nor at its end is that of the session.
LEMMA RunningThread ==
    ASSUME SessionInv, NEW p \in Polls, poll[p].pc # "none"
    PROVE  p = transmitter /\ (created \/ At("started"))
<1>1. p = transmitter
  BY DEF SessionInv, PollInv, NoPoll
<1>2. transmitter # Nil
  BY <1>1, SessionAssumption
<1>3. ~At("create")
  BY <1>1 DEF SessionInv, PollInv, NoPoll
<1> QED
  BY <1>1, <1>2, <1>3 DEF SessionInv, LifeInv

\* A step of the poll thread touches neither the life of the session nor a call:
\* what it does to the locks is left to be seen.
LEMMA PollFrame ==
    ASSUME SessionInv, TypeOK', NEW p \in Polls,
           UNCHANGED <<created, transmitter, app, crashed>>,
           \A q \in Polls \ {p} : poll'[q] = poll[q],
           poll[p].pc \notin {"none", "ended"},
           poll'[p].pc \notin {"none", "dead"},
           poll'[p].killed = poll[p].killed,
           LockInv'
    PROVE  SessionInv'
<1>1. p = transmitter /\ (created \/ At("started"))
  BY RunningThread
<1>2. AloneInv' /\ LifeInv' /\ CallInv'
  BY DEF SessionInv, AloneInv, Alone, LifeInv, CallInv, At
<1>3. PollInv'
  <2>1. ~At("bye") /\ ~At("flush") /\ ~At("delete") /\ ~At("create")
    BY <1>1 DEF SessionInv, PollInv, NoPoll
  <2> QED
    BY <1>1, <2>1 DEF SessionInv, PollInv, At
<1>4. ByeInv'
  BY <1>1 DEF ByeInv, At
<1> QED
  BY <1>2, <1>3, <1>4 DEF SessionInv

\* Nor does a step of a call: the threads that share the session are no threads
\* of Control then.
LEMMA UserFrame ==
    ASSUME SessionInv, TypeOK', NEW a \in Apps,
           UNCHANGED <<created, transmitter, poll, byepackets, crashed>>,
           \A b \in Apps \ {a} : app'[b] = app[b],
           app[Control].pc \notin ControlLabels,
           app'[a].pc \notin ControlLabels,
           app'[a].pc \in {"want", "send", "count", "mark"} => created,
           LockInv'
    PROVE  SessionInv'
<1>1. app'[Control].pc \notin ControlLabels
  BY SessionAssumption
<1>2. \A l \in ControlLabels : ~At(l) /\ ~At(l)'
  BY <1>1 DEF At
<1>3. AloneInv' /\ LifeInv'
  BY <1>1, <1>2 DEF SessionInv, AloneInv, LifeInv, ControlLabels
<1>4. CallInv'
  BY DEF SessionInv, CallInv
<1>5. PollInv' /\ ByeInv'
  BY <1>2 DEF SessionInv, PollInv, ByeInv, ControlLabels
<1> QED
  BY <1>3, <1>4, <1>5 DEF SessionInv

\* A thread that is in a call of a user is alone with the other users.
LEMMA InACall ==
    ASSUME SessionInv, NEW a \in Apps, app[a].pc \in UserLabels
    PROVE  app[Control].pc \notin ControlLabels
<1>1. app[a] # Idle /\ app[a].pc \notin ControlLabels
  BY DEF UserLabels, ControlLabels, Idle
<1> QED
  BY <1>1 DEF SessionInv, AloneInv, Alone

\* The locks stay in order when a call takes none and gives none back,
LEMMA LocksKept ==
    ASSUME SessionInv, NEW a \in Apps,
           UNCHANGED <<created, poll, owner>>,
           \A b \in Apps \ {a} : app'[b] = app[b],
           app'[a].pc = "access" /\ created <=> app[a].pc = "access" /\ created
    PROVE  LockInv'
<1>1. /\ \A p \in Polls : poll'[p].pc = poll[p].pc
      /\ owner'["sources"] = owner["sources"] /\ owner'["sched"] = owner["sched"]
  OBVIOUS
<1>2. \A b \in Apps : (app'[b].pc = "access" /\ created') = (app[b].pc = "access" /\ created)
  OBVIOUS
<1> QED
  BY <1>1, <1>2 DEF SessionInv, LockInv

\* when a reader gets the source table,
LEMMA LocksTaken ==
    ASSUME SessionInv, NEW a \in Apps, UNCHANGED <<created, poll>>,
           \A b \in Apps \ {a} : app'[b] = app[b],
           created, app'[a].pc = "access",
           owner["sources"] = Nil, owner'["sources"] = a, owner'["sched"] = owner["sched"]
    PROVE  LockInv'
<1>1. a # Nil /\ \A p \in Polls : p # a /\ p # Nil
  BY SessionAssumption
<1>2. \A b \in Apps : b # Nil
  BY SessionAssumption
<1>3. \A p \in Polls : poll[p].pc \notin {"process", "renew", "forget"}
  BY <1>1 DEF SessionInv, LockInv
<1>4. \A b \in Apps \ {a} : ~(app'[b].pc = "access" /\ created')
  BY <1>2 DEF SessionInv, LockInv
<1> QED
  BY <1>1, <1>3, <1>4 DEF SessionInv, LockInv

\* and when it gives it back.
LEMMA LocksGiven ==
    ASSUME SessionInv, NEW a \in Apps, UNCHANGED <<created, poll>>,
           \A b \in Apps \ {a} : app'[b] = app[b],
           app'[a].pc # "access",
           owner["sources"] = a, owner'["sources"] = Nil, owner'["sched"] = owner["sched"]
    PROVE  LockInv'
<1>1. a # Nil /\ \A p \in Polls : p # a /\ p # Nil
  BY SessionAssumption
<1>2. \A b \in Apps : b # Nil
  BY SessionAssumption
<1>3. \A p \in Polls : poll[p].pc \notin {"process", "renew", "forget"}
  BY <1>1 DEF SessionInv, LockInv
<1>4. \A b \in Apps : ~(app'[b].pc = "access" /\ created')
  BY <1>2 DEF SessionInv, LockInv
<1> QED
  BY <1>1, <1>2, <1>3, <1>4 DEF SessionInv, LockInv

\* A step of the poll thread keeps them in order when it leaves each lock alone,
\* takes it or gives it back as the places it comes from and goes to say.
LEMMA LocksPolled ==
    ASSUME SessionInv, NEW p \in Polls, UNCHANGED <<created, app>>,
           \A q \in Polls \ {p} : poll'[q] = poll[q],
           \/ /\ owner'["sources"] = owner["sources"]
              /\ poll[p].pc \in {"process", "renew", "forget"} <=> poll'[p].pc \in {"process", "renew", "forget"}
           \/ /\ owner["sources"] = Nil /\ owner'["sources"] = p
              /\ poll'[p].pc \in {"process", "renew", "forget"}
           \/ /\ poll[p].pc \in {"process", "renew", "forget"} /\ owner'["sources"] = Nil
              /\ poll'[p].pc \notin {"process", "renew", "forget"},
           \/ /\ owner'["sched"] = owner["sched"]
              /\ poll[p].pc = "lock sources" <=> poll'[p].pc = "lock sources"
           \/ /\ owner["sched"] = Nil /\ owner'["sched"] = p
              /\ poll'[p].pc = "lock sources"
           \/ /\ poll[p].pc = "lock sources" /\ owner'["sched"] = Nil
              /\ poll'[p].pc # "lock sources"
    PROVE  LockInv'
<1>1. \A q \in Polls : q # Nil /\ \A a \in Apps : a # q /\ a # Nil
  BY SessionAssumption
<1>2. \A q \in Polls : poll'[q].pc \in {"process", "renew", "forget"} => owner'["sources"] = q
  BY <1>1 DEF SessionInv, LockInv
<1>3. \A q \in Polls : owner'["sources"] = q => poll'[q].pc \in {"process", "renew", "forget"}
  BY <1>1 DEF SessionInv, LockInv
<1>4. \A a \in Apps : app[a].pc = "access" /\ created => owner'["sources"] = a
  BY <1>1 DEF SessionInv, LockInv
<1>5. \A a \in Apps : owner'["sources"] = a => app[a].pc = "access" /\ created
  BY <1>1 DEF SessionInv, LockInv
<1>6. \A q \in Polls : poll'[q].pc = "lock sources" => owner'["sched"] = q
  BY <1>1 DEF SessionInv, LockInv
<1>7. \A q \in Polls : owner'["sched"] = q => poll'[q].pc = "lock sources"
  BY ZenonT(60), <1>1 DEF SessionInv, LockInv
<1>8. \A a \in Apps : owner'["sched"] # a
  BY ZenonT(60), <1>1 DEF SessionInv, LockInv
<1> QED
  BY <1>2, <1>3, <1>4, <1>5, <1>6, <1>7, <1>8 DEF LockInv

LEMMA InvUser ==
    ASSUME SessionInv, NEW a \in Apps,
           \/ UserStep(a)
           \/ app[Control].pc \notin ControlLabels /\ (SendBegin(a) \/ AccessBegin(a))
    PROVE  SessionInv'
<1>0. TypeOK' /\ TypeOK
  BY TypeUser DEF SessionInv
<1>1. CASE SendBuild(a)
  <2>1. app[Control].pc \notin ControlLabels
    BY <1>1, InACall DEF SendBuild, UserLabels
  <2>2. app'[a].pc \in {"idle", "count", "mark"} /\ \A b \in Apps \ {a} : app'[b] = app[b]
    BY <1>0, <1>1, AppGoGives, AppIdleGives DEF SendBuild
  <2>3. created
    BY <1>1 DEF SendBuild, SessionInv, CallInv
  <2>4. LockInv'
    BY <1>1, <2>2, LocksKept DEF SendBuild
  <2> QED
    BY <1>0, <1>1, <2>1, <2>2, <2>3, <2>4, UserFrame DEF SendBuild, table, ControlLabels
<1>2. CASE SendFails(a)
  <2>1. app[Control].pc \notin ControlLabels
    BY <1>2, InACall DEF SendFails, UserLabels
  <2>2. app'[a].pc \in {"idle", "count", "mark"} /\ \A b \in Apps \ {a} : app'[b] = app[b]
    BY <1>0, <1>2, AppGoGives, AppIdleGives DEF SendFails
  <2>3. created
    BY <1>2 DEF SendFails, SessionInv, CallInv
  <2>4. LockInv'
    BY <1>2, <2>2, LocksKept DEF SendFails
  <2> QED
    BY <1>0, <1>2, <2>1, <2>2, <2>3, <2>4, UserFrame DEF SendFails, table, ControlLabels
<1>3. CASE SendCount(a)
  <2>1. app[Control].pc \notin ControlLabels
    BY <1>3, InACall DEF SendCount, UserLabels
  <2>2. app'[a].pc \in {"idle", "count", "mark"} /\ \A b \in Apps \ {a} : app'[b] = app[b]
    BY <1>0, <1>3, AppGoGives, AppIdleGives DEF SendCount
  <2>3. created
    BY <1>3 DEF SendCount, SessionInv, CallInv
  <2>4. LockInv'
    BY <1>3, <2>2, LocksKept DEF SendCount
  <2> QED
    BY <1>0, <1>3, <2>1, <2>2, <2>3, <2>4, UserFrame DEF SendCount, table, ControlLabels
<1>4. CASE SendMark(a)
  <2>1. app[Control].pc \notin ControlLabels
    BY <1>4, InACall DEF SendMark, UserLabels
  <2>2. app'[a].pc \in {"idle", "count", "mark"} /\ \A b \in Apps \ {a} : app'[b] = app[b]
    BY <1>0, <1>4, AppGoGives, AppIdleGives DEF SendMark
  <2>3. created
    BY <1>4 DEF SendMark, SessionInv, CallInv
  <2>4. LockInv'
    BY <1>4, <2>2, LocksKept DEF SendMark
  <2> QED
    BY <1>0, <1>4, <2>1, <2>2, <2>3, <2>4, UserFrame DEF SendMark, table, ControlLabels
<1>5. CASE AccessLock(a)
  <2>1. app[Control].pc \notin ControlLabels
    BY <1>5, InACall DEF AccessLock, UserLabels
  <2>2. app'[a].pc = "access" /\ \A b \in Apps \ {a} : app'[b] = app[b]
    BY <1>0, <1>5, AppGoGives DEF AccessLock
  <2>3. created
    BY <1>5 DEF AccessLock, SessionInv, CallInv
  <2>4. owner["sources"] = Nil /\ owner'["sources"] = a /\ owner'["sched"] = owner["sched"]
    BY <1>0, <1>5, LockGives DEF AccessLock
  <2>5. LockInv'
    BY <1>5, <2>2, <2>3, <2>4, LocksTaken DEF AccessLock
  <2> QED
    BY <1>0, <1>5, <2>1, <2>2, <2>3, <2>5, UserFrame DEF AccessLock, table, ControlLabels
<1>6. CASE AccessEnd(a)
  <2>1. app[Control].pc \notin ControlLabels
    BY <1>6, InACall DEF AccessEnd, UserLabels
  <2>2. app'[a].pc = "idle" /\ \A b \in Apps \ {a} : app'[b] = app[b]
    BY <1>0, <1>6, AppIdleGives DEF AccessEnd
  <2>3. CASE created
    <3>1. owner["sources"] = a /\ owner'["sources"] = Nil /\ owner'["sched"] = owner["sched"]
      BY <1>0, <1>6, <2>3, UnlockGives DEF AccessEnd, SessionInv, LockInv
    <3>2. LockInv'
      BY <1>6, <2>2, <3>1, LocksGiven DEF AccessEnd
    <3> QED
      BY <1>0, <1>6, <2>1, <2>2, <3>2, UserFrame DEF AccessEnd, table, ControlLabels
  <2>4. CASE ~created
    <3>1. LockInv'
      BY <1>6, <2>2, <2>4, LocksKept DEF AccessEnd
    <3> QED
      BY <1>0, <1>6, <2>1, <2>2, <3>1, UserFrame DEF AccessEnd, table, ControlLabels
  <2> QED
    BY <2>3, <2>4
<1>7. CASE app[Control].pc \notin ControlLabels /\ SendBegin(a)
  <2>1. app[a].pc = "idle" /\ app'[a].pc = "send" /\ \A b \in Apps \ {a} : app'[b] = app[b]
    BY <1>0, <1>7, AppGoGives DEF SendBegin, Idle
  <2>2. LockInv'
    BY <1>7, <2>1, LocksKept DEF SendBegin
  <2> QED
    BY <1>0, <1>7, <2>1, <2>2, UserFrame DEF SendBegin, table, ControlLabels
<1>8. CASE app[Control].pc \notin ControlLabels /\ AccessBegin(a)
  <2>1. /\ app[a].pc = "idle"
        /\ app'[a].pc = IF created THEN "want" ELSE "access"
        /\ \A b \in Apps \ {a} : app'[b] = app[b]
    BY <1>0, <1>8, AppGoGives DEF AccessBegin, Idle
  <2>2. LockInv'
    BY <1>8, <2>1, LocksKept DEF AccessBegin
  <2> QED
    BY <1>0, <1>8, <2>1, <2>2, UserFrame DEF AccessBegin, table, ControlLabels
<1> QED
  BY <1>1, <1>2, <1>3, <1>4, <1>5, <1>6, <1>7, <1>8 DEF UserStep

LEMMA InvPoll ==
    ASSUME SessionInv, NEW p \in Polls, PollStep(p)
    PROVE  SessionInv'
<1>0. TypeOK' /\ TypeOK
  BY TypePoll DEF SessionInv
<1> DEFINE Frame == /\ \A q \in Polls \ {p} : poll'[q] = poll[q]
                    /\ poll'[p].killed = poll[p].killed
<1>1. CASE PollTest(p)
  <2>1. poll[p].pc = "test" /\ poll'[p].pc \in {"ended", "lock sched"} /\ Frame
    BY <1>0, <1>1, PollGoGives DEF PollTest
  <2>2. UNCHANGED owner
    BY <1>0, <1>1 DEF PollTest
  <2>3. LockInv'
    BY <1>1, <2>1, <2>2, LocksPolled DEF PollTest
  <2> QED
    BY <1>0, <1>1, <2>1, <2>3, PollFrame DEF PollTest, table
<1>2. CASE PollLockSched(p)
  <2>1. poll[p].pc = "lock sched" /\ poll'[p].pc \in {"lock sources"} /\ Frame
    BY <1>0, <1>2, PollGoGives DEF PollLockSched
  <2>2. owner["sched"] = Nil /\ owner'["sched"] = p /\ owner'["sources"] = owner["sources"]
    BY <1>0, <1>2, LockGives DEF PollLockSched
  <2>3. LockInv'
    BY <1>2, <2>1, <2>2, LocksPolled DEF PollLockSched
  <2> QED
    BY <1>0, <1>2, <2>1, <2>3, PollFrame DEF PollLockSched, table
<1>3. CASE PollDelay(p)
  <2>1. poll[p].pc = "lock sources" /\ poll'[p].pc \in {"wait"} /\ Frame
    BY <1>0, <1>3, PollGoGives DEF PollDelay
  <2>2. owner'["sched"] = Nil /\ owner'["sources"] = owner["sources"]
    BY <1>0, <1>3, UnlockGives DEF PollDelay
  <2>3. LockInv'
    BY <1>3, <2>1, <2>2, LocksPolled DEF PollDelay
  <2> QED
    BY <1>0, <1>3, <2>1, <2>3, PollFrame DEF PollDelay, table
<1>4. CASE PollWait(p)
  <2>1. poll[p].pc = "wait" /\ poll'[p].pc \in {"lock process"} /\ Frame
    BY <1>0, <1>4, PollGoGives DEF PollWait
  <2>2. UNCHANGED owner
    BY <1>0, <1>4 DEF PollWait
  <2>3. LockInv'
    BY <1>4, <2>1, <2>2, LocksPolled DEF PollWait
  <2> QED
    BY <1>0, <1>4, <2>1, <2>3, PollFrame DEF PollWait, table
<1>5. CASE PollLockProcess(p)
  <2>1. poll[p].pc = "lock process" /\ poll'[p].pc \in {"process"} /\ Frame
    BY <1>0, <1>5, PollGoGives DEF PollLockProcess
  <2>2. owner["sources"] = Nil /\ owner'["sources"] = p /\ owner'["sched"] = owner["sched"]
    BY <1>0, <1>5, LockGives DEF PollLockProcess
  <2>3. LockInv'
    BY <1>5, <2>1, <2>2, LocksPolled DEF PollLockProcess
  <2> QED
    BY <1>0, <1>5, <2>1, <2>3, PollFrame DEF PollLockProcess, table
<1>6. CASE ProcessPacket(p)
  <2>1. LockInv'
    BY <1>6 DEF ProcessPacket, SessionInv, LockInv
  <2>2. poll[p].pc = "process" /\ ~poll[p].killed
    BY <1>6 DEF ProcessPacket, SessionInv, PollInv
  <2> QED
    BY <1>0, <1>6, <2>1, <2>2, PollFrame DEF ProcessPacket, table
<1>7. CASE ProcessCollision(p)
  <2>1. poll[p].pc = "process" /\ poll'[p].pc \in {"renew"} /\ Frame
    BY <1>0, <1>7, PollGoGives DEF ProcessCollision
  <2>2. UNCHANGED owner
    BY <1>0, <1>7 DEF ProcessCollision
  <2>3. LockInv'
    BY <1>7, <2>1, <2>2, LocksPolled DEF ProcessCollision
  <2> QED
    BY <1>0, <1>7, <2>1, <2>3, PollFrame DEF ProcessCollision, table
<1>8. CASE ProcessRenew(p)
  <2>1. poll[p].pc = "renew" /\ poll'[p].pc \in {"forget"} /\ Frame
    BY <1>0, <1>8, PollGoGives DEF ProcessRenew
  <2>2. UNCHANGED owner
    BY <1>0, <1>8 DEF ProcessRenew
  <2>3. LockInv'
    BY <1>8, <2>1, <2>2, LocksPolled DEF ProcessRenew
  <2> QED
    BY <1>0, <1>8, <2>1, <2>3, PollFrame DEF ProcessRenew, table
<1>9. CASE ProcessNotDue(p)
  <2>1. poll[p].pc = "process" /\ poll'[p].pc \in {"test"} /\ Frame
    BY <1>0, <1>9, PollGoGives DEF ProcessNotDue, Timeouts
  <2>2. owner'["sources"] = Nil /\ owner'["sched"] = owner["sched"]
    BY <1>0, <1>9, UnlockGives DEF ProcessNotDue
  <2>3. LockInv'
    BY <1>9, <2>1, <2>2, LocksPolled DEF ProcessNotDue
  <2> QED
    BY <1>0, <1>9, <2>1, <2>3, PollFrame DEF ProcessNotDue, table
<1>10. CASE ProcessReport(p)
  <2>1. poll[p].pc = "process" /\ poll'[p].pc \in {"test"} /\ Frame
    BY <1>0, <1>10, PollGoGives DEF ProcessReport, Timeouts
  <2>2. owner'["sources"] = Nil /\ owner'["sched"] = owner["sched"]
    BY <1>0, <1>10, UnlockGives DEF ProcessReport
  <2>3. LockInv'
    BY <1>10, <2>1, <2>2, LocksPolled DEF ProcessReport
  <2> QED
    BY <1>0, <1>10, <2>1, <2>3, PollFrame DEF ProcessReport, table
<1>11. CASE ProcessBye(p)
  <2>1. poll[p].pc = "process" /\ poll'[p].pc \in {"test"} /\ Frame
    BY <1>0, <1>11, PollGoGives DEF ProcessBye, Timeouts
  <2>2. owner'["sources"] = Nil /\ owner'["sched"] = owner["sched"]
    BY <1>0, <1>11, UnlockGives DEF ProcessBye
  <2>3. LockInv'
    BY <1>11, <2>1, <2>2, LocksPolled DEF ProcessBye
  <2> QED
    BY <1>0, <1>11, <2>1, <2>3, PollFrame DEF ProcessBye, table
<1>12. CASE PollFails(p)
  <2>1. poll[p].pc \in {"wait", "process"} /\ poll'[p].pc = "ended" /\ Frame
    BY <1>0, <1>12, PollGoGives DEF PollFails
  <2>2. ASSUME poll[p].pc = "wait" PROVE LockInv'
    <3>1. UNCHANGED owner
      BY <1>12, <2>2 DEF PollFails
    <3> QED
      BY <1>12, <2>1, <2>2, <3>1, LocksPolled DEF PollFails
  <2>3. ASSUME poll[p].pc = "process" PROVE LockInv'
    <3>1. owner'["sources"] = Nil /\ owner'["sched"] = owner["sched"]
      BY <1>0, <1>12, <2>3, UnlockGives DEF PollFails
    <3> QED
      BY <1>12, <2>1, <2>3, <3>1, LocksPolled DEF PollFails
  <2>4. LockInv'
    BY <2>1, <2>2, <2>3
  <2> QED
    BY <1>0, <1>12, <2>1, <2>4, PollFrame DEF PollFails, table
<1>13. ~PollCancelled(p)
  BY DEF PollCancelled, SessionInv, PollInv
<1>14. CASE ProcessForget(p)
  <2>1. poll[p].pc = "forget" /\ poll'[p].pc \in {"process"} /\ Frame
    BY <1>0, <1>14, PollGoGives DEF ProcessForget
  <2>2. UNCHANGED owner
    BY <1>0, <1>14 DEF ProcessForget
  <2>3. LockInv'
    BY <1>14, <2>1, <2>2, LocksPolled DEF ProcessForget
  <2> QED
    BY <1>0, <1>14, <2>1, <2>3, PollFrame DEF ProcessForget, table
<1> QED
  BY <1>1, <1>2, <1>3, <1>4, <1>5, <1>6, <1>7, <1>8, <1>9, <1>10, <1>11, <1>12, <1>13, <1>14
  DEF PollStep

\* In a create or a leave the other threads are idle: no lock is held but the
\* scheduler's, by the poll thread at "lock sources".
LEMMA AloneGives ==
    ASSUME SessionInv, app[Control].pc \in ControlLabels
    PROVE  /\ \A a \in Apps : app[a].pc # "access" /\ owner["sources"] # a
           /\ \A a \in Apps \ {Control} : app[a].pc = "idle"
<1>1. \A a \in Apps \ {Control} : app[a] = Idle
  BY DEF SessionInv, AloneInv, Alone
<1>2. \A a \in Apps \ {Control} : app[a].pc = "idle"
  <2>1. Idle.pc = "idle"
    BY DEF Idle
  <2> QED
    BY <1>1, <2>1
<1>3. app[Control].pc # "access"
  BY DEF ControlLabels
<1> QED
  BY <1>2, <1>3 DEF SessionInv, LockInv

\* What Control does to the session alone, its poll thread left where it is.
LEMMA ControlLocks ==
    ASSUME SessionInv, app[Control].pc \in ControlLabels \/ (app[Control] = Idle /\ Alone),
           UNCHANGED owner,
           \A a \in Apps \ {Control} : app'[a] = app[a],
           app'[Control].pc # "access",
           \A p \in Polls :
              \/ poll'[p].pc = poll[p].pc
              \/ /\ poll[p].pc \notin {"process", "renew", "forget", "lock sources"}
                 /\ poll'[p].pc \notin {"process", "renew", "forget", "lock sources"}
    PROVE  LockInv'
<1>1. \A a \in Apps : app[a].pc # "access" /\ owner["sources"] # a
  <2>1. CASE app[Control].pc \in ControlLabels
    BY <2>1, AloneGives
  <2>2. CASE app[Control] = Idle /\ Alone
    <3>1. \A a \in Apps : app[a].pc # "access"
      <4>1. Idle.pc # "access"
        BY DEF Idle
      <4> QED
        BY <2>2, <4>1 DEF Alone
    <3> QED
      BY <3>1 DEF SessionInv, LockInv
  <2> QED
    BY <2>1, <2>2
<1>2. \A a \in Apps : app'[a].pc # "access"
  BY <1>1
<1> QED
  BY <1>1, <1>2 DEF SessionInv, LockInv

\* Nobody else is in a call before and after a step of Control.
LEMMA ControlCalls ==
    ASSUME \A a \in Apps \ {Control} : app[a] = Idle /\ app'[a] = app[a],
           app'[Control].pc \notin UserLabels
    PROVE  Alone' /\ AloneInv' /\ CallInv'
<1>1. \A a \in Apps : app'[a].pc \notin {"want", "send", "count", "mark"}
  BY DEF Idle, UserLabels
<1> QED
  BY <1>1 DEF Alone, AloneInv, CallInv

LEMMA InvCreate ==
    ASSUME SessionInv, (Alone /\ CreateBegin) \/ CreateFails \/ CreateStart \/ CreateDone
    PROVE  SessionInv'
<1>0. TypeOK' /\ TypeOK
  BY TypeControl DEF SessionInv, ControlStep
<1>1. CASE Alone /\ CreateBegin
  <2>1. app'[Control].pc = "create" /\ \A a \in Apps \ {Control} : app'[a] = app[a]
    BY <1>0, <1>1, AppGoGives, SessionAssumption DEF CreateBegin
  <2>2. app[Control].pc = "idle" /\ ~created
    BY <1>1 DEF CreateBegin, Idle
  <2>3. transmitter = Nil /\ \A p \in Polls : poll[p] = NoPoll
    <3>1. transmitter = Nil
      BY <2>2 DEF SessionInv, LifeInv, At
    <3> QED
      BY <3>1, SessionAssumption DEF SessionInv, PollInv
  <2>4. Alone' /\ AloneInv' /\ CallInv'
    BY <1>1, <2>1, ControlCalls DEF Alone, UserLabels
  <2>5. LockInv'
    BY <1>1, <2>1, ControlLocks DEF CreateBegin
  <2>6. transmitter' \in Polls /\ UNCHANGED <<created, poll, byepackets, crashed>>
    BY <1>1 DEF CreateBegin, table
  <2>7. LifeInv'
    BY <2>1, <2>2, <2>6 DEF LifeInv, At, ControlLabels
  <2>8. PollInv'
    BY <2>1, <2>2, <2>3, <2>6 DEF PollInv, At, NoPoll
  <2>9. ByeInv'
    BY <2>1, <2>2, <2>6 DEF SessionInv, ByeInv, At
  <2> QED
    BY <1>0, <2>4, <2>5, <2>6, <2>7, <2>8, <2>9 DEF SessionInv
<1>2. CASE CreateFails
  <2>1. app'[Control].pc = "idle" /\ \A a \in Apps \ {Control} : app'[a] = app[a]
    BY <1>0, <1>2, AppIdleGives, SessionAssumption DEF CreateFails
  <2>2. app[Control].pc = "create" /\ app[Control].pc \in ControlLabels
    BY <1>2 DEF CreateFails, ControlLabels
  <2>3. Alone /\ ~created
    BY <2>2 DEF SessionInv, AloneInv, LifeInv, At
  <2>4. Alone' /\ AloneInv' /\ CallInv'
    BY <2>1, <2>3, ControlCalls DEF Alone, UserLabels
  <2>5. LockInv'
    BY <1>2, <2>1, <2>2, ControlLocks DEF CreateFails
  <2>6. transmitter' = Nil /\ UNCHANGED <<created, poll, byepackets, crashed>>
    BY <1>2 DEF CreateFails, table
  <2>7. LifeInv'
    BY <2>1, <2>3, <2>6 DEF LifeInv, At, ControlLabels
  <2>8. PollInv'
    <3>1. \A p \in Polls : poll[p] = NoPoll
      BY <2>2 DEF SessionInv, PollInv, At
    <3> QED
      BY <2>1, <2>3, <2>6, <3>1 DEF PollInv, At, NoPoll
  <2>9. ByeInv'
    BY <2>1, <2>2, <2>3, <2>6 DEF SessionInv, ByeInv, At
  <2> QED
    BY <1>0, <2>4, <2>5, <2>6, <2>7, <2>8, <2>9 DEF SessionInv
<1>3. CASE CreateStart
  <2>1. app'[Control].pc = "started" /\ \A a \in Apps \ {Control} : app'[a] = app[a]
    BY <1>0, <1>3, AppGoGives, SessionAssumption DEF CreateStart
  <2>2. app[Control].pc = "create" /\ app[Control].pc \in ControlLabels
    BY <1>3 DEF CreateStart, ControlLabels
  <2>3. Alone /\ ~created /\ transmitter \in Polls /\ poll[transmitter] = NoPoll
    BY <2>2 DEF SessionInv, AloneInv, LifeInv, PollInv, At
  <2>4. Alone' /\ AloneInv' /\ CallInv'
    BY <2>1, <2>3, ControlCalls DEF Alone, UserLabels
  <2>5. /\ poll'[transmitter].pc = "test"
        /\ poll'[transmitter].killed = poll[transmitter].killed
        /\ \A q \in Polls \ {transmitter} : poll'[q] = poll[q]
    BY <1>0, <1>3, <2>3, PollGoGives DEF CreateStart
  <2>6. LockInv'
    <3>1. poll[transmitter].pc = "none"
      BY <2>3 DEF NoPoll
    <3>2. UNCHANGED owner
      BY <1>3 DEF CreateStart
    <3>3. \A p \in Polls :
            \/ poll'[p].pc = poll[p].pc
            \/ /\ poll[p].pc \notin {"process", "renew", "forget", "lock sources"}
               /\ poll'[p].pc \notin {"process", "renew", "forget", "lock sources"}
      BY <2>5, <3>1
    <3> QED
      BY <2>1, <2>2, <3>2, <3>3, ControlLocks
  <2>7. UNCHANGED <<created, transmitter, byepackets, crashed>>
    BY <1>3 DEF CreateStart
  <2>8. LifeInv'
    BY <2>1, <2>3, <2>7 DEF LifeInv, At, ControlLabels
  <2>9. PollInv'
    BY <2>1, <2>3, <2>5, <2>7 DEF SessionInv, PollInv, At
  <2>10. ByeInv'
    BY <2>1 DEF ByeInv, At
  <2> QED
    BY <1>0, <2>4, <2>6, <2>7, <2>8, <2>9, <2>10 DEF SessionInv
<1>4. CASE CreateDone
  <2>1. app'[Control].pc = "idle" /\ \A a \in Apps \ {Control} : app'[a] = app[a]
    BY <1>0, <1>4, AppIdleGives, SessionAssumption DEF CreateDone
  <2>2. app[Control].pc = "started" /\ app[Control].pc \in ControlLabels
    BY <1>4 DEF CreateDone, ControlLabels
  <2>3. Alone /\ transmitter \in Polls /\ transmitter # Nil /\ poll[transmitter].pc # "none"
    BY <2>2, SessionAssumption DEF SessionInv, AloneInv, LifeInv, PollInv, At
  <2>4. Alone' /\ AloneInv' /\ CallInv'
    BY <2>1, <2>3, ControlCalls DEF Alone, UserLabels
  <2>5. LockInv'
    BY <1>4, <2>1, <2>2, ControlLocks DEF CreateDone
  <2>6. created' /\ UNCHANGED <<transmitter, poll, byepackets, crashed>>
    BY <1>4 DEF CreateDone, table
  <2>7. LifeInv'
    BY <2>1, <2>3, <2>6 DEF LifeInv, At, ControlLabels
  <2>8. PollInv'
    BY <2>1, <2>3, <2>6 DEF SessionInv, PollInv, At
  <2>9. ByeInv'
    BY <2>6 DEF ByeInv, At
  <2> QED
    BY <1>0, <2>4, <2>5, <2>6, <2>7, <2>8, <2>9 DEF SessionInv
<1> QED
  BY <1>1, <1>2, <1>3, <1>4

LEMMA InvLeave ==
    ASSUME SessionInv,
           \/ \E op \in Leaves : Alone /\ LeaveBegin(op)
           \/ LeaveStopped \/ LeaveBye \/ LeaveFlush \/ LeaveDelete \/ LeaveClear
           \/ DestoryBye
    PROVE  SessionInv'
<1>0. TypeOK' /\ TypeOK
  BY TypeControl DEF SessionInv, ControlStep
<1>1. ASSUME NEW op \in Leaves, Alone, LeaveBegin(op) PROVE SessionInv'
  <2>1. app'[Control].pc = "stopping" /\ \A a \in Apps \ {Control} : app'[a] = app[a]
    BY <1>0, <1>1, SessionAssumption DEF LeaveBegin, TypeOK
  <2>2. app[Control].pc = "idle" /\ app[Control] = Idle /\ created
    BY <1>1 DEF LeaveBegin, Idle
  <2>3. transmitter \in Polls /\ poll[transmitter].pc # "none"
    BY <2>2 DEF SessionInv, LifeInv, PollInv, At
  <2>4. Alone' /\ AloneInv' /\ CallInv'
    BY <1>1, <2>1, ControlCalls DEF Alone, UserLabels
  <2>5. /\ poll'[transmitter].pc = poll[transmitter].pc
        /\ poll'[transmitter].killed = poll[transmitter].killed
        /\ \A q \in Polls \ {transmitter} : poll'[q] = poll[q]
    BY ZenonT(60), <1>0, <1>1, <2>3 DEF LeaveBegin, TypeOK, Poll
  <2>6. LockInv'
    BY <1>1, <2>1, <2>2, <2>5, ControlLocks DEF LeaveBegin
  <2>7. UNCHANGED <<created, transmitter, byepackets, crashed>>
    BY <1>1 DEF LeaveBegin, table
  <2>8. LifeInv'
    BY <2>1, <2>2, <2>3, <2>7 DEF LifeInv, At, ControlLabels
  <2>9. PollInv'
    BY <2>1, <2>2, <2>3, <2>5, <2>7 DEF SessionInv, PollInv, At
  <2>10. ByeInv'
    BY <2>2, <2>7 DEF ByeInv
  <2> QED
    BY <1>0, <2>4, <2>6, <2>7, <2>8, <2>9, <2>10 DEF SessionInv
<1>2. CASE LeaveStopped
  <2>1. /\ app'[Control].pc \in {"bye", "delete"}
        /\ \A a \in Apps \ {Control} : app'[a] = app[a]
    BY <1>0, <1>2, AppGoGives, SessionAssumption DEF LeaveStopped, AfterStop
  <2>2. app[Control].pc = "stopping" /\ app[Control].pc \in ControlLabels
    BY <1>2 DEF LeaveStopped, ControlLabels
  <2>3. Alone /\ created /\ transmitter \in Polls
    BY <2>2 DEF SessionInv, AloneInv, LifeInv, At
  <2>4. Alone' /\ AloneInv' /\ CallInv'
    BY <2>1, <2>3, ControlCalls DEF Alone, UserLabels
  <2>5. LockInv'
    BY <1>2, <2>1, <2>2, ControlLocks DEF LeaveStopped
  <2>6. /\ poll[transmitter].pc = "ended"
        /\ UNCHANGED <<created, transmitter, poll, byepackets, crashed>>
    BY <1>2 DEF LeaveStopped, table
  <2>7. LifeInv'
    BY <2>1, <2>3, <2>6 DEF LifeInv, At, ControlLabels
  <2>8. PollInv'
    BY <2>1, <2>3, <2>6 DEF SessionInv, PollInv, At
  <2>9. ByeInv'
    BY <2>3, <2>6 DEF ByeInv
  <2> QED
    BY <1>0, <2>4, <2>5, <2>6, <2>7, <2>8, <2>9 DEF SessionInv
<1>3. CASE LeaveBye \/ LeaveFlush
  <2>1. /\ app'[Control].pc \in {"flush", "delete"}
        /\ \A a \in Apps \ {Control} : app'[a] = app[a]
    BY <1>0, <1>3, AppGoGives, SessionAssumption DEF LeaveBye, LeaveFlush
  <2>2. app[Control].pc \in {"bye", "flush"} /\ app[Control].pc \in ControlLabels
    BY <1>3 DEF LeaveBye, LeaveFlush, ControlLabels
  <2>3. Alone /\ created /\ transmitter \in Polls /\ poll[transmitter].pc = "ended"
    BY <2>2 DEF SessionInv, AloneInv, LifeInv, PollInv, At
  <2>4. Alone' /\ AloneInv' /\ CallInv'
    BY <2>1, <2>3, ControlCalls DEF Alone, UserLabels
  <2>5. UNCHANGED <<created, transmitter, poll, owner, crashed>>
    BY <1>3 DEF LeaveBye, LeaveFlush
  <2>6. LockInv'
    BY <2>1, <2>2, <2>5, ControlLocks
  <2>7. LifeInv'
    BY <2>1, <2>3, <2>5 DEF LifeInv, At, ControlLabels
  <2>8. PollInv'
    BY <2>1, <2>3, <2>5 DEF SessionInv, PollInv, At
  <2>9. ByeInv'
    BY <2>3, <2>5 DEF ByeInv
  <2> QED
    BY <1>0, <2>4, <2>5, <2>6, <2>7, <2>8, <2>9 DEF SessionInv
<1>4. CASE LeaveDelete
  <2>1. app'[Control].pc = "clear" /\ \A a \in Apps \ {Control} : app'[a] = app[a]
    BY <1>0, <1>4, AppGoGives, SessionAssumption DEF LeaveDelete
  <2>2. app[Control].pc = "delete" /\ app[Control].pc \in ControlLabels
    BY <1>4 DEF LeaveDelete, ControlLabels
  <2>3. Alone /\ created /\ transmitter \in Polls /\ poll[transmitter].pc = "ended"
    BY <2>2 DEF SessionInv, AloneInv, LifeInv, PollInv, At
  <2>4. Alone' /\ AloneInv' /\ CallInv'
    BY <2>1, <2>3, ControlCalls DEF Alone, UserLabels
  <2>5. /\ poll'[transmitter] = NoPoll
        /\ \A q \in Polls \ {transmitter} : poll'[q] = poll[q]
    BY <1>0, <1>4, <2>3 DEF LeaveDelete, TypeOK
  <2>6. UNCHANGED <<created, owner, byepackets, crashed>> /\ transmitter' = Nil
    BY <1>4 DEF LeaveDelete, table
  <2>7. NoPoll.pc = "none" /\ ~NoPoll.killed
    BY DEF NoPoll
  <2>8. LockInv'
    BY <2>1, <2>2, <2>3, <2>5, <2>6, <2>7, ControlLocks
  <2>9. LifeInv'
    BY <2>1, <2>3, <2>6 DEF LifeInv, At, ControlLabels
  <2>10. PollInv'
    <3>1. \A p \in Polls : poll'[p] = NoPoll
      BY <2>3, <2>5 DEF SessionInv, PollInv
    <3> QED
      BY <2>1, <2>7, <3>1 DEF PollInv, At
  <2>11. ByeInv'
    BY <2>3, <2>6 DEF ByeInv
  <2> QED
    BY <1>0, <2>4, <2>6, <2>8, <2>9, <2>10, <2>11 DEF SessionInv
<1>5. CASE LeaveClear
  <2>1. /\ app'[Control].pc \in {"idle", "byedestroy"}
        /\ \A a \in Apps \ {Control} : app'[a] = app[a]
    BY <1>0, <1>5, SessionAssumption DEF LeaveClear, TypeOK, App, Idle
  <2>2. app[Control].pc = "clear" /\ app[Control].pc \in ControlLabels
    BY <1>5 DEF LeaveClear, ControlLabels
  <2>3. Alone /\ transmitter = Nil
    BY <2>2 DEF SessionInv, AloneInv, LifeInv, At
  <2>4. Alone' /\ AloneInv' /\ CallInv'
    BY <2>1, <2>3, ControlCalls DEF Alone, UserLabels
  <2>5. LockInv'
    BY <1>5, <2>1, <2>2, ControlLocks DEF LeaveClear
  <2>6. byepackets' = <<>> /\ ~created' /\ UNCHANGED <<transmitter, poll, crashed>>
    BY <1>5 DEF LeaveClear
  <2>7. LifeInv'
    BY <2>1, <2>3, <2>6 DEF LifeInv, At, ControlLabels
  <2>8. PollInv'
    BY <2>1, <2>3, <2>6 DEF SessionInv, PollInv, At
  <2>9. ByeInv'
    BY <2>6 DEF ByeInv
  <2> QED
    BY <1>0, <2>4, <2>5, <2>6, <2>7, <2>8, <2>9 DEF SessionInv
<1>6. CASE DestoryBye
  <2>1. app'[Control].pc = "idle" /\ \A a \in Apps \ {Control} : app'[a] = app[a]
    BY <1>0, <1>6, AppIdleGives, SessionAssumption DEF DestoryBye
  <2>2. app[Control].pc = "byedestroy" /\ app[Control].pc \in ControlLabels /\ ~created
    BY <1>6 DEF DestoryBye, ControlLabels
  <2>3. Alone /\ transmitter = Nil
    BY <2>2 DEF SessionInv, AloneInv, LifeInv, At
  <2>4. Alone' /\ AloneInv' /\ CallInv'
    BY <2>1, <2>3, ControlCalls DEF Alone, UserLabels
  <2>5. LockInv'
    BY <1>6, <2>1, <2>2, ControlLocks DEF DestoryBye
  <2>6. UNCHANGED <<created, transmitter, poll, byepackets, crashed>>
    BY <1>6 DEF DestoryBye, table
  <2>7. LifeInv'
    BY <2>1, <2>2, <2>3, <2>6 DEF LifeInv, At, ControlLabels
  <2>8. PollInv'
    BY <2>1, <2>2, <2>3, <2>6 DEF SessionInv, PollInv, At
  <2>9. ByeInv'
    BY <2>1, <2>2, <2>6 DEF SessionInv, ByeInv, At
  <2> QED
    BY <1>0, <2>4, <2>5, <2>6, <2>7, <2>8, <2>9 DEF SessionInv
<1> QED
  BY <1>1, <1>2, <1>3, <1>4, <1>5, <1>6

\* The poll thread gets its locks while Stop waits, since nobody else has one:
\* it is not cancelled.
LEMMA NeverKilled == SessionInv => ~LeaveKill
<1> SUFFICES ASSUME SessionInv, LeaveKill PROVE FALSE
  OBVIOUS
<1>1. At("stopping") /\ app[Control].pc \in ControlLabels
  BY DEF LeaveKill, At, ControlLabels
<1>2. created /\ transmitter \in Polls
  BY <1>1 DEF SessionInv, LifeInv, At
<1>3. PICK l \in {"sources", "sched"} : BlockedOn(transmitter, l)
  BY DEF LeaveKill
<1>4. PICK p \in Polls : owner[l] = p
  <2>1. owner[l] \in Polls
    <3>1. owner[l] \in Apps \cup Polls /\ owner[l] # Nil
      BY <1>3 DEF BlockedOn, Locked, SessionInv, TypeOK
    <3>2. owner[l] \notin Apps
      BY <1>1, AloneGives DEF SessionInv, LockInv
    <3> QED
      BY <3>1, <3>2
  <2> QED
    BY <2>1
<1>5. poll[p].pc \in {"process", "renew", "forget", "lock sources"}
  BY <1>4 DEF SessionInv, LockInv
<1>6. p = transmitter
  BY <1>5, RunningThread
<1> QED
  BY <1>3, <1>4, <1>6 DEF BlockedOn, SessionInv, LockInv

LEMMA NeverDeleted == SessionInv => ~UsesDeleted
<1> SUFFICES ASSUME SessionInv PROVE ~UsesDeleted
  OBVIOUS
<1>1. \A p \in Polls : ~poll[p].killed
  BY DEF SessionInv, PollInv
<1>2. \A p \in Polls : poll[p].pc = "process" => transmitter # Nil
  BY RunningThread, SessionAssumption
<1>3. \A a \in Apps : app[a].pc = "send" => transmitter # Nil
  <2> SUFFICES ASSUME NEW a \in Apps, app[a].pc = "send" PROVE transmitter # Nil
    OBVIOUS
  <2>1. created /\ app[Control].pc \notin ControlLabels
    BY InACall DEF SessionInv, CallInv, UserLabels
  <2> QED
    BY <2>1 DEF SessionInv, LifeInv, At, ControlLabels
<1> QED
  BY <1>1, <1>2, <1>3 DEF UsesDeleted

LEMMA InvNext == SessionInv /\ [OrderlyNext]_vars => SessionInv'
<1> SUFFICES ASSUME SessionInv, [OrderlyNext]_vars PROVE SessionInv'
  OBVIOUS
<1>1. CASE UNCHANGED vars
  BY ZenonT(60), <1>1 DEF vars, table, SessionInv, TypeOK, AloneInv, Alone, LifeInv, CallInv, PollInv,
              LockInv, ByeInv, At
<1>2. CASE OrderlyNext
  <2>1. ~Crash
    BY NeverDeleted DEF Crash
  <2>2. ASSUME ControlStep PROVE SessionInv'
    BY <2>2, InvCreate, InvLeave, NeverKilled DEF ControlStep
  <2>3. ASSUME Step PROVE SessionInv'
    BY <2>1, <2>2, <2>3, InvUser, InvPoll DEF Step
  <2> QED
    BY <1>2, <2>3, InvCreate, InvLeave, InvUser DEF OrderlyNext
<1> QED
  BY <1>1, <1>2

LEMMA SessionAlways == OrderlySpec => []SessionInv
  BY InvInit, InvNext, PTL DEF OrderlySpec

-----------------------------------------------------------------------------
\* With an orderly client no two threads are ever at work on the source table,
\* the Clear of Destroy, which takes no lock, included.
THEOREM TableSafety == OrderlySpec => []TableGuarded
<1>1. SessionInv => TableGuarded
  <2> SUFFICES ASSUME SessionInv, NEW s \in OnTable, NEW t \in OnTable PROVE s = t
    BY DEF TableGuarded
  <2>1. CASE At("clear")
    <3>1. \A u \in OnTable : u = Control
      <4>1. \A p \in Polls : poll[p].pc = "none"
        BY <2>1, RunningThread, SessionAssumption DEF SessionInv, LifeInv
      <4>2. \A a \in Apps : app[a].pc # "access"
        BY <2>1, AloneGives DEF At, ControlLabels
      <4> QED
        BY <4>1, <4>2 DEF OnTable
    <3> QED
      BY <3>1
  <2>2. CASE ~At("clear")
    <3>1. \A u \in OnTable : owner["sources"] = u
      BY <2>2 DEF OnTable, At, SessionInv, LockInv
    <3> QED
      BY <3>1
  <2> QED
    BY <2>1, <2>2
<1> QED
  BY <1>1, SessionAlways, PTL

\* With an orderly client no thread uses a transmitter or a poll thread object
\* that Destroy has deleted, and so the process does not die of it.
THEOREM NoUseAfterDelete == OrderlySpec => []NothingDeletedIsUsed
<1>1. SessionInv => NothingDeletedIsUsed
  BY NeverDeleted DEF NothingDeletedIsUsed
<1> QED
  BY <1>1, SessionAlways, PTL

\* A session an orderly client has left leaves no lock held, no poll thread and
\* no BYE to the next one.
THEOREM CleanLeave == OrderlySpec => []NothingLeftBehind
<1>1. SessionInv => NothingLeftBehind
  <2> SUFFICES ASSUME SessionInv, ~created, app[Control] = Idle PROVE
        /\ \A p \in Polls : poll[p] = NoPoll
        /\ Alone => ~Locked("sources") /\ ~Locked("sched")
        /\ byepackets = <<>>
    BY DEF NothingLeftBehind
  <2>1. app[Control].pc = "idle"
    BY DEF Idle
  <2>2. transmitter = Nil
    BY <2>1 DEF SessionInv, LifeInv, At
  <2>3. \A p \in Polls : poll[p] = NoPoll
    BY <2>2, SessionAssumption DEF SessionInv, PollInv
  <2>4. \A l \in {"sources", "sched"} : owner[l] = Nil
    <3>1. \A l \in {"sources", "sched"} : owner[l] \in Apps \cup Polls \cup {Nil}
      BY DEF SessionInv, TypeOK
    <3>2. \A p \in Polls : poll[p].pc = "none"
      BY <2>3 DEF NoPoll
    <3>3. \A p \in Polls : owner["sources"] # p /\ owner["sched"] # p
      BY <3>2 DEF SessionInv, LockInv
    <3>4. \A a \in Apps : owner["sources"] # a /\ owner["sched"] # a
      BY DEF SessionInv, LockInv
    <3> QED
      BY <3>1, <3>3, <3>4
  <2>5. byepackets = <<>>
    BY <2>1 DEF SessionInv, ByeInv, At
  <2> QED
    BY <2>3, <2>4, <2>5 DEF Locked
<1> QED
  BY <1>1, SessionAlways, PTL
=============================================================================
