----------------------------- MODULE RtpHandles -----------------------------
(***************************************************************************)
(* The RTP delivery API (src/rtp/unicast and src/rtp/multicast): a fixed   *)
(* table of handles with one session each, shared without a lock by the    *)
(* application's threads and by one receiver thread per open.  A receiver  *)
(* thread reads the packets of a session under its source lock and calls   *)
(* the registered function for each, lock in hand; from that function it   *)
(* may call the API as any other thread.                                   *)
(*                                                                         *)
(* A session is seen from outside: whether it is created, who has its      *)
(* source lock, the packets of each source.  Its poll thread takes the     *)
(* lock and gives it back in one step; RtpSession has what is inside.      *)
(***************************************************************************)
EXTENDS Integers

CONSTANTS
    MaxHandles,     \* MAX_RTP_*_ONLINE_NUM
    Apps,           \* the application threads that call the API
    Controls,       \* those of Apps that call init, deinit, create, destory
    Threads,        \* pthread ids of receiver threads
    Callbacks,      \* the functions an application registers
    MaxSources,     \* bound: sources one session hears
    MaxPackets,     \* bound: packets one source has waiting
    Multicast,      \* TRUE for rtp_multicast_api.cpp
    Nil             \* NULL, no thread and the thread id 0

ASSUME ConstantsAssumption ==
    /\ MaxHandles \in Nat \ {0}
    /\ MaxSources \in Nat
    /\ MaxPackets \in Nat
    /\ Controls \subseteq Apps
    /\ Apps \cap Threads = {}
    /\ Multicast \in BOOLEAN
    /\ Nil \notin Callbacks \cup Threads \cup Apps

VARIABLES
    slot,       \* the static arrays of the API, one record per handle
    params,     \* the one static int through which opens name their handle
    session,    \* the sessions, one per handle
    thread,     \* the receiver threads
    call,       \* the API call each application or receiver thread is in
    lost,       \* handles an init forgot while their session was created
    fault       \* what the process died of

vars == <<slot, params, session, thread, call, lost, fault>>

Handles == 0 .. MaxHandles - 1
Callers == Apps \cup Threads
Sources == 1 .. MaxSources

\* An entry of the table.
Slot == [flag : BOOLEAN, func : Callbacks \cup {Nil}, recvThread : Threads \cup {Nil}]

\* A session: created, the receiver that has the source lock, packets waiting.
Session == [created : BOOLEAN, owner : Threads \cup {Nil},
            data : [Sources -> 0 .. MaxPackets]]

NoData == [s \in Sources |-> 0]

\* States of a thread that has been through BeginDataAccess, and of one that has
\* read its handle and is in its loop.
Reading == {"take", "call", "incall"}
Serving == {"test", "begin", "access"} \cup Reading

\* A receiver thread: where it is, the handle whose open made it, the handle it
\* read, the source it is at, and whether it was cancelled.
Thread == [st : {"unused", "starting", "ended"} \cup Serving,
           madeFor : Handles, serves : Handles, at : 1 .. MaxSources + 1,
           cancel : BOOLEAN]

NoThread ==
    [st |-> "unused", madeFor |-> 0, serves |-> 0, at |-> 1, cancel |-> FALSE]

ControlLabels == {"wipe", "sweep", "create", "join group", "undo", "publish",
                  "leave", "clear flag"}

\* A call: its label and handle, the id a close is joining, whether a destory is
\* a deinit's.
Calls == [pc : {"idle", "spawn", "join", "cancel", "unregister", "send", "count"}
                  \cup ControlLabels,
          h : Handles, tid : Threads \cup {Nil}, sweep : BOOLEAN]

Call(label, h) == [pc |-> label, h |-> h, tid |-> Nil, sweep |-> FALSE]

Idle == Call("idle", 0)

TypeOK ==
    /\ slot \in [Handles -> Slot]
    /\ params \in Handles
    /\ session \in [Handles -> Session]
    /\ thread \in [Threads -> Thread]
    /\ call \in [Callers -> Calls]
    /\ lost \subseteq Handles
    /\ fault \in {"none", "null call", "bad join", "torn session"}

Init ==
    /\ slot = [h \in Handles |-> [flag |-> FALSE, func |-> Nil, recvThread |-> Nil]]
    /\ params = 0
    /\ session = [h \in Handles |-> [created |-> FALSE, owner |-> Nil, data |-> NoData]]
    /\ thread = [t \in Threads |-> NoThread]
    /\ call = [x \in Callers |-> Idle]
    /\ lost = {}
    /\ fault = "none"

-----------------------------------------------------------------------------
(* Control flow of a call. *)

\* A receiver thread calls the API from its callback only.
Free(x) == call[x] = Idle /\ (x \in Threads => thread[x].st = "incall")

Begin(x, label, h) == Free(x) /\ call' = [call EXCEPT ![x] = Call(label, h)]

At(x, label) == call[x].pc = label

Goto(x, label) == call' = [call EXCEPT ![x].pc = label]

Return(x) == call' = [call EXCEPT ![x] = Idle]

\* The for loops of init and deinit: the next index, or the end of the call.
NextIndex(x, label) ==
    IF call[x].h + 1 \in Handles
    THEN call' = [call EXCEPT ![x] = Call(label, call[x].h + 1)]
    ELSE Return(x)

-----------------------------------------------------------------------------
(* rtp_*_init: forgets every handle, whatever its session does. *)

InitBegin(a) ==
    /\ Begin(a, "wipe", 0)
    /\ UNCHANGED <<slot, params, session, thread, lost, fault>>

InitSlot(a) ==
    LET h == call[a].h IN
    /\ At(a, "wipe")
    /\ slot' = [slot EXCEPT ![h].flag = FALSE, ![h].func = Nil]
    /\ lost' = IF slot[h].flag THEN lost \cup {h} ELSE lost
    /\ NextIndex(a, "wipe")
    /\ UNCHANGED <<params, session, thread, fault>>

-----------------------------------------------------------------------------
(* rtp_*_create. *)

\* The first entry whose flag is down is chosen; nothing marks it as taken.
CreateBegin(a, h) ==
    /\ ~slot[h].flag
    /\ \A g \in Handles : g < h => slot[g].flag
    /\ Begin(a, "create", h)
    /\ UNCHANGED <<slot, params, session, thread, lost, fault>>

\* RTPSession::Create; only a multicast create has a type, and joins the group
\* for RECEIVE.  AddDestination cannot fail for a new session.
CreateSession(a) ==
    LET h == call[a].h IN
    /\ At(a, "create")
    /\ ~session[h].created
    /\ session' = [session EXCEPT ![h].created = TRUE]
    /\ \/ Goto(a, "publish")
       \/ Multicast /\ Goto(a, "join group")
    /\ UNCHANGED <<slot, params, thread, lost, fault>>

\* The ports are taken, or the session was created before.
CreateFails(a) ==
    /\ At(a, "create")
    /\ Return(a)
    /\ UNCHANGED <<slot, params, session, thread, lost, fault>>

CreateJoinGroup(a) ==
    /\ At(a, "join group")
    /\ Goto(a, "publish")
    /\ UNCHANGED <<slot, params, session, thread, lost, fault>>

\* Mutant: the failure returns without destroying the session.
CreateUndoKeepsSession(a) ==
    /\ At(a, "join group")
    /\ Return(a)
    /\ UNCHANGED <<slot, params, session, thread, lost, fault>>

\* The group cannot be joined: the session is destroyed again.
CreateUndo(a) ==
    /\ At(a, "join group")
    /\ Goto(a, "undo")
    /\ UNCHANGED <<slot, params, session, thread, lost, fault>>

CreatePublish(a) ==
    /\ At(a, "publish")
    /\ slot' = [slot EXCEPT ![call[a].h].flag = TRUE]
    /\ Return(a)
    /\ UNCHANGED <<params, session, thread, lost, fault>>

-----------------------------------------------------------------------------
(* rtp_*_destory and rtp_*_deinit.  Neither touches func or the thread. *)

DestoryBegin(a, h) ==
    /\ slot[h].flag
    /\ Begin(a, "leave", h)
    /\ UNCHANGED <<slot, params, session, thread, lost, fault>>

\* A thread is between a test of created and the end of what it does there.
Inside(h) ==
    \/ \E t \in Threads :
          thread[t].serves = h /\ thread[t].st \in {"access"} \cup Reading
    \/ \E x \in Callers : At(x, "count") /\ call[x].h = h

\* RTPSession::Destroy, which looks at no lock, and the BYEDestroy that finds no
\* session any more.  What it does to a thread inside is undefined: RtpSession.
Leave(a) ==
    LET h == call[a].h IN
    /\ At(a, "leave") \/ At(a, "undo")
    /\ IF session[h].created /\ Inside(h)
       THEN /\ fault' = "torn session"
            /\ UNCHANGED <<session, call>>
       ELSE /\ session' = [session EXCEPT ![h].created = FALSE, ![h].data = NoData]
            /\ IF At(a, "leave") THEN Goto(a, "clear flag") ELSE Return(a)
            /\ UNCHANGED fault
    /\ UNCHANGED <<slot, params, thread, lost>>

DestoryClearFlag(a) ==
    /\ At(a, "clear flag")
    /\ slot' = [slot EXCEPT ![call[a].h].flag = FALSE]
    /\ IF call[a].sweep THEN NextIndex(a, "sweep") ELSE Return(a)
    /\ UNCHANGED <<params, session, thread, lost, fault>>

DeinitBegin(a) ==
    /\ Begin(a, "sweep", 0)
    /\ UNCHANGED <<slot, params, session, thread, lost, fault>>

DeinitSlot(a) ==
    /\ At(a, "sweep")
    /\ IF slot[call[a].h].flag
       THEN call' = [call EXCEPT ![a].pc = "leave", ![a].sweep = TRUE]
       ELSE NextIndex(a, "sweep")
    /\ UNCHANGED <<slot, params, session, thread, lost, fault>>

-----------------------------------------------------------------------------
(* Calls of any thread: register, unregister, open and close. *)

Register(x, h, f) ==
    /\ Free(x)
    /\ slot[h].flag
    /\ slot' = [slot EXCEPT ![h].func = f]
    /\ UNCHANGED <<params, session, thread, call, lost, fault>>

Unregister(x, h) == Register(x, h, Nil)

\* Mutant: the static keeps the handle of the open before.
OpenBeginKeepsParams(x, h) ==
    /\ slot[h].flag
    /\ Begin(x, "spawn", h)
    /\ UNCHANGED <<slot, params, session, thread, lost, fault>>

\* The thread learns its handle from params.
OpenBegin(x, h) ==
    /\ slot[h].flag
    /\ Begin(x, "spawn", h)
    /\ params' = h
    /\ UNCHANGED <<slot, session, thread, lost, fault>>

OpenSpawn(x, t) ==
    LET h == call[x].h IN
    /\ At(x, "spawn")
    /\ thread[t].st = "unused"
    /\ thread' = [thread EXCEPT ![t].st = "starting", ![t].madeFor = h]
    /\ slot' = [slot EXCEPT ![h].recvThread = t]
    /\ Return(x)
    /\ UNCHANGED <<params, session, lost, fault>>

\* pthread_create fails.
OpenFails(x) ==
    /\ At(x, "spawn")
    /\ Return(x)
    /\ UNCHANGED <<slot, params, session, thread, lost, fault>>

\* pthread_join takes a thread nobody joins, and not the one that calls it.
Joinable(x, t) ==
    /\ t # x
    /\ thread[t].st # "unused"
    /\ \A y \in Callers : ~(At(y, "join") /\ call[y].tid = t)

CloseBegin(x, h) ==
    LET t == slot[h].recvThread IN
    /\ slot[h].flag
    /\ t # Nil
    /\ Joinable(x, t)
    /\ Free(x)
    /\ call' = [call EXCEPT ![x] = [Call("join", h) EXCEPT !.tid = t]]
    /\ UNCHANGED <<slot, params, session, thread, lost, fault>>

\* It refuses: the caller itself, or a thread another call joins.
CloseNoJoin(x, h) ==
    LET t == slot[h].recvThread IN
    /\ slot[h].flag
    /\ t # Nil
    /\ ~Joinable(x, t)
    /\ Begin(x, "unregister", h)
    /\ UNCHANGED <<slot, params, session, thread, lost, fault>>

\* Undefined: the id is 0, or was joined before.
CloseCrash(x, h) ==
    LET t == slot[h].recvThread IN
    /\ slot[h].flag
    /\ Free(x)
    /\ t # Nil => thread[t].st = "unused"
    /\ fault' = "bad join"
    /\ UNCHANGED <<slot, params, session, thread, call, lost>>

\* Mutant: the join does not wait.
CloseJoinedEarly(x) ==
    /\ At(x, "join")
    /\ call' = [call EXCEPT ![x].pc = "cancel", ![x].tid = Nil]
    /\ UNCHANGED <<slot, params, session, thread, lost, fault>>

CloseJoined(x) ==
    LET t == call[x].tid IN
    /\ At(x, "join")
    /\ thread[t].st = "ended"
    /\ thread' = [thread EXCEPT ![t] = NoThread]
    /\ call' = [call EXCEPT ![x].pc = "cancel", ![x].tid = Nil]
    /\ UNCHANGED <<slot, params, session, lost, fault>>

\* The id is read again: normally the one just joined, which is no thread now.
CloseCancel(x) ==
    LET t == slot[call[x].h].recvThread IN
    /\ At(x, "cancel")
    /\ thread' = IF t # Nil /\ thread[t].st # "unused"
                 THEN [thread EXCEPT ![t].cancel = TRUE] ELSE thread
    /\ Goto(x, "unregister")
    /\ UNCHANGED <<slot, params, session, lost, fault>>

CloseUnregister(x) ==
    LET h == call[x].h IN
    /\ At(x, "unregister")
    /\ slot' = IF slot[h].flag THEN [slot EXCEPT ![h].func = Nil] ELSE slot
    /\ Return(x)
    /\ UNCHANGED <<params, session, thread, lost, fault>>

-----------------------------------------------------------------------------
(* rtp_*_sendmsg, from any thread. *)

SendBegin(x, h) ==
    /\ slot[h].flag
    /\ Begin(x, "send", h)
    /\ UNCHANGED <<slot, params, session, thread, lost, fault>>

\* After its pause SendPacket tests created, builds the packet and sends it; one
\* that cannot be sent, or no session, ends the call.
SendOut(x) ==
    /\ At(x, "send")
    /\ \/ session[call[x].h].created /\ Goto(x, "count")
       \/ Return(x)
    /\ UNCHANGED <<slot, params, session, thread, lost, fault>>

\* SentRTPPacket is under the source lock, which does not let its owner in twice.
SendCount(x) ==
    /\ At(x, "count")
    /\ session[call[x].h].owner = Nil
    /\ Return(x)
    /\ UNCHANGED <<slot, params, session, thread, lost, fault>>

-----------------------------------------------------------------------------
(* The poll thread of session h, each time under the source lock. *)

Arrive(h) ==
    /\ session[h].created
    /\ session[h].owner = Nil
    /\ \E s \in Sources :
          /\ session[h].data[s] < MaxPackets
          /\ session' = [session EXCEPT ![h].data[s] = @ + 1]
    /\ UNCHANGED <<slot, params, thread, call, lost, fault>>

\* A source times out or has said BYE: its packets go with it.
SourceGone(h) ==
    /\ session[h].created
    /\ session[h].owner = Nil
    /\ \E s \in Sources :
          /\ session[h].data[s] > 0
          /\ session' = [session EXCEPT ![h].data[s] = 0]
    /\ UNCHANGED <<slot, params, thread, call, lost, fault>>

-----------------------------------------------------------------------------
(* rtp_*_recvmsg, the receiver thread. *)

RecvStart(t) ==
    /\ thread[t].st = "starting"
    /\ thread' = [thread EXCEPT
                    ![t].st = IF slot[params].flag THEN "test" ELSE "ended",
                    ![t].serves = params]
    /\ UNCHANGED <<slot, params, session, call, lost, fault>>

\* Mutant: the loop does not look at the function pointer.
RecvTestNothing(t) ==
    /\ thread[t].st = "test"
    /\ thread' = [thread EXCEPT ![t].st = "begin"]
    /\ UNCHANGED <<slot, params, session, call, lost, fault>>

RecvTest(t) ==
    /\ thread[t].st = "test"
    /\ thread' = [thread EXCEPT
         ![t].st = IF slot[thread[t].serves].func = Nil THEN "ended" ELSE "begin"]
    /\ UNCHANGED <<slot, params, session, call, lost, fault>>

\* BeginDataAccess; that it fails without a session is not looked at.
RecvBegin(t) ==
    /\ thread[t].st = "begin"
    /\ thread' = [thread EXCEPT
         ![t].st = IF session[thread[t].serves].created THEN "access" ELSE "take",
         ![t].at = 1]
    /\ UNCHANGED <<slot, params, session, call, lost, fault>>

RecvAccess(t) ==
    LET h == thread[t].serves IN
    /\ thread[t].st = "access"
    /\ session[h].owner = Nil
    /\ session' = [session EXCEPT ![h].owner = t]
    /\ thread' = [thread EXCEPT ![t].st = "take"]
    /\ UNCHANGED <<slot, params, call, lost, fault>>

\* Mutant: a round goes to the next source before it looks at the first.
NextSourceSkipsFirst(t, s) ==
    LET h == thread[t].serves IN
    /\ session[h].created
    /\ s > thread[t].at
    /\ session[h].data[s] > 0
    /\ \A r \in Sources : thread[t].at <= r /\ r < s => session[h].data[r] = 0

\* Source s is the one Goto...SourceWithData and GetNextPacket come to next.
NextSource(t, s) ==
    LET h == thread[t].serves IN
    /\ session[h].created
    /\ s >= thread[t].at
    /\ session[h].data[s] > 0
    /\ \A r \in Sources : thread[t].at <= r /\ r < s => session[h].data[r] = 0

RecvTake(t) ==
    LET h == thread[t].serves IN
    /\ thread[t].st = "take"
    /\ \E s \in Sources :
          /\ NextSource(t, s)
          /\ session' = [session EXCEPT ![h].data[s] = @ - 1]
          /\ thread' = [thread EXCEPT ![t].st = "call", ![t].at = s]
    /\ UNCHANGED <<slot, params, call, lost, fault>>

\* The function pointer is read a second time and called.
RecvCall(t) ==
    /\ thread[t].st = "call"
    /\ IF slot[thread[t].serves].func = Nil
       THEN fault' = "null call" /\ UNCHANGED thread
       ELSE thread' = [thread EXCEPT ![t].st = "incall"] /\ UNCHANGED fault
    /\ UNCHANGED <<slot, params, session, call, lost>>

RecvReturn(t) ==
    /\ thread[t].st = "incall"
    /\ call[t] = Idle
    /\ thread' = [thread EXCEPT ![t].st = "take"]
    /\ UNCHANGED <<slot, params, session, call, lost, fault>>

\* Mutant: EndDataAccess does not unlock.
RecvEndLocked(t) ==
    /\ thread[t].st = "take"
    /\ \A s \in Sources : ~NextSource(t, s)
    /\ thread' = [thread EXCEPT ![t].st = "test"]
    /\ UNCHANGED <<slot, params, session, call, lost, fault>>

\* No source has packets left: EndDataAccess, which unlocks if there is a session.
RecvEnd(t) ==
    LET h == thread[t].serves IN
    /\ thread[t].st = "take"
    /\ \A s \in Sources : ~NextSource(t, s)
    /\ session' = IF session[h].created
                  THEN [session EXCEPT ![h].owner = Nil] ELSE session
    /\ thread' = [thread EXCEPT ![t].st = "test"]
    /\ UNCHANGED <<slot, params, call, lost, fault>>

\* A cancelled thread dies in its callback, the lock in hand.
RecvCancelled(t) ==
    /\ thread[t].st = "incall"
    /\ thread[t].cancel
    /\ At(t, "idle") \/ At(t, "send")
    /\ thread' = [thread EXCEPT ![t].st = "ended"]
    /\ call' = [call EXCEPT ![t] = Idle]
    /\ UNCHANGED <<slot, params, session, lost, fault>>

-----------------------------------------------------------------------------
\* A control thread begins a call that changes which entries are in use.
ControlCall(a) ==
    \/ InitBegin(a)
    \/ DeinitBegin(a)
    \/ \E h \in Handles : CreateBegin(a, h)
    \/ \E h \in Handles : DestoryBegin(a, h)

\* Any thread begins a call about one handle.
HandleCall(x, h) ==
    \/ \E f \in Callbacks : Register(x, h, f)
    \/ Unregister(x, h)
    \/ OpenBegin(x, h)
    \/ CloseBegin(x, h)
    \/ CloseNoJoin(x, h)
    \/ CloseCrash(x, h)
    \/ SendBegin(x, h)

\* A call in progress takes its next step.
CallStep(x) ==
    \/ InitSlot(x)
    \/ CreateSession(x)
    \/ CreateFails(x)
    \/ CreateJoinGroup(x)
    \/ CreateUndo(x)
    \/ CreatePublish(x)
    \/ Leave(x)
    \/ DestoryClearFlag(x)
    \/ DeinitSlot(x)
    \/ \E t \in Threads : OpenSpawn(x, t)
    \/ OpenFails(x)
    \/ CloseJoined(x)
    \/ CloseCancel(x)
    \/ CloseUnregister(x)
    \/ SendOut(x)
    \/ SendCount(x)

RecvStep(t) ==
    \/ RecvStart(t)
    \/ RecvTest(t)
    \/ RecvBegin(t)
    \/ RecvAccess(t)
    \/ RecvTake(t)
    \/ RecvCall(t)
    \/ RecvReturn(t)
    \/ RecvEnd(t)
    \/ RecvCancelled(t)

PollStep(h) == Arrive(h) \/ SourceGone(h)

Step ==
    \/ \E x \in Callers : CallStep(x)
    \/ \E t \in Threads : RecvStep(t)
    \/ \E h \in Handles : PollStep(h)

\* A dead process takes no step.
Halted == fault # "none" /\ UNCHANGED vars

Next ==
    \/ /\ fault = "none"
       /\ \/ \E a \in Controls : ControlCall(a)
          \/ \E x \in Callers, h \in Handles : HandleCall(x, h)
          \/ Step
    \/ Halted

Spec == Init /\ [][Next]_vars

-----------------------------------------------------------------------------
(* What the table promises to any client with one control thread. *)

\* A control thread is making or leaving the session of h.
Working(h) ==
    \E a \in Apps :
        /\ call[a].h = h
        /\ \/ At(a, "join group") \/ At(a, "undo") \/ At(a, "publish")
           \/ At(a, "leave") \/ At(a, "clear flag")

\* Table and sessions agree whenever no create or destory is at work on the
\* handle: a handle in use has its session, and a free one has none, so that the
\* next create, which takes the first free handle and tries no other, is not
\* refused because the session is created.  Only a second rtp_*_init breaks it.
SessionsInStep ==
    \A h \in Handles :
        \/ Working(h)
        \/ h \in lost
        \/ slot[h].flag <=> session[h].created

(* The inductive form of it. *)

OneControl == \E c \in Apps : Controls = {c}

\* The control thread c is alone in control calls.  The entry it is creating is
\* free, its session made from "join group" on; the session it left is gone.
SessInv(c) ==
    LET h == call[c].h IN
    /\ TypeOK
    /\ \A x \in Callers \ {c} : call[x].pc \notin ControlLabels
    /\ At(c, "create") => ~slot[h].flag
    /\ At(c, "join group") \/ At(c, "undo") \/ At(c, "publish") =>
          ~slot[h].flag /\ session[h].created
    /\ At(c, "clear flag") => ~session[h].created
    /\ SessionsInStep

\* With one control thread no create ever works on an entry in use, publishes an
\* entry without a session, or leaves a session it gave up, at any point of any
\* call: rtp_*_create, destory, init and deinit.
SessionInvariant == \A c \in Apps : Controls = {c} => SessInv(c)
=============================================================================
