----------------------------- MODULE UdpHandles -----------------------------
(***************************************************************************)
(* The UDP delivery API (src/udp/unicast and src/udp/multicast): a fixed   *)
(* table of handles, shared without any lock by the application's threads, *)
(* which create, destroy, register, open, close and send, and by one       *)
(* receiver thread per udp_*_open_recvmsg call.  The two source files are  *)
(* the same program but for Multicast: a multicast create also joins the   *)
(* group and gives every socket a receive timeout, a unicast create gives  *)
(* one to RECEIVE sockets only.                                            *)
(*                                                                         *)
(* Every read or write of the table that another thread can come between   *)
(* is a step of its own.  Descriptors are numbers the kernel hands out     *)
(* again after a close, and thread ids are handed out again after a join.  *)
(***************************************************************************)
EXTENDS Integers

CONSTANTS
    MaxHandles,     \* MAX_UDP_*_ONLINE_NUM
    Apps,           \* the application threads that call the API
    Controls,       \* those of Apps that call init, deinit, create, destory
    Threads,        \* pthread ids
    Fds,            \* descriptor numbers
    Callbacks,      \* the functions an application registers
    MaxChunks,      \* bound: datagrams of one sendmsg call
    Multicast,      \* TRUE for udp_multicast_api.cpp
    Nil             \* NULL, descriptor -1 and the thread id 0

ASSUME ConstantsAssumption ==
    /\ MaxHandles \in Nat \ {0}
    /\ MaxChunks \in Nat \ {0}
    /\ Controls \subseteq Apps
    /\ Multicast \in BOOLEAN
    /\ Nil \notin Fds \cup Callbacks \cup Threads

VARIABLES
    slot,       \* the static arrays of the API, one record per handle
    params,     \* the one static int through which opens name their handle
    sock,       \* the kernel's descriptors
    thread,     \* the receiver threads
    app,        \* the application threads and the call each is in
    lost,       \* descriptors an init forgot while they were open
    crashed     \* the process died: a call through NULL, a join of id 0

vars == <<slot, params, sock, thread, app, lost, crashed>>

Handles == 0 .. MaxHandles - 1
Kinds == {"SEND", "RECEIVE"}

\* An entry of the table.  addr tells what wrote it last, create or recvfrom;
\* kind, which the code does not store, is the type of the last create.
Slot == [flag : BOOLEAN, fd : Fds \cup {Nil}, func : Callbacks \cup {Nil},
         recvThread : Threads \cup {Nil}, addr : {"none", "given", "peer"},
         kind : Kinds]

\* A descriptor; an open one has a receive timeout or not.
Sock == {"closed", "untimed", "timed"}

\* States of a thread that has read its handle and is in its loop.
Serving == {"test", "load", "enter", "blocked", "call", "incall"}

\* A receiver thread: where it is, the handle whose open made it, the handle
\* it read, the descriptor it passed to recvfrom and whether that has a
\* timeout, and whether it was cancelled.
Thread == [st : {"unused", "starting", "ended"} \cup Serving,
           madeFor : Handles, serves : Handles, fd : Fds \cup {Nil},
           wakes : BOOLEAN, cancel : BOOLEAN]

Labels == {"idle", "wipe", "sweep", "socket", "bind", "join group", "publish",
           "close", "clear fd", "clear flag", "spawn", "join", "cancel",
           "unregister", "send"}

\* An application thread: the label and handle of its call, the id a close is
\* joining, the datagrams a send has left, whether a destory is a deinit's.
App == [pc : Labels, h : Handles, tid : Threads \cup {Nil},
        rem : 0 .. MaxChunks, sweep : BOOLEAN]

\* A call about handle h that stands at a label.
Call(label, h) ==
    [pc |-> label, h |-> h, tid |-> Nil, rem |-> 0, sweep |-> FALSE]

Idle == Call("idle", 0)

NoThread == [st |-> "unused", madeFor |-> 0, serves |-> 0, fd |-> Nil,
             wakes |-> FALSE, cancel |-> FALSE]

TypeOK ==
    /\ slot \in [Handles -> Slot]
    /\ params \in Handles
    /\ sock \in [Fds -> Sock]
    /\ thread \in [Threads -> Thread]
    /\ app \in [Apps -> App]
    /\ lost \subseteq Fds
    /\ crashed \in BOOLEAN

\* Static storage before any call; no entry is read while its flag is down.
Init ==
    /\ slot = [h \in Handles |->
                [flag |-> FALSE, fd |-> Nil, func |-> Nil, recvThread |-> Nil,
                 addr |-> "none", kind |-> "SEND"]]
    /\ params = 0
    /\ sock = [fd \in Fds |-> "closed"]
    /\ thread = [t \in Threads |-> NoThread]
    /\ app = [a \in Apps |-> Idle]
    /\ lost = {}
    /\ crashed = FALSE

Open(fd) == fd \in Fds /\ sock[fd] # "closed"

\* close(): a number that is not open is refused.
Closed(fd) == IF fd \in Fds THEN [sock EXCEPT ![fd] = "closed"] ELSE sock

-----------------------------------------------------------------------------
(* Control flow of a call. *)

Begin(a, label, h) ==
    /\ app[a] = Idle
    /\ app' = [app EXCEPT ![a] = Call(label, h)]

At(a, label) == app[a].pc = label

Goto(a, label) == app' = [app EXCEPT ![a].pc = label]

Return(a) == app' = [app EXCEPT ![a] = Idle]

\* The for loops of init and deinit: the next index, or the end of the call.
NextIndex(a, label) ==
    IF app[a].h + 1 \in Handles
    THEN app' = [app EXCEPT ![a] = Call(label, app[a].h + 1)]
    ELSE Return(a)

-----------------------------------------------------------------------------
(* udp_*_init: empties every entry, whatever it holds. *)

InitBegin(a) ==
    /\ Begin(a, "wipe", 0)
    /\ UNCHANGED <<slot, params, sock, thread, lost, crashed>>

InitSlot(a) ==
    LET h == app[a].h IN
    /\ At(a, "wipe")
    /\ slot' = [slot EXCEPT ![h].flag = FALSE, ![h].fd = Nil, ![h].func = Nil]
    /\ lost' = IF slot[h].flag THEN lost \cup ({slot[h].fd} \ {Nil}) ELSE lost
    /\ NextIndex(a, "wipe")
    /\ UNCHANGED <<params, sock, thread, crashed>>

-----------------------------------------------------------------------------
(* udp_*_create. *)

\* The first entry whose flag is down is chosen; nothing marks it as taken.
CreateBegin(a, k, h) ==
    /\ ~slot[h].flag
    /\ \A g \in Handles : g < h => slot[g].flag
    /\ Begin(a, "socket", h)
    /\ slot' = [slot EXCEPT ![h].kind = k]
    /\ UNCHANGED <<params, sock, thread, lost, crashed>>

\* Mutant: the entry keeps the address of its last use.
CreateSocketKeepsAddress(a, fd) ==
    LET h == app[a].h IN
    /\ At(a, "socket")
    /\ ~Open(fd)
    /\ sock' = [sock EXCEPT ![fd] = IF Multicast THEN "timed" ELSE "untimed"]
    /\ slot' = [slot EXCEPT ![h].fd = fd]
    /\ Goto(a, IF slot[h].kind = "RECEIVE" THEN "bind" ELSE "publish")
    /\ UNCHANGED <<params, thread, lost, crashed>>

CreateSocket(a, fd) ==
    LET h == app[a].h IN
    /\ At(a, "socket")
    /\ ~Open(fd)
    /\ sock' = [sock EXCEPT ![fd] = IF Multicast THEN "timed" ELSE "untimed"]
    /\ slot' = [slot EXCEPT ![h].fd = fd, ![h].addr = "given"]
    /\ Goto(a, IF slot[h].kind = "RECEIVE" THEN "bind" ELSE "publish")
    /\ UNCHANGED <<params, thread, lost, crashed>>

\* socket() fails: -1 is stored and the call fails.
CreateNoSocket(a) ==
    /\ At(a, "socket")
    /\ slot' = [slot EXCEPT ![app[a].h].fd = Nil]
    /\ Return(a)
    /\ UNCHANGED <<params, sock, thread, lost, crashed>>

CreateBind(a) ==
    LET fd == slot[app[a].h].fd IN
    /\ At(a, "bind")
    /\ Open(fd)
    /\ sock' = [sock EXCEPT ![fd] = "timed"]
    /\ Goto(a, IF Multicast THEN "join group" ELSE "publish")
    /\ UNCHANGED <<slot, params, thread, lost, crashed>>

\* IP_ADD_MEMBERSHIP
CreateJoinGroup(a) ==
    /\ At(a, "join group")
    /\ Open(slot[app[a].h].fd)
    /\ Goto(a, "publish")
    /\ UNCHANGED <<slot, params, sock, thread, lost, crashed>>

\* Mutant: the failure closes the socket but does not return.
CreateUndoFallsThrough(a) ==
    /\ At(a, "bind") \/ At(a, "join group")
    /\ sock' = Closed(slot[app[a].h].fd)
    /\ Goto(a, "publish")
    /\ UNCHANGED <<slot, params, thread, lost, crashed>>

\* Mutant: the failure returns without closing the socket.
CreateUndoKeepsSocket(a) ==
    /\ At(a, "bind") \/ At(a, "join group")
    /\ Return(a)
    /\ UNCHANGED <<slot, params, sock, thread, lost, crashed>>

\* bind() or IP_ADD_MEMBERSHIP fails: the socket is closed, and its number
\* stays in the table.
CreateUndo(a) ==
    /\ At(a, "bind") \/ At(a, "join group")
    /\ sock' = Closed(slot[app[a].h].fd)
    /\ Return(a)
    /\ UNCHANGED <<slot, params, thread, lost, crashed>>

CreatePublish(a) ==
    /\ At(a, "publish")
    /\ slot' = [slot EXCEPT ![app[a].h].flag = TRUE]
    /\ Return(a)
    /\ UNCHANGED <<params, sock, thread, lost, crashed>>

-----------------------------------------------------------------------------
(* udp_*_destory and udp_*_deinit.  Neither touches func or the thread. *)

DestoryBegin(a, h) ==
    /\ slot[h].flag
    /\ Begin(a, "close", h)
    /\ UNCHANGED <<slot, params, sock, thread, lost, crashed>>

\* IP_DROP_MEMBERSHIP (multicast) acts on the same descriptor just before.
DestoryClose(a) ==
    /\ At(a, "close")
    /\ sock' = Closed(slot[app[a].h].fd)
    /\ Goto(a, "clear fd")
    /\ UNCHANGED <<slot, params, thread, lost, crashed>>

DestoryClearFd(a) ==
    /\ At(a, "clear fd")
    /\ slot' = [slot EXCEPT ![app[a].h].fd = Nil]
    /\ Goto(a, "clear flag")
    /\ UNCHANGED <<params, sock, thread, lost, crashed>>

DestoryClearFlag(a) ==
    /\ At(a, "clear flag")
    /\ slot' = [slot EXCEPT ![app[a].h].flag = FALSE]
    /\ IF app[a].sweep THEN NextIndex(a, "sweep") ELSE Return(a)
    /\ UNCHANGED <<params, sock, thread, lost, crashed>>

DeinitBegin(a) ==
    /\ Begin(a, "sweep", 0)
    /\ UNCHANGED <<slot, params, sock, thread, lost, crashed>>

DeinitSlot(a) ==
    /\ At(a, "sweep")
    /\ IF slot[app[a].h].flag
       THEN app' = [app EXCEPT ![a].pc = "close", ![a].sweep = TRUE]
       ELSE NextIndex(a, "sweep")
    /\ UNCHANGED <<slot, params, sock, thread, lost, crashed>>

-----------------------------------------------------------------------------
(* udp_*_register_recvmsg_func and udp_*_unregister_recvmsg_func. *)

Register(a, h, f) ==
    /\ app[a] = Idle
    /\ slot[h].flag
    /\ slot' = [slot EXCEPT ![h].func = f]
    /\ UNCHANGED <<params, sock, thread, app, lost, crashed>>

Unregister(a, h) == Register(a, h, Nil)

-----------------------------------------------------------------------------
(* udp_*_open_recvmsg: the thread learns its handle from params. *)

\* Mutant: the static keeps the handle of the open before.
OpenBeginKeepsParams(a, h) ==
    /\ slot[h].flag
    /\ Begin(a, "spawn", h)
    /\ UNCHANGED <<slot, params, sock, thread, lost, crashed>>

OpenBegin(a, h) ==
    /\ slot[h].flag
    /\ Begin(a, "spawn", h)
    /\ params' = h
    /\ UNCHANGED <<slot, sock, thread, lost, crashed>>

OpenSpawn(a, t) ==
    LET h == app[a].h IN
    /\ At(a, "spawn")
    /\ thread[t].st = "unused"
    /\ thread' = [thread EXCEPT ![t].st = "starting", ![t].madeFor = h]
    /\ slot' = [slot EXCEPT ![h].recvThread = t]
    /\ Return(a)
    /\ UNCHANGED <<params, sock, lost, crashed>>

\* pthread_create fails.
OpenFails(a) ==
    /\ At(a, "spawn")
    /\ Return(a)
    /\ UNCHANGED <<slot, params, sock, thread, lost, crashed>>

-----------------------------------------------------------------------------
(* udp_*_close_recvmsg: join, then cancel, then unregister. *)

Joinable(t) ==
    /\ thread[t].st # "unused"
    /\ \A b \in Apps : ~(At(b, "join") /\ app[b].tid = t)

CloseBegin(a, h) ==
    LET t == slot[h].recvThread IN
    /\ slot[h].flag
    /\ t # Nil
    /\ Joinable(t)
    /\ app[a] = Idle
    /\ app' = [app EXCEPT ![a] = [Call("join", h) EXCEPT !.tid = t]]
    /\ UNCHANGED <<slot, params, sock, thread, lost, crashed>>

\* pthread_join refuses: the id was joined before, or another call joins it.
CloseNoJoin(a, h) ==
    LET t == slot[h].recvThread IN
    /\ slot[h].flag
    /\ t # Nil
    /\ ~Joinable(t)
    /\ Begin(a, "unregister", h)
    /\ UNCHANGED <<slot, params, sock, thread, lost, crashed>>

\* Undefined: the id is 0, no open having stored one, or it was joined before
\* and the memory of its thread is gone.
CloseCrash(a, h) ==
    LET t == slot[h].recvThread IN
    /\ slot[h].flag
    /\ app[a] = Idle
    /\ t # Nil => thread[t].st = "unused"
    /\ crashed' = TRUE
    /\ UNCHANGED <<slot, params, sock, thread, app, lost>>

CloseJoined(a) ==
    LET t == app[a].tid IN
    /\ At(a, "join")
    /\ thread[t].st = "ended"
    /\ thread' = [thread EXCEPT ![t] = NoThread]
    /\ app' = [app EXCEPT ![a].pc = "cancel", ![a].tid = Nil]
    /\ UNCHANGED <<slot, params, sock, lost, crashed>>

\* The id is read from the table again: normally the one just joined, which
\* pthread_cancel no longer finds.
CloseCancel(a) ==
    LET t == slot[app[a].h].recvThread IN
    /\ At(a, "cancel")
    /\ thread' = IF t # Nil /\ thread[t].st # "unused"
                 THEN [thread EXCEPT ![t].cancel = TRUE] ELSE thread
    /\ Goto(a, "unregister")
    /\ UNCHANGED <<slot, params, sock, lost, crashed>>

CloseUnregister(a) ==
    LET h == app[a].h IN
    /\ At(a, "unregister")
    /\ slot' = IF slot[h].flag THEN [slot EXCEPT ![h].func = Nil] ELSE slot
    /\ Return(a)
    /\ UNCHANGED <<params, sock, thread, lost, crashed>>

-----------------------------------------------------------------------------
(* udp_*_sendmsg: one sendto per datagram, each reading the table again. *)

SendBegin(a, h, n) ==
    /\ slot[h].flag
    /\ slot[h].fd # Nil
    /\ app[a] = Idle
    /\ app' = [app EXCEPT ![a] = [Call("send", h) EXCEPT !.rem = n]]
    /\ UNCHANGED <<slot, params, sock, thread, lost, crashed>>

SendChunk(a) ==
    /\ At(a, "send")
    /\ IF app[a].rem > 1
       THEN app' = [app EXCEPT ![a].rem = @ - 1]
       ELSE Return(a)
    /\ UNCHANGED <<slot, params, sock, thread, lost, crashed>>

-----------------------------------------------------------------------------
(* udp_*_recvmsg, the receiver thread. *)

RecvStart(t) ==
    /\ thread[t].st = "starting"
    /\ thread' = [thread EXCEPT
                    ![t].st = IF slot[params].flag THEN "test" ELSE "ended",
                    ![t].serves = params]
    /\ UNCHANGED <<slot, params, sock, app, lost, crashed>>

\* Mutant: the loop does not look at the function pointer.
RecvTestNothing(t) ==
    /\ thread[t].st = "test"
    /\ thread' = [thread EXCEPT ![t].st = "load"]
    /\ UNCHANGED <<slot, params, sock, app, lost, crashed>>

RecvTest(t) ==
    /\ thread[t].st = "test"
    /\ thread' = [thread EXCEPT
         ![t].st = IF slot[thread[t].serves].func = Nil THEN "ended" ELSE "load"]
    /\ UNCHANGED <<slot, params, sock, app, lost, crashed>>

\* The descriptor is read from the table ...
RecvLoad(t) ==
    /\ thread[t].st = "load"
    /\ thread' = [thread EXCEPT ![t].st = "enter",
                                ![t].fd = slot[thread[t].serves].fd]
    /\ UNCHANGED <<slot, params, sock, app, lost, crashed>>

\* ... and then looked up by the kernel: EBADF makes the loop go round.
RecvEnter(t) ==
    LET fd == thread[t].fd IN
    /\ thread[t].st = "enter"
    /\ ~thread[t].cancel
    /\ thread' = [thread EXCEPT
                    ![t].st = IF Open(fd) THEN "blocked" ELSE "test",
                    ![t].wakes = Open(fd) /\ sock[fd] = "timed"]
    /\ UNCHANGED <<slot, params, sock, app, lost, crashed>>

\* A datagram comes; its sender overwrites the address of the slot.
RecvData(t) ==
    /\ thread[t].st = "blocked"
    /\ ~thread[t].cancel
    /\ thread' = [thread EXCEPT ![t].st = "call"]
    /\ slot' = [slot EXCEPT ![thread[t].serves].addr = "peer"]
    /\ UNCHANGED <<params, sock, app, lost, crashed>>

RecvTimeout(t) ==
    /\ thread[t].st = "blocked"
    /\ thread[t].wakes
    /\ ~thread[t].cancel
    /\ thread' = [thread EXCEPT ![t].st = "test"]
    /\ UNCHANGED <<slot, params, sock, app, lost, crashed>>

\* recvfrom is a cancellation point.
RecvCancelled(t) ==
    /\ thread[t].st \in {"enter", "blocked"}
    /\ thread[t].cancel
    /\ thread' = [thread EXCEPT ![t].st = "ended"]
    /\ UNCHANGED <<slot, params, sock, app, lost, crashed>>

\* The function pointer is read a second time and called.
RecvCall(t) ==
    /\ thread[t].st = "call"
    /\ IF slot[thread[t].serves].func = Nil
       THEN crashed' = TRUE /\ thread' = thread
       ELSE crashed' = crashed
            /\ thread' = [thread EXCEPT ![t].st = "incall"]
    /\ UNCHANGED <<slot, params, sock, app, lost>>

RecvReturn(t) ==
    /\ thread[t].st = "incall"
    /\ thread' = [thread EXCEPT ![t].st = "test"]
    /\ UNCHANGED <<slot, params, sock, app, lost, crashed>>

-----------------------------------------------------------------------------
\* A control thread begins a call that changes which entries are in use.
ControlCall(a) ==
    \/ InitBegin(a)
    \/ DeinitBegin(a)
    \/ \E k \in Kinds, h \in Handles : CreateBegin(a, k, h)
    \/ \E h \in Handles : DestoryBegin(a, h)

\* Any application thread begins a call about one handle.
HandleCall(a, h) ==
    \/ \E f \in Callbacks : Register(a, h, f)
    \/ Unregister(a, h)
    \/ OpenBegin(a, h)
    \/ CloseBegin(a, h)
    \/ CloseNoJoin(a, h)
    \/ CloseCrash(a, h)
    \/ \E n \in 1 .. MaxChunks : SendBegin(a, h, n)

\* A call in progress takes its next step.
AppStep(a) ==
    \/ InitSlot(a)
    \/ \E fd \in Fds : CreateSocket(a, fd)
    \/ CreateNoSocket(a)
    \/ CreateBind(a)
    \/ CreateJoinGroup(a)
    \/ CreateUndo(a)
    \/ CreatePublish(a)
    \/ DestoryClose(a)
    \/ DestoryClearFd(a)
    \/ DestoryClearFlag(a)
    \/ DeinitSlot(a)
    \/ \E t \in Threads : OpenSpawn(a, t)
    \/ OpenFails(a)
    \/ CloseJoined(a)
    \/ CloseCancel(a)
    \/ CloseUnregister(a)
    \/ SendChunk(a)

\* A receiver thread takes a step that does not wait for a datagram.
RecvStep(t) ==
    \/ RecvStart(t)
    \/ RecvTest(t)
    \/ RecvLoad(t)
    \/ RecvEnter(t)
    \/ RecvTimeout(t)
    \/ RecvCancelled(t)
    \/ RecvCall(t)
    \/ RecvReturn(t)

\* A dead process takes no step.
Halted == crashed /\ UNCHANGED vars

Next ==
    \/ /\ ~crashed
       /\ \/ \E a \in Controls : ControlCall(a)
          \/ \E a \in Apps, h \in Handles : HandleCall(a, h)
          \/ \E a \in Apps : AppStep(a)
          \/ \E t \in Threads : RecvStep(t)
          \/ \E t \in Threads : RecvData(t)
    \/ Halted

Spec == Init /\ [][Next]_vars

\* The scheduler runs every thread that can run and the kernel's receive
\* timers expire; nothing makes the application call or a datagram arrive.
Fairness ==
    /\ \A a \in Apps : WF_vars(~crashed /\ AppStep(a))
    /\ \A t \in Threads : WF_vars(~crashed /\ RecvStep(t))

FairSpec == Spec /\ Fairness
-----------------------------------------------------------------------------
(* What the table promises to any client with one control thread. *)

\* Entry h is in use: published and its destory has not yet closed its socket.
Owns(h) ==
    /\ slot[h].flag
    /\ \A a \in Apps : At(a, "clear fd") \/ At(a, "clear flag") => app[a].h # h

\* Call a is creating a handle and has its socket.
Creating(a) == At(a, "bind") \/ At(a, "join group") \/ At(a, "publish")

\* Every handle in use has an open socket, no other handle has the same one, and
\* none of them is being set up by a create: udp_*_create and udp_*_destory, with
\* the stale numbers failed creates leave in the table, never hand one socket
\* to two handles and destory never closes a socket that is not its own.
SocketsOwned ==
    /\ \A h \in Handles : Owns(h) => Open(slot[h].fd)
    /\ \A h, k \in Handles :
          Owns(h) /\ Owns(k) /\ slot[h].fd = slot[k].fd => h = k
    /\ \A h \in Handles, a \in Apps :
          Owns(h) /\ Creating(a) => slot[app[a].h].fd # slot[h].fd

\* No descriptor leaks: an open socket belongs to a handle in use or to a create
\* in progress, unless a second udp_*_init wiped the entry that named it.
NoLeak ==
    \A fd \in Fds :
        Open(fd) => \/ \E h \in Handles : Owns(h) /\ slot[h].fd = fd
                    \/ \E a \in Apps : Creating(a) /\ slot[app[a].h].fd = fd
                    \/ fd \in lost

\* One thread makes and destroys the handles.  Two concurrent creates would both
\* find the same first free entry.
OneControl == \E c \in Apps : Controls = {c}

\* Labels of the calls only a control thread makes.
ControlLabels == {"wipe", "sweep", "socket", "bind", "join group", "publish",
                  "close", "clear fd", "clear flag"}

\* Owns, when c is the only control thread.
InUse(c, h) ==
    /\ slot[h].flag
    /\ At(c, "clear fd") \/ At(c, "clear flag") => app[c].h # h

\* The inductive strengthening of SocketsOwned and NoLeak, as seen from the one
\* control thread: a create works on an entry whose flag is down, a destory on
\* one whose flag is up, and a socket an init forgot stays open, so that its
\* number is never handed out again.
TableInv(c) ==
    /\ TypeOK
    /\ \A a \in Apps \ {c} : app[a].pc \notin ControlLabels
    /\ At(c, "close") \/ At(c, "clear fd") \/ At(c, "clear flag")
          => slot[app[c].h].flag
    /\ At(c, "socket") \/ Creating(c) => ~slot[app[c].h].flag
    /\ Creating(c) => Open(slot[app[c].h].fd) /\ slot[app[c].h].fd \notin lost
    /\ \A fd \in lost : Open(fd)
    /\ \A h \in Handles :
          InUse(c, h) => /\ Open(slot[h].fd)
                         /\ slot[h].fd \notin lost
                         /\ Creating(c) => slot[h].fd # slot[app[c].h].fd
    /\ \A h, k \in Handles :
          InUse(c, h) /\ InUse(c, k) /\ slot[h].fd = slot[k].fd => h = k
    /\ \A fd \in Fds :
          Open(fd) => \/ \E h \in Handles : InUse(c, h) /\ slot[h].fd = fd
                      \/ Creating(c) /\ slot[app[c].h].fd = fd
                      \/ fd \in lost

TableInvariant == \A c \in Controls : TableInv(c)

\* A receiver thread whose callback pointer is cleared leaves its loop, whatever
\* the clients do to the handle meanwhile (destory, create, close): it ends,
\* unless the pointer is set again, the process dies of the NULL call, or it
\* waits on a socket that has no receive timeout (a unicast SEND handle).
StopsWhenUnregistered ==
    \A t \in Threads, h \in Handles :
        /\ thread[t].st \in Serving
        /\ thread[t].serves = h
        /\ slot[h].func = Nil
        ~> \/ thread[t].st \notin Serving
           \/ slot[h].func # Nil
           \/ thread[t].st = "blocked" /\ ~thread[t].wakes
           \/ crashed

\* The thread an open made serves the handle that was opened.  The shared
\* static of udp_*_open_recvmsg breaks this when two opens follow each other
\* before the first thread has read it.
ServesItsOpen ==
    \A t \in Threads :
        thread[t].st \in Serving => thread[t].serves = thread[t].madeFor
=============================================================================
