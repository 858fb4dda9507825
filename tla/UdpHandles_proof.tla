-------------------------- MODULE UdpHandles_proof --------------------------
(***************************************************************************)
(* Proofs about UdpHandles and its orderly client, for every number of     *)
(* handles, threads, descriptors and callbacks.                            *)
(***************************************************************************)
EXTENDS UdpClient, TLAPS

-----------------------------------------------------------------------------
(* Type correctness. *)

\* The record of a call that begins is well formed.
LEMMA CallType ==
    ASSUME NEW label \in Labels, NEW h \in Handles
    PROVE  Call(label, h) \in App
BY ConstantsAssumption DEF Call, App

LEMMA IdleType == Idle \in App
<1>1. "idle" \in Labels /\ 0 \in Handles
  BY ConstantsAssumption DEF Labels, Handles
<1> QED
  BY <1>1, CallType DEF Idle

LEMMA BeginType ==
    ASSUME TypeOK, NEW a \in Apps, NEW label \in Labels, NEW h \in Handles,
           Begin(a, label, h)
    PROVE  app' \in [Apps -> App]
BY CallType DEF Begin, TypeOK

LEMMA GotoType ==
    ASSUME TypeOK, NEW a \in Apps, NEW label \in Labels, Goto(a, label)
    PROVE  app' \in [Apps -> App]
BY DEF Goto, TypeOK, App

LEMMA ReturnType ==
    ASSUME TypeOK, NEW a \in Apps, Return(a)
    PROVE  app' \in [Apps -> App]
BY IdleType DEF Return, TypeOK

LEMMA NextIndexType ==
    ASSUME TypeOK, NEW a \in Apps, NEW label \in Labels, NextIndex(a, label)
    PROVE  app' \in [Apps -> App]
BY CallType, ReturnType DEF NextIndex, TypeOK

LEMMA HandleType ==
    ASSUME TypeOK, NEW a \in Apps
    PROVE  app[a].h \in Handles
BY DEF TypeOK, App

LEMMA ClosedType ==
    ASSUME TypeOK, NEW fd \in Fds \cup {Nil}
    PROVE  Closed(fd) \in [Fds -> Sock]
BY DEF TypeOK, Closed, Sock

LEMMA TypeInit == Init => TypeOK
<1> SUFFICES ASSUME Init PROVE TypeOK
  OBVIOUS
<1>1. slot \in [Handles -> Slot]
  BY DEF Init, Slot, Kinds
<1>2. thread \in [Threads -> Thread]
  BY ConstantsAssumption DEF Init, NoThread, Thread, Handles
<1>3. app \in [Apps -> App]
  BY IdleType DEF Init
<1>4. params \in Handles /\ sock \in [Fds -> Sock]
  BY ConstantsAssumption DEF Init, Handles, Sock
<1> QED
  BY <1>1, <1>2, <1>3, <1>4 DEF Init, TypeOK

LEMMA TypeControl ==
    ASSUME TypeOK, NEW a \in Apps, ControlCall(a)
    PROVE  TypeOK'
<1>0. 0 \in Handles
  BY ConstantsAssumption DEF Handles
<1>1. CASE InitBegin(a)
  BY <1>0, <1>1, BeginType DEF InitBegin, TypeOK, Labels
<1>2. CASE DeinitBegin(a)
  BY <1>0, <1>2, BeginType DEF DeinitBegin, TypeOK, Labels
<1>3. ASSUME NEW k \in Kinds, NEW h \in Handles, CreateBegin(a, k, h)
      PROVE  TypeOK'
  <2>1. slot' \in [Handles -> Slot]
    BY <1>3 DEF CreateBegin, TypeOK, Slot
  <2> QED
    BY <1>3, <2>1, BeginType DEF CreateBegin, TypeOK, Labels
<1>4. ASSUME NEW h \in Handles, DestoryBegin(a, h)
      PROVE  TypeOK'
  BY <1>4, BeginType DEF DestoryBegin, TypeOK, Labels
<1> QED
  BY <1>1, <1>2, <1>3, <1>4 DEF ControlCall

LEMMA TypeCall ==
    ASSUME TypeOK, NEW a \in Apps, NEW h \in Handles, HandleCall(a, h)
    PROVE  TypeOK'
<1>1. ASSUME NEW f \in Callbacks \cup {Nil}, Register(a, h, f)
      PROVE  TypeOK'
  BY <1>1 DEF Register, TypeOK, Slot
<1>2. CASE OpenBegin(a, h)
  BY <1>2, BeginType DEF OpenBegin, TypeOK, Labels
<1>3. CASE CloseBegin(a, h)
  <2>1. slot[h].recvThread \in Threads
    BY <1>3 DEF CloseBegin, TypeOK, Slot
  <2>2. Call("join", h) \in App
    BY CallType DEF Labels
  <2>3. [Call("join", h) EXCEPT !.tid = slot[h].recvThread] \in App
    BY <2>1, <2>2 DEF App
  <2> QED
    BY <1>3, <2>3 DEF CloseBegin, TypeOK
<1>4. CASE CloseNoJoin(a, h)
  BY <1>4, BeginType DEF CloseNoJoin, TypeOK, Labels
<1>5. CASE CloseCrash(a, h)
  BY <1>5 DEF CloseCrash, TypeOK
<1>6. ASSUME NEW n \in 1 .. MaxChunks, SendBegin(a, h, n)
      PROVE  TypeOK'
  <2>1. n \in 0 .. MaxChunks
    BY ConstantsAssumption
  <2>2. Call("send", h) \in App
    BY CallType DEF Labels
  <2>3. [Call("send", h) EXCEPT !.rem = n] \in App
    BY <2>1, <2>2 DEF App
  <2> QED
    BY <1>6, <2>3 DEF SendBegin, TypeOK
<1> QED
  BY <1>1, <1>2, <1>3, <1>4, <1>5, <1>6 DEF HandleCall, Unregister

LEMMA TypeAppStep ==
    ASSUME TypeOK, NEW a \in Apps, AppStep(a)
    PROVE  TypeOK'
<1> DEFINE h == app[a].h
<1>0. h \in Handles /\ slot[h] \in Slot /\ app[a] \in App
  BY HandleType DEF TypeOK
<1>1. CASE InitSlot(a)
  <2>1. [slot[h] EXCEPT !.flag = FALSE, !.fd = Nil, !.func = Nil] \in Slot
    BY <1>0 DEF Slot
  <2>2. slot' = [slot EXCEPT ![h] =
                   [slot[h] EXCEPT !.flag = FALSE, !.fd = Nil, !.func = Nil]]
    BY <1>0, <1>1 DEF InitSlot, TypeOK
  <2>3. slot' \in [Handles -> Slot]
    BY <2>1, <2>2, <1>0 DEF TypeOK
  <2>4. lost' \subseteq Fds
    BY <1>0, <1>1 DEF InitSlot, TypeOK, Slot
  <2> QED
    BY <1>1, <2>3, <2>4, NextIndexType DEF InitSlot, TypeOK, Labels
<1>2. ASSUME NEW fd \in Fds, CreateSocket(a, fd)
      PROVE  TypeOK'
  <2>1. [slot[h] EXCEPT !.fd = fd, !.addr = "given"] \in Slot
    BY <1>0 DEF Slot
  <2>2. slot' = [slot EXCEPT ![h] = [slot[h] EXCEPT !.fd = fd, !.addr = "given"]]
    BY <1>0, <1>2 DEF CreateSocket, TypeOK
  <2>3. slot' \in [Handles -> Slot]
    BY <2>1, <2>2, <1>0 DEF TypeOK
  <2>4. sock' \in [Fds -> Sock]
    BY <1>2 DEF CreateSocket, TypeOK, Sock
  <2>5. app' \in [Apps -> App]
    BY <1>2, GotoType DEF CreateSocket, Labels
  <2> QED
    BY <1>2, <2>3, <2>4, <2>5 DEF CreateSocket, TypeOK
<1>3. CASE CreateNoSocket(a)
  BY <1>0, <1>3, ReturnType DEF CreateNoSocket, TypeOK, Slot
<1>4. CASE CreateBind(a)
  <2>1. sock' \in [Fds -> Sock]
    BY <1>4 DEF CreateBind, TypeOK, Sock
  <2>2. app' \in [Apps -> App]
    BY <1>4, GotoType DEF CreateBind, Labels
  <2> QED
    BY <1>4, <2>1, <2>2 DEF CreateBind, TypeOK
<1>5. CASE CreateJoinGroup(a)
  BY <1>5, GotoType DEF CreateJoinGroup, TypeOK, Labels
<1>6. CASE CreateUndo(a)
  BY <1>0, <1>6, ReturnType, ClosedType DEF CreateUndo, TypeOK, Slot
<1>7. CASE CreatePublish(a)
  BY <1>0, <1>7, ReturnType DEF CreatePublish, TypeOK, Slot
<1>8. CASE DestoryClose(a)
  <2>1. sock' \in [Fds -> Sock]
    BY <1>0, <1>8, ClosedType DEF DestoryClose, Slot
  <2> QED
    BY <1>8, <2>1, GotoType DEF DestoryClose, TypeOK, Labels
<1>9. CASE DestoryClearFd(a)
  <2>1. slot' \in [Handles -> Slot]
    BY <1>0, <1>9 DEF DestoryClearFd, TypeOK, Slot
  <2> QED
    BY <1>9, <2>1, GotoType DEF DestoryClearFd, TypeOK, Labels
<1>10. CASE DestoryClearFlag(a)
  <2>1. slot' \in [Handles -> Slot]
    BY <1>0, <1>10 DEF DestoryClearFlag, TypeOK, Slot
  <2>2. app' \in [Apps -> App]
    BY <1>10, ReturnType, NextIndexType DEF DestoryClearFlag, Labels
  <2> QED
    BY <1>10, <2>1, <2>2 DEF DestoryClearFlag, TypeOK
<1>11. CASE DeinitSlot(a)
  <2>1. [app[a] EXCEPT !.pc = "close", !.sweep = TRUE] \in App
    BY <1>0 DEF App, Labels
  <2>2. CASE slot[h].flag
    BY <1>11, <2>1, <2>2 DEF DeinitSlot, TypeOK
  <2>3. CASE ~slot[h].flag
    BY <1>11, <2>3, NextIndexType DEF DeinitSlot, TypeOK, Labels
  <2> QED
    BY <2>2, <2>3
<1>12. ASSUME NEW t \in Threads, OpenSpawn(a, t)
       PROVE  TypeOK'
  <2>1. thread[t] \in Thread
    BY DEF TypeOK
  <2>2. [thread[t] EXCEPT !.st = "starting", !.madeFor = h] \in Thread
    BY <1>0, <2>1 DEF Thread
  <2>3. thread' \in [Threads -> Thread]
    BY <1>12, <2>2 DEF OpenSpawn, TypeOK
  <2>4. slot' \in [Handles -> Slot]
    BY <1>0, <1>12 DEF OpenSpawn, TypeOK, Slot
  <2> QED
    BY <1>12, <2>3, <2>4, ReturnType DEF OpenSpawn, TypeOK
<1>13. CASE OpenFails(a)
  BY <1>13, ReturnType DEF OpenFails, TypeOK
<1>14. CASE CloseJoined(a)
  <2>1. [app[a] EXCEPT !.pc = "cancel", !.tid = Nil] \in App
    BY <1>0 DEF App, Labels
  <2>2. NoThread \in Thread
    BY ConstantsAssumption DEF NoThread, Thread, Handles
  <2>3. thread' \in [Threads -> Thread]
    BY <1>14, <2>2 DEF CloseJoined, TypeOK
  <2>4. app' \in [Apps -> App]
    BY <1>14, <2>1 DEF CloseJoined, TypeOK
  <2> QED
    BY <1>14, <2>3, <2>4 DEF CloseJoined, TypeOK
<1>15. CASE CloseCancel(a)
  <2> DEFINE t == slot[h].recvThread
  <2>0. ASSUME NEW u \in Threads
        PROVE  [thread[u] EXCEPT !.cancel = TRUE] \in Thread
    BY DEF TypeOK, Thread
  <2>1. thread' \in [Threads -> Thread]
    <3>1. t \in Threads \cup {Nil}
      BY <1>0 DEF Slot
    <3> HIDE DEF t
    <3>2. CASE t \in Threads /\ thread[t].st # "unused"
      BY <1>15, <2>0, <3>2 DEF CloseCancel, TypeOK, t
    <3>3. CASE ~(t # Nil /\ thread[t].st # "unused")
      BY <1>15, <3>3 DEF CloseCancel, TypeOK, t
    <3> QED
      BY <3>1, <3>2, <3>3
  <2> QED
    BY <1>15, <2>1, GotoType DEF CloseCancel, TypeOK, Labels
<1>16. CASE CloseUnregister(a)
  <2>1. slot' \in [Handles -> Slot]
    BY <1>0, <1>16 DEF CloseUnregister, TypeOK, Slot
  <2> QED
    BY <1>16, <2>1, ReturnType DEF CloseUnregister, TypeOK
<1>17. CASE SendChunk(a)
  <2>1. CASE app[a].rem > 1
    <3>1. app[a].rem - 1 \in 0 .. MaxChunks
      BY <1>0, <2>1, ConstantsAssumption DEF App
    <3>2. app' \in [Apps -> App]
      BY <1>17, <2>1, <3>1 DEF SendChunk, TypeOK, App
    <3> QED
      BY <1>17, <3>2 DEF SendChunk, TypeOK
  <2>2. CASE ~(app[a].rem > 1)
    BY <1>17, <2>2, ReturnType DEF SendChunk, TypeOK
  <2> QED
    BY <2>1, <2>2
<1> QED
  BY <1>1, <1>2, <1>3, <1>4, <1>5, <1>6, <1>7, <1>8, <1>9, <1>10, <1>11,
     <1>12, <1>13, <1>14, <1>15, <1>16, <1>17 DEF AppStep

LEMMA TypeRecv ==
    ASSUME TypeOK, NEW t \in Threads, RecvStep(t) \/ RecvData(t)
    PROVE  TypeOK'
<1>0. thread[t] \in Thread /\ thread[t].serves \in Handles
  BY DEF TypeOK, Thread
<1>1. CASE RecvStart(t)
  <2>1. \A s \in {"test", "ended"} :
          [thread[t] EXCEPT !.st = s, !.serves = params] \in Thread
    BY <1>0 DEF TypeOK, Thread, Serving
  <2>2. thread' \in [Threads -> Thread]
    BY <1>1, <2>1 DEF RecvStart, TypeOK
  <2> QED
    BY <1>1, <2>2 DEF RecvStart, TypeOK
<1>2. CASE RecvTest(t)
  BY <1>0, <1>2 DEF RecvTest, TypeOK, Thread, Serving
<1>3. CASE RecvLoad(t)
  <2>1. slot[thread[t].serves].fd \in Fds \cup {Nil}
    BY <1>0 DEF TypeOK, Slot
  <2>2. [thread[t] EXCEPT !.st = "enter", !.fd = slot[thread[t].serves].fd]
          \in Thread
    BY <1>0, <2>1 DEF Thread, Serving
  <2>3. thread' \in [Threads -> Thread]
    BY <1>3, <2>2 DEF RecvLoad, TypeOK
  <2> QED
    BY <1>3, <2>3 DEF RecvLoad, TypeOK
<1>4. CASE RecvEnter(t)
  <2>1. \A s \in {"blocked", "test"}, w \in BOOLEAN :
          [thread[t] EXCEPT !.st = s, !.wakes = w] \in Thread
    BY <1>0 DEF Thread, Serving
  <2>2. thread' \in [Threads -> Thread]
    BY <1>4, <2>1 DEF RecvEnter, TypeOK, Open
  <2> QED
    BY <1>4, <2>2 DEF RecvEnter, TypeOK
<1>5. CASE RecvTimeout(t)
  BY <1>0, <1>5 DEF RecvTimeout, TypeOK, Thread, Serving
<1>6. CASE RecvCancelled(t)
  BY <1>0, <1>6 DEF RecvCancelled, TypeOK, Thread
<1>7. CASE RecvCall(t)
  <2>1. [thread[t] EXCEPT !.st = "incall"] \in Thread
    BY <1>0 DEF Thread, Serving
  <2>2. thread' \in [Threads -> Thread]
    BY <1>7, <2>1 DEF RecvCall, TypeOK
  <2>3. crashed' \in BOOLEAN
    BY <1>7 DEF RecvCall, TypeOK
  <2> QED
    BY <1>7, <2>2, <2>3 DEF RecvCall, TypeOK
<1>8. CASE RecvReturn(t)
  BY <1>0, <1>8 DEF RecvReturn, TypeOK, Thread, Serving
<1>9. CASE RecvData(t)
  <2>1. thread' \in [Threads -> Thread]
    BY <1>0, <1>9 DEF RecvData, TypeOK, Thread, Serving
  <2>2. [slot[thread[t].serves] EXCEPT !.addr = "peer"] \in Slot
    <3>1. slot[thread[t].serves] \in Slot
      BY <1>0 DEF TypeOK
    <3> QED
      BY <3>1 DEF Slot
  <2>3. slot' = [slot EXCEPT ![thread[t].serves] =
                   [slot[thread[t].serves] EXCEPT !.addr = "peer"]]
    BY <1>9 DEF RecvData
  <2>4. slot' \in [Handles -> Slot]
    BY <1>0, <2>2, <2>3 DEF TypeOK
  <2> QED
    BY <1>9, <2>1, <2>4 DEF RecvData, TypeOK
<1> QED
  BY <1>1, <1>2, <1>3, <1>4, <1>5, <1>6, <1>7, <1>8, <1>9 DEF RecvStep

LEMMA TypeNext == TypeOK /\ [Next]_vars => TypeOK'
<1> SUFFICES ASSUME TypeOK, [Next]_vars PROVE TypeOK'
  OBVIOUS
<1>1. ASSUME NEW a \in Controls, ControlCall(a) PROVE TypeOK'
  BY <1>1, TypeControl, ConstantsAssumption
<1>2. CASE UNCHANGED vars
  BY <1>2 DEF TypeOK, vars
<1> QED
  BY <1>1, <1>2, TypeCall, TypeAppStep, TypeRecv DEF Next, Halted

\* Every entry of the table, descriptor, thread and call stays well formed.
THEOREM TypeCorrect == Spec => []TypeOK
  BY TypeInit, TypeNext, PTL DEF Spec

-----------------------------------------------------------------------------
(* Sockets: every handle in use has its own open socket and none leaks. *)

LEMMA TableInit == ASSUME NEW c \in Apps PROVE Init => TableInv(c)
<1> SUFFICES ASSUME Init PROVE TableInv(c)
  OBVIOUS
<1>1. \A a \in Apps : app[a].pc = "idle"
  BY DEF Init, Idle, Call
<1>2. \A h \in Handles : ~slot[h].flag
  BY DEF Init
<1>3. \A fd \in Fds : ~Open(fd)
  BY DEF Init, Open
<1> QED
  BY <1>1, <1>2, <1>3, TypeInit
  DEF Init, TableInv, At, Creating, InUse, ControlLabels

\* A step that leaves flags, descriptors and sockets alone and in which no
\* control call begins, moves or ends keeps the invariant.
LEMMA QuietStep ==
    ASSUME NEW c \in Apps, TableInv(c), TypeOK', sock' = sock, lost' = lost,
           \A h \in Handles : /\ slot'[h].flag = slot[h].flag
                              /\ slot'[h].fd = slot[h].fd,
           \A b \in Apps : \/ app'[b] = app[b]
                           \/ /\ app[b].pc \notin ControlLabels
                              /\ app'[b].pc \notin ControlLabels
    PROVE  TableInv(c)'
<1>1. app[c].h \in Handles /\ app'[c].h \in Handles
  BY DEF TableInv, TypeOK, App
<1>2. CASE app'[c] = app[c]
  <2>1. \A h \in Handles : InUse(c, h)' <=> InUse(c, h)
    BY <1>2 DEF InUse, At
  <2>2. Creating(c)' <=> Creating(c)
    BY <1>2 DEF Creating, At
  <2>3. \A a \in Apps \ {c} : app'[a].pc \notin ControlLabels
    BY DEF TableInv
  <2>4. slot'[app'[c].h].fd = slot[app[c].h].fd
    BY <1>1, <1>2
  <2>5. /\ (At(c, "close") \/ At(c, "clear fd") \/ At(c, "clear flag"))'
              => slot'[app'[c].h].flag
        /\ (At(c, "socket") \/ Creating(c))' => ~slot'[app'[c].h].flag
    BY <1>1, <1>2, <2>2 DEF TableInv, At
  <2>6. /\ Creating(c)' => Open(slot[app[c].h].fd)' /\ slot'[app'[c].h].fd \notin lost'
        /\ \A fd \in lost' : Open(fd)'
    BY <2>2, <2>4 DEF TableInv, Open
  <2>7. \A h \in Handles :
          InUse(c, h)' => /\ Open(slot[h].fd)'
                          /\ slot'[h].fd \notin lost'
                          /\ Creating(c)' => slot'[h].fd # slot'[app'[c].h].fd
    BY <2>1, <2>2, <2>4 DEF TableInv, Open
  <2>8. \A h, k \in Handles :
          InUse(c, h)' /\ InUse(c, k)' /\ slot'[h].fd = slot'[k].fd => h = k
    BY <2>1 DEF TableInv
  <2>9. \A fd \in Fds :
          Open(fd)' => \/ \E h \in Handles : InUse(c, h)' /\ slot'[h].fd = fd
                       \/ Creating(c)' /\ slot'[app'[c].h].fd = fd
                       \/ fd \in lost'
    BY <2>1, <2>2, <2>4 DEF TableInv, Open
  <2> QED
    BY <2>3, <2>5, <2>6, <2>7, <2>8, <2>9 DEF TableInv
<1>3. CASE /\ app[c].pc \notin ControlLabels
           /\ app'[c].pc \notin ControlLabels
  <2>1. \A h \in Handles : InUse(c, h)' <=> InUse(c, h)
    BY <1>3 DEF InUse, At, ControlLabels
  <2>2. ~Creating(c)' /\ ~Creating(c)
    BY <1>3 DEF Creating, At, ControlLabels
  <2>3. ~(At(c, "socket") \/ At(c, "close") \/ At(c, "clear fd")
          \/ At(c, "clear flag"))'
    BY <1>3 DEF At, ControlLabels
  <2>4. \A a \in Apps \ {c} : app'[a].pc \notin ControlLabels
    BY DEF TableInv
  <2>5. \A fd \in lost' : Open(fd)'
    BY DEF TableInv, Open
  <2>6. \A h \in Handles :
          InUse(c, h)' => Open(slot[h].fd)' /\ slot'[h].fd \notin lost'
    BY <2>1 DEF TableInv, Open
  <2>7. \A h, k \in Handles :
          InUse(c, h)' /\ InUse(c, k)' /\ slot'[h].fd = slot'[k].fd => h = k
    BY <2>1 DEF TableInv
  <2>8. \A fd \in Fds :
          Open(fd)' => \/ \E h \in Handles : InUse(c, h)' /\ slot'[h].fd = fd
                       \/ fd \in lost'
    BY <2>1, <2>2 DEF TableInv, Open
  <2> QED
    BY <2>2, <2>3, <2>4, <2>5, <2>6, <2>7, <2>8 DEF TableInv
<1> QED
  BY <1>2, <1>3

\* The calls and steps of threads that are not control calls.
LEMMA QuietCall ==
    ASSUME TypeOK, NEW a \in Apps, NEW r, app' = [app EXCEPT ![a] = r],
           app[a].pc \notin ControlLabels, r.pc \notin ControlLabels
    PROVE  \A b \in Apps : \/ app'[b] = app[b]
                           \/ /\ app[b].pc \notin ControlLabels
                              /\ app'[b].pc \notin ControlLabels
BY DEF TypeOK

LEMMA TableHandleCall ==
    ASSUME NEW c \in Apps, TableInv(c), TypeOK',
           NEW a \in Apps, NEW h \in Handles, HandleCall(a, h)
    PROVE  TableInv(c)'
<1>0. TypeOK
  BY DEF TableInv
<1>1. ASSUME NEW f \in Callbacks \cup {Nil}, Register(a, h, f)
      PROVE  TableInv(c)'
  <2>1. \A g \in Handles : /\ slot'[g].flag = slot[g].flag
                           /\ slot'[g].fd = slot[g].fd
    BY <1>0, <1>1 DEF Register, TypeOK, Slot
  <2> QED
    BY <1>1, <2>1, QuietStep DEF Register
<1>2. CASE OpenBegin(a, h)
  <2> DEFINE r == Call("spawn", h)
  <2>1. app' = [app EXCEPT ![a] = r] /\ app[a] = Idle
    BY <1>2 DEF OpenBegin, Begin
  <2>2. app[a].pc \notin ControlLabels /\ r.pc \notin ControlLabels
    BY <2>1 DEF Idle, Call, ControlLabels
  <2> QED
    BY <1>0, <1>2, <2>1, <2>2, QuietCall, QuietStep DEF OpenBegin
<1>3. CASE CloseBegin(a, h)
  <2> DEFINE r == [Call("join", h) EXCEPT !.tid = slot[h].recvThread]
  <2>1. app' = [app EXCEPT ![a] = r] /\ app[a] = Idle
    BY <1>3 DEF CloseBegin
  <2>2. app[a].pc \notin ControlLabels /\ r.pc \notin ControlLabels
    BY <2>1 DEF Idle, Call, ControlLabels
  <2> QED
    BY <1>0, <1>3, <2>1, <2>2, QuietCall, QuietStep DEF CloseBegin
<1>4. CASE CloseNoJoin(a, h)
  <2> DEFINE r == Call("unregister", h)
  <2>1. app' = [app EXCEPT ![a] = r] /\ app[a] = Idle
    BY <1>4 DEF CloseNoJoin, Begin
  <2>2. app[a].pc \notin ControlLabels /\ r.pc \notin ControlLabels
    BY <2>1 DEF Idle, Call, ControlLabels
  <2> QED
    BY <1>0, <1>4, <2>1, <2>2, QuietCall, QuietStep DEF CloseNoJoin
<1>5. CASE CloseCrash(a, h)
  BY <1>5, QuietStep DEF CloseCrash
<1>6. ASSUME NEW n \in 1 .. MaxChunks, SendBegin(a, h, n)
      PROVE  TableInv(c)'
  <2> DEFINE r == [Call("send", h) EXCEPT !.rem = n]
  <2>1. app' = [app EXCEPT ![a] = r] /\ app[a] = Idle
    BY <1>6 DEF SendBegin
  <2>2. app[a].pc \notin ControlLabels /\ r.pc \notin ControlLabels
    BY <2>1 DEF Idle, Call, ControlLabels
  <2> QED
    BY <1>0, <1>6, <2>1, <2>2, QuietCall, QuietStep DEF SendBegin
<1> QED
  BY <1>1, <1>2, <1>3, <1>4, <1>5, <1>6 DEF HandleCall, Unregister

LEMMA TableRecv ==
    ASSUME NEW c \in Apps, TableInv(c), TypeOK',
           NEW t \in Threads, RecvStep(t) \/ RecvData(t)
    PROVE  TableInv(c)'
<1>0. TypeOK
  BY DEF TableInv
<1>1. sock' = sock /\ lost' = lost /\ app' = app
  BY DEF RecvStep, RecvStart, RecvTest, RecvLoad, RecvEnter, RecvData,
         RecvTimeout, RecvCancelled, RecvCall, RecvReturn
<1>2. \A h \in Handles : /\ slot'[h].flag = slot[h].flag
                         /\ slot'[h].fd = slot[h].fd
  <2>1. CASE RecvStep(t)
    BY <2>1 DEF RecvStep, RecvStart, RecvTest, RecvLoad, RecvEnter,
                RecvTimeout, RecvCancelled, RecvCall, RecvReturn
  <2>2. CASE RecvData(t)
    <3>1. slot' = [slot EXCEPT ![thread[t].serves] =
                     [slot[thread[t].serves] EXCEPT !.addr = "peer"]]
      BY <2>2 DEF RecvData
    <3> QED
      BY <1>0, <3>1 DEF TypeOK, Slot
  <2> QED
    BY <2>1, <2>2
<1> QED
  BY <1>1, <1>2, QuietStep

\* A step of the control thread that leaves flags, descriptors and sockets alone
\* and in which no socket is being created or closed.
LEMMA ControlMoves ==
    ASSUME NEW c \in Apps, TableInv(c), TypeOK', sock' = sock, lost' = lost,
           \A h \in Handles : /\ slot'[h].flag = slot[h].flag
                              /\ slot'[h].fd = slot[h].fd,
           \A b \in Apps \ {c} : app'[b] = app[b],
           ~Creating(c), ~Creating(c)',
           ~At(c, "clear fd"), ~At(c, "clear flag"),
           ~At(c, "clear fd")', ~At(c, "clear flag")',
           At(c, "close")' => slot'[app'[c].h].flag,
           At(c, "socket")' => ~slot'[app'[c].h].flag
    PROVE  TableInv(c)'
<1>1. \A h \in Handles : InUse(c, h)' <=> InUse(c, h)
  BY DEF InUse
<1>2. \A a \in Apps \ {c} : app'[a].pc \notin ControlLabels
  BY DEF TableInv
<1>3. \A fd \in lost' : Open(fd)'
  BY DEF TableInv, Open
<1>4. \A h \in Handles :
        InUse(c, h)' => Open(slot[h].fd)' /\ slot'[h].fd \notin lost'
  BY <1>1 DEF TableInv, Open
<1>5. \A h, k \in Handles :
        InUse(c, h)' /\ InUse(c, k)' /\ slot'[h].fd = slot'[k].fd => h = k
  BY <1>1 DEF TableInv
<1>6. \A fd \in Fds :
        Open(fd)' => \/ \E h \in Handles : InUse(c, h)' /\ slot'[h].fd = fd
                     \/ fd \in lost'
  BY <1>1 DEF TableInv, Open
<1> QED
  BY <1>1, <1>2, <1>3, <1>4, <1>5, <1>6 DEF TableInv

LEMMA TableControlCall ==
    ASSUME NEW c \in Apps, TableInv(c), TypeOK', ControlCall(c)
    PROVE  TableInv(c)'
<1>0. TypeOK /\ app[c] = Idle /\ At(c, "idle")
  <2>1. app[c] = Idle
    BY DEF ControlCall, InitBegin, DeinitBegin, CreateBegin, DestoryBegin, Begin
  <2> QED
    BY <2>1 DEF TableInv, Idle, Call, At
<1>1. ~Creating(c) /\ ~At(c, "clear fd") /\ ~At(c, "clear flag")
  BY <1>0 DEF Creating, At
<1>2. ASSUME NEW label \in {"wipe", "sweep", "socket", "close"},
             NEW h \in Handles, Begin(c, label, h)
      PROVE  /\ app'[c].pc = label /\ app'[c].h = h
             /\ \A b \in Apps \ {c} : app'[b] = app[b]
             /\ ~Creating(c)' /\ ~At(c, "clear fd")' /\ ~At(c, "clear flag")'
  BY <1>0, <1>2 DEF Begin, Call, TypeOK, Creating, At
<1>3. 0 \in Handles
  BY ConstantsAssumption DEF Handles
<1>4. CASE InitBegin(c)
  BY <1>1, <1>2, <1>3, <1>4, ControlMoves DEF InitBegin, At
<1>5. CASE DeinitBegin(c)
  BY <1>1, <1>2, <1>3, <1>5, ControlMoves DEF DeinitBegin, At
<1>6. ASSUME NEW k \in Kinds, NEW h \in Handles, CreateBegin(c, k, h)
      PROVE  TableInv(c)'
  <2>1. \A g \in Handles : /\ slot'[g].flag = slot[g].flag
                           /\ slot'[g].fd = slot[g].fd
    BY <1>0, <1>6 DEF CreateBegin, TypeOK, Slot
  <2>2. Begin(c, "socket", h) /\ ~slot[h].flag
    BY <1>6 DEF CreateBegin
  <2> QED
    BY <1>1, <1>2, <1>6, <2>1, <2>2, ControlMoves DEF CreateBegin, At
<1>7. ASSUME NEW h \in Handles, DestoryBegin(c, h)
      PROVE  TableInv(c)'
  <2>1. Begin(c, "close", h) /\ slot[h].flag
    BY <1>7 DEF DestoryBegin
  <2>2. app'[c].pc = "close" /\ app'[c].h = h
    BY <1>2, <2>1
  <2> QED
    BY <1>1, <1>2, <1>7, <2>1, <2>2, ControlMoves DEF DestoryBegin, At
<1> QED
  BY <1>4, <1>5, <1>6, <1>7 DEF ControlCall

\* The next index of the loop of init or deinit.
LEMMA NextIndexMoves ==
    ASSUME TypeOK, NEW c \in Apps, NEW label \in {"wipe", "sweep"},
           NextIndex(c, label)
    PROVE  /\ app'[c].pc \in {label, "idle"}
           /\ \A b \in Apps \ {c} : app'[b] = app[b]
BY DEF NextIndex, Return, Idle, Call, TypeOK

LEMMA ReturnMoves ==
    ASSUME TypeOK, NEW c \in Apps, Return(c)
    PROVE  /\ app'[c].pc = "idle"
           /\ \A b \in Apps \ {c} : app'[b] = app[b]
BY DEF Return, Idle, Call, TypeOK

LEMMA GotoMoves ==
    ASSUME TypeOK, NEW c \in Apps, NEW label, Goto(c, label)
    PROVE  /\ app'[c].pc = label /\ app'[c].h = app[c].h
           /\ \A b \in Apps \ {c} : app'[b] = app[b]
BY DEF Goto, TypeOK, App

\* Assignments to one field of one entry.
LEMMA SetFlag ==
    ASSUME TypeOK, NEW h \in Handles, NEW b \in BOOLEAN,
           slot' = [slot EXCEPT ![h].flag = b]
    PROVE  /\ slot'[h].flag = b
           /\ \A g \in Handles : slot'[g].fd = slot[g].fd
           /\ \A g \in Handles \ {h} : slot'[g] = slot[g]
<1> DEFINE r == [slot[h] EXCEPT !.flag = b]
<1>1. slot \in [Handles -> Slot] /\ slot[h] \in Slot
  BY DEF TypeOK
<1>2. r.flag = b /\ r.fd = slot[h].fd
  BY <1>1 DEF Slot
<1>3. slot'[h] = r
  BY <1>1
<1>4. \A g \in Handles \ {h} : slot'[g] = slot[g]
  BY <1>1
<1> QED
  BY <1>2, <1>3, <1>4

LEMMA SetFd ==
    ASSUME TypeOK, NEW h \in Handles, NEW fd \in Fds \cup {Nil},
           slot' = [slot EXCEPT ![h].fd = fd]
    PROVE  /\ slot'[h].fd = fd
           /\ \A g \in Handles : slot'[g].flag = slot[g].flag
           /\ \A g \in Handles \ {h} : slot'[g] = slot[g]
<1> DEFINE r == [slot[h] EXCEPT !.fd = fd]
<1>1. slot \in [Handles -> Slot] /\ slot[h] \in Slot
  BY DEF TypeOK
<1>2. r.fd = fd /\ r.flag = slot[h].flag
  BY <1>1 DEF Slot
<1>3. slot'[h] = r
  BY <1>1
<1>4. \A g \in Handles \ {h} : slot'[g] = slot[g]
  BY <1>1
<1> QED
  BY <1>2, <1>3, <1>4

\* Two handles in use never have the same socket.
LEMMA UsedDistinct ==
    ASSUME NEW c \in Apps, TableInv(c), NEW g \in Handles, NEW k \in Handles,
           InUse(c, g), InUse(c, k), slot[g].fd = slot[k].fd
    PROVE  g = k
BY DEF TableInv

\* init: a slot that held a socket loses it, but the socket stays open.
LEMMA TableInitSlot ==
    ASSUME NEW c \in Apps, TableInv(c), TypeOK', InitSlot(c)
    PROVE  TableInv(c)'
<1> DEFINE h == app[c].h
<1>0. TypeOK /\ h \in Handles
  BY HandleType DEF TableInv
<1>1. ~Creating(c) /\ ~At(c, "clear fd") /\ ~At(c, "clear flag")
  BY DEF InitSlot, Creating, At
<1>2. /\ app'[c].pc \in {"wipe", "idle"}
      /\ \A b \in Apps \ {c} : app'[b] = app[b]
  BY <1>0, NextIndexMoves DEF InitSlot
<1>3. /\ slot'[h].flag = FALSE
      /\ \A g \in Handles \ {h} : slot'[g] = slot[g]
  BY <1>0 DEF InitSlot, TypeOK, Slot
<1>4. sock' = sock /\ lost' = IF slot[h].flag THEN lost \cup ({slot[h].fd} \ {Nil})
                             ELSE lost
  BY DEF InitSlot
<1>5. \A g \in Handles : InUse(c, g) <=> slot[g].flag
  BY <1>1 DEF InUse
<1>6. \A g \in Handles : InUse(c, g)' <=> g # h /\ slot[g].flag
  BY <1>2, <1>3 DEF InUse, At
<1>7. ~Creating(c)'
  BY <1>2 DEF Creating, At
<1>8. \A fd \in lost' : Open(fd)'
  <2>1. slot[h].flag => Open(slot[h].fd)
    BY <1>0, <1>5 DEF TableInv
  <2>2. \A fd \in lost : Open(fd)
    BY DEF TableInv
  <2> QED
    BY <1>4, <2>1, <2>2 DEF Open
<1>9. ASSUME NEW g \in Handles, InUse(c, g)'
      PROVE  Open(slot[g].fd)' /\ slot'[g].fd \notin lost'
  <2>1. g # h /\ InUse(c, g) /\ slot'[g].fd = slot[g].fd
    BY <1>3, <1>5, <1>6, <1>9
  <2>2. Open(slot[g].fd) /\ slot[g].fd \notin lost
    BY <2>1 DEF TableInv
  <2>3. slot[h].flag => slot[h].fd # slot[g].fd
    BY <1>0, <1>5, <2>1 DEF TableInv
  <2> QED
    BY <1>4, <2>1, <2>2, <2>3 DEF Open
<1>10. ASSUME NEW g \in Handles, NEW k \in Handles, InUse(c, g)', InUse(c, k)',
              slot'[g].fd = slot'[k].fd
       PROVE  g = k
  <2>1. InUse(c, g) /\ InUse(c, k) /\ slot[g].fd = slot[k].fd
    BY <1>3, <1>5, <1>6, <1>10
  <2> QED
    BY <2>1, UsedDistinct
<1>11. \A fd \in Fds :
         Open(fd)' => \/ \E g \in Handles : InUse(c, g)' /\ slot'[g].fd = fd
                      \/ fd \in lost'
  <2> SUFFICES ASSUME NEW fd \in Fds, Open(fd)
               PROVE  \/ \E g \in Handles : InUse(c, g)' /\ slot'[g].fd = fd
                      \/ fd \in lost'
    BY <1>4 DEF Open
  <2>1. CASE fd \in lost
    BY <1>4, <2>1
  <2>2. ASSUME NEW g \in Handles, InUse(c, g), slot[g].fd = fd, g = h
        PROVE  fd \in lost'
    BY <1>4, <1>5, <2>2, ConstantsAssumption
  <2>3. ASSUME NEW g \in Handles, InUse(c, g), slot[g].fd = fd, g # h
        PROVE  InUse(c, g)' /\ slot'[g].fd = fd
    BY <1>3, <1>5, <1>6, <2>3
  <2> QED
    BY <1>1, <2>1, <2>2, <2>3 DEF TableInv
<1>12. \A a \in Apps \ {c} : app'[a].pc \notin ControlLabels
  BY <1>2 DEF TableInv
<1> QED
  BY <1>2, <1>7, <1>8, <1>9, <1>10, <1>11, <1>12 DEF TableInv, At

\* create: the new socket is no one else's.
LEMMA TableCreateSocket ==
    ASSUME NEW c \in Apps, TableInv(c), TypeOK',
           NEW fd \in Fds, CreateSocket(c, fd)
    PROVE  TableInv(c)'
<1> DEFINE h == app[c].h
<1>0. TypeOK /\ h \in Handles /\ At(c, "socket") /\ ~slot[h].flag
  BY HandleType DEF TableInv, CreateSocket
<1>1. /\ app'[c].pc \in {"bind", "publish"} /\ app'[c].h = h
      /\ \A b \in Apps \ {c} : app'[b] = app[b]
  BY <1>0, GotoMoves DEF CreateSocket
<1>2. /\ slot'[h].fd = fd /\ slot'[h].flag = slot[h].flag
      /\ \A g \in Handles \ {h} : slot'[g] = slot[g]
  BY <1>0 DEF CreateSocket, TypeOK, Slot
<1>3. /\ ~Open(fd) /\ lost' = lost
      /\ \A e : Open(e)' <=> Open(e) \/ e = fd
  <2>1. ~Open(fd) /\ lost' = lost
    BY DEF CreateSocket
  <2> DEFINE v == IF Multicast THEN "timed" ELSE "untimed"
  <2>2. sock' = [sock EXCEPT ![fd] = v]
    BY DEF CreateSocket
  <2>3. v # "closed"
    OBVIOUS
  <2>4. sock'[fd] # "closed" /\ \A e \in Fds \ {fd} : sock'[e] = sock[e]
    <3> HIDE DEF v
    <3> QED
      BY <1>0, <2>2, <2>3 DEF TypeOK
  <2>5. \A e : Open(e)' <=> Open(e) \/ e = fd
    BY <2>4 DEF Open
  <2> QED
    BY <2>1, <2>5
<1>4. ~Creating(c)
  BY <1>0 DEF Creating, At
<1>5. Creating(c)'
  BY <1>1 DEF Creating, At
<1>6. \A g \in Handles : InUse(c, g) <=> slot[g].flag
  BY <1>0 DEF InUse, At
<1>7. \A g \in Handles : InUse(c, g)' <=> slot[g].flag /\ g # h
  BY <1>0, <1>1, <1>2 DEF InUse, At
<1>8. fd \notin lost
  BY <1>3 DEF TableInv
<1>9. ASSUME NEW g \in Handles, InUse(c, g)'
      PROVE  /\ slot'[g].fd = slot[g].fd /\ Open(slot[g].fd)
             /\ slot[g].fd \notin lost /\ slot[g].fd # fd
  BY <1>2, <1>3, <1>6, <1>7, <1>9 DEF TableInv
<1>10. ASSUME NEW g \in Handles, NEW k \in Handles, InUse(c, g)', InUse(c, k)',
              slot'[g].fd = slot'[k].fd
       PROVE  g = k
  <2>1. InUse(c, g) /\ InUse(c, k) /\ slot[g].fd = slot[k].fd
    BY <1>6, <1>7, <1>9, <1>10
  <2> QED
    BY <2>1 DEF TableInv
<1>11. ASSUME NEW e \in Fds, Open(e)'
       PROVE  \/ \E g \in Handles : InUse(c, g)' /\ slot'[g].fd = e
              \/ Creating(c)' /\ slot'[app'[c].h].fd = e
              \/ e \in lost'
  <2>1. CASE e = fd
    BY <1>0, <1>1, <1>2, <1>5, <2>1
  <2>2. CASE e # fd
    <3>1. \/ \E g \in Handles : InUse(c, g) /\ slot[g].fd = e
          \/ e \in lost
      BY <1>3, <1>4, <1>11, <2>2 DEF TableInv
    <3>2. ASSUME NEW g \in Handles, InUse(c, g), slot[g].fd = e
          PROVE  InUse(c, g)' /\ slot'[g].fd = e
      BY <1>0, <1>2, <1>6, <1>7, <3>2
    <3> QED
      BY <1>3, <3>1, <3>2
  <2> QED
    BY <2>1, <2>2
<1>12. \A a \in Apps \ {c} : app'[a].pc \notin ControlLabels
  BY <1>1 DEF TableInv
<1>13. ~slot'[app'[c].h].flag /\ slot'[app'[c].h].fd = fd
  BY <1>0, <1>1, <1>2
<1>14. \A e \in lost' : Open(e)'
  BY <1>3 DEF TableInv
<1>15. \A g \in Handles :
         InUse(c, g)' => /\ Open(slot[g].fd)'
                         /\ slot'[g].fd \notin lost'
                         /\ Creating(c)' => slot'[g].fd # slot'[app'[c].h].fd
  BY <1>3, <1>9, <1>13
<1>16. Open(slot[app[c].h].fd)' /\ slot'[app'[c].h].fd \notin lost'
  BY <1>3, <1>8, <1>13
<1> QED
  BY <1>1, <1>5, <1>10, <1>11, <1>12, <1>13, <1>14, <1>15, <1>16
  DEF TableInv, At

\* create: the socket changes its timeout, or gets a group, and stays open.
LEMMA TableCreateBind ==
    ASSUME NEW c \in Apps, TableInv(c), TypeOK', CreateBind(c) \/ CreateJoinGroup(c)
    PROVE  TableInv(c)'
<1>0. TypeOK /\ app[c].h \in Handles /\ Creating(c) /\ ~At(c, "clear fd")
      /\ ~At(c, "clear flag")
  BY HandleType DEF TableInv, CreateBind, CreateJoinGroup, Creating, At
<1>1. /\ app'[c].pc \in {"join group", "publish"} /\ app'[c].h = app[c].h
      /\ \A b \in Apps \ {c} : app'[b] = app[b]
  BY <1>0, GotoMoves DEF CreateBind, CreateJoinGroup
<1>2. slot' = slot /\ lost' = lost
  BY DEF CreateBind, CreateJoinGroup
<1>3. \A fd : Open(fd)' <=> Open(fd)
  <2>1. CASE CreateBind(c)
    BY <1>0, <2>1 DEF CreateBind, Open, TypeOK
  <2>2. CASE CreateJoinGroup(c)
    BY <2>2 DEF CreateJoinGroup, Open
  <2> QED
    BY <2>1, <2>2
<1>4. Creating(c)'
  BY <1>1 DEF Creating, At
<1>5. \A g \in Handles : InUse(c, g)' <=> InUse(c, g)
  BY <1>0, <1>1, <1>2 DEF InUse, At
<1>6. \A a \in Apps \ {c} : app'[a].pc \notin ControlLabels
  BY <1>1 DEF TableInv
<1>7. slot'[app'[c].h] = slot[app[c].h]
  BY <1>1, <1>2
<1>8. /\ Open(slot[app[c].h].fd)' /\ slot'[app'[c].h].fd \notin lost'
      /\ \A e \in lost' : Open(e)'
  BY <1>0, <1>2, <1>3, <1>7 DEF TableInv
<1>9. \A g \in Handles :
        InUse(c, g)' => /\ Open(slot[g].fd)'
                        /\ slot'[g].fd \notin lost'
                        /\ Creating(c)' => slot'[g].fd # slot'[app'[c].h].fd
  BY <1>0, <1>2, <1>3, <1>5, <1>7 DEF TableInv
<1>10. \A g, k \in Handles :
         InUse(c, g)' /\ InUse(c, k)' /\ slot'[g].fd = slot'[k].fd => g = k
  BY <1>2, <1>5 DEF TableInv
<1>11. \A e \in Fds :
         Open(e)' => \/ \E g \in Handles : InUse(c, g)' /\ slot'[g].fd = e
                     \/ Creating(c)' /\ slot'[app'[c].h].fd = e
                     \/ e \in lost'
  BY <1>0, <1>2, <1>3, <1>4, <1>5, <1>7 DEF TableInv
<1> QED
  BY <1>0, <1>1, <1>4, <1>6, <1>7, <1>8, <1>9, <1>10, <1>11 DEF TableInv, At

\* create: a failed bind or join closes the socket no handle in use has.
LEMMA TableCreateUndo ==
    ASSUME NEW c \in Apps, TableInv(c), TypeOK', CreateUndo(c)
    PROVE  TableInv(c)'
<1> DEFINE fd == slot[app[c].h].fd
<1>0. TypeOK /\ Creating(c) /\ ~At(c, "clear fd") /\ ~At(c, "clear flag")
  BY DEF TableInv, CreateUndo, Creating, At
<1>1. app'[c].pc = "idle" /\ \A b \in Apps \ {c} : app'[b] = app[b]
  BY <1>0, ReturnMoves DEF CreateUndo
<1>2. slot' = slot /\ lost' = lost /\ fd \notin lost /\ fd \in Fds
  BY <1>0 DEF CreateUndo, TableInv, Open
<1>3. \A e : Open(e)' <=> Open(e) /\ e # fd
  <2>1. sock' = [sock EXCEPT ![fd] = "closed"]
    BY <1>2 DEF CreateUndo, Closed
  <2> QED
    BY <1>0, <1>2, <2>1 DEF Open, TypeOK
<1>4. ~Creating(c)'
  BY <1>1 DEF Creating, At
<1>5. \A g \in Handles : InUse(c, g)' <=> InUse(c, g)
  BY <1>0, <1>1, <1>2 DEF InUse, At
<1>6. \A a \in Apps \ {c} : app'[a].pc \notin ControlLabels
  BY <1>1 DEF TableInv
<1>7. \A e \in lost' : Open(e)'
  BY <1>2, <1>3 DEF TableInv
<1>8. ASSUME NEW g \in Handles, InUse(c, g)'
      PROVE  Open(slot[g].fd)' /\ slot'[g].fd \notin lost'
  BY <1>0, <1>2, <1>3, <1>5, <1>8 DEF TableInv
<1>9. \A g, k \in Handles :
         InUse(c, g)' /\ InUse(c, k)' /\ slot'[g].fd = slot'[k].fd => g = k
  BY <1>2, <1>5 DEF TableInv
<1>10. \A e \in Fds :
         Open(e)' => \/ \E g \in Handles : InUse(c, g)' /\ slot'[g].fd = e
                     \/ e \in lost'
  BY <1>2, <1>3, <1>5 DEF TableInv
<1> QED
  BY <1>1, <1>4, <1>6, <1>7, <1>8, <1>9, <1>10 DEF TableInv, At

\* create: -1 goes into an entry whose flag is down.
LEMMA TableCreateNoSocket ==
    ASSUME NEW c \in Apps, TableInv(c), TypeOK', CreateNoSocket(c)
    PROVE  TableInv(c)'
<1> DEFINE h == app[c].h
<1>0. /\ TypeOK /\ h \in Handles /\ ~slot[h].flag
      /\ ~Creating(c) /\ ~At(c, "clear fd") /\ ~At(c, "clear flag")
  BY HandleType DEF TableInv, CreateNoSocket, Creating, At
<1>1. app'[c].pc = "idle" /\ \A b \in Apps \ {c} : app'[b] = app[b]
  BY <1>0, ReturnMoves DEF CreateNoSocket
<1>2. /\ \A g \in Handles : slot'[g].flag = slot[g].flag
      /\ \A g \in Handles \ {h} : slot'[g] = slot[g]
      /\ lost' = lost /\ sock' = sock
  BY <1>0, SetFd DEF CreateNoSocket
<1>3. ~Creating(c)'
  BY <1>1 DEF Creating, At
<1>4. \A g \in Handles : InUse(c, g)' <=> InUse(c, g)
  BY <1>0, <1>1, <1>2 DEF InUse, At
<1>5. \A g \in Handles : InUse(c, g) => slot'[g] = slot[g]
  BY <1>0, <1>2 DEF InUse
<1>6. \A a \in Apps \ {c} : app'[a].pc \notin ControlLabels
  BY <1>1 DEF TableInv
<1>7. \A e \in lost' : Open(e)'
  BY <1>2 DEF TableInv, Open
<1>8. ASSUME NEW g \in Handles, InUse(c, g)'
      PROVE  Open(slot[g].fd)' /\ slot'[g].fd \notin lost'
  BY <1>2, <1>4, <1>5, <1>8 DEF TableInv, Open
<1>9. \A g, k \in Handles :
        InUse(c, g)' /\ InUse(c, k)' /\ slot'[g].fd = slot'[k].fd => g = k
  BY <1>4, <1>5 DEF TableInv
<1>10. \A e \in Fds :
         Open(e)' => \/ \E g \in Handles : InUse(c, g)' /\ slot'[g].fd = e
                     \/ e \in lost'
  BY <1>0, <1>2, <1>4, <1>5 DEF TableInv, Open
<1> QED
  BY <1>1, <1>3, <1>6, <1>7, <1>8, <1>9, <1>10 DEF TableInv, At

\* create: the entry gets its flag, and with it the socket made for it.
LEMMA TableCreatePublish ==
    ASSUME NEW c \in Apps, TableInv(c), TypeOK', CreatePublish(c)
    PROVE  TableInv(c)'
<1> DEFINE h == app[c].h
<1>0. /\ TypeOK /\ h \in Handles /\ ~slot[h].flag /\ Creating(c)
      /\ ~At(c, "clear fd") /\ ~At(c, "clear flag")
  BY HandleType DEF TableInv, CreatePublish, Creating, At
<1>1. app'[c].pc = "idle" /\ \A b \in Apps \ {c} : app'[b] = app[b]
  BY <1>0, ReturnMoves DEF CreatePublish
<1>2. /\ slot'[h].flag = TRUE
      /\ \A g \in Handles : slot'[g].fd = slot[g].fd
      /\ \A g \in Handles \ {h} : slot'[g].flag = slot[g].flag
      /\ lost' = lost /\ sock' = sock
  BY <1>0, SetFlag DEF CreatePublish
<1>3. ~Creating(c)'
  BY <1>1 DEF Creating, At
<1>4. \A g \in Handles : InUse(c, g)' <=> InUse(c, g) \/ g = h
  BY <1>0, <1>1, <1>2 DEF InUse, At
<1>5. \A a \in Apps \ {c} : app'[a].pc \notin ControlLabels
  BY <1>1 DEF TableInv
<1>6. \A e \in lost' : Open(e)'
  BY <1>2 DEF TableInv, Open
<1>7. ASSUME NEW g \in Handles, InUse(c, g)'
      PROVE  Open(slot[g].fd)' /\ slot'[g].fd \notin lost'
  <2>1. Open(slot[g].fd) /\ slot[g].fd \notin lost
    BY <1>0, <1>4, <1>7 DEF TableInv
  <2> QED
    BY <1>2, <2>1 DEF Open
<1>8. ASSUME NEW g \in Handles, NEW k \in Handles, InUse(c, g)', InUse(c, k)',
             slot'[g].fd = slot'[k].fd
      PROVE  g = k
  <2>1. \A i \in Handles : InUse(c, i) => slot[i].fd # slot[h].fd
    BY <1>0 DEF TableInv
  <2>2. InUse(c, g) /\ InUse(c, k) /\ slot[g].fd = slot[k].fd => g = k
    BY DEF TableInv
  <2>3. (InUse(c, g) \/ g = h) /\ (InUse(c, k) \/ k = h)
    BY <1>4, <1>8
  <2>4. slot[g].fd = slot[k].fd
    BY <1>2, <1>8
  <2> QED
    BY <2>1, <2>2, <2>3, <2>4
<1>9. ASSUME NEW e \in Fds, Open(e)'
      PROVE  \/ \E g \in Handles : InUse(c, g)' /\ slot'[g].fd = e
             \/ e \in lost'
  <2>1. \/ \E g \in Handles : InUse(c, g) /\ slot[g].fd = e
        \/ slot[h].fd = e
        \/ e \in lost
    <3>1. Open(e)
      BY <1>2, <1>9 DEF Open
    <3> QED
      BY <3>1 DEF TableInv
  <2>2. CASE slot[h].fd = e
    BY <1>0, <1>2, <1>4, <2>2
  <2>3. ASSUME NEW g \in Handles, InUse(c, g), slot[g].fd = e
        PROVE  InUse(c, g)' /\ slot'[g].fd = e
    BY <1>2, <1>4, <2>3
  <2> QED
    BY <1>2, <2>1, <2>2, <2>3
<1> QED
  BY <1>1, <1>3, <1>5, <1>6, <1>7, <1>8, <1>9 DEF TableInv, At

\* destory: closes the socket of an entry in use, which is no one else's.
LEMMA TableDestoryClose ==
    ASSUME NEW c \in Apps, TableInv(c), TypeOK', DestoryClose(c)
    PROVE  TableInv(c)'
<1> DEFINE h == app[c].h
           fd == slot[h].fd
<1>0. /\ TypeOK /\ h \in Handles /\ slot[h].flag /\ ~Creating(c)
      /\ ~At(c, "clear fd") /\ ~At(c, "clear flag")
  BY HandleType DEF TableInv, DestoryClose, Creating, At
<1>1. /\ app'[c].pc = "clear fd" /\ app'[c].h = h
      /\ \A b \in Apps \ {c} : app'[b] = app[b]
  BY <1>0, GotoMoves DEF DestoryClose
<1>2. \A g \in Handles : InUse(c, g) <=> slot[g].flag
  BY <1>0 DEF InUse
<1>3. slot' = slot /\ lost' = lost /\ fd \notin lost /\ fd \in Fds
  BY <1>0, <1>2 DEF DestoryClose, TableInv, Open
<1>4. \A e : Open(e)' <=> Open(e) /\ e # fd
  <2>1. sock' = [sock EXCEPT ![fd] = "closed"]
    BY <1>3 DEF DestoryClose, Closed
  <2> QED
    BY <1>0, <1>3, <2>1 DEF Open, TypeOK
<1>5. ~Creating(c)' /\ slot'[app'[c].h].flag
  BY <1>0, <1>1, <1>3 DEF Creating, At
<1>6. \A g \in Handles : InUse(c, g)' <=> slot[g].flag /\ g # h
  BY <1>1, <1>3 DEF InUse, At
<1>7. \A a \in Apps \ {c} : app'[a].pc \notin ControlLabels
  BY <1>1 DEF TableInv
<1>8. \A e \in lost' : Open(e)'
  BY <1>3, <1>4 DEF TableInv
<1>9. ASSUME NEW g \in Handles, InUse(c, g)'
      PROVE  Open(slot[g].fd)' /\ slot'[g].fd \notin lost'
  <2>1. InUse(c, g) /\ InUse(c, h) /\ g # h
    BY <1>0, <1>2, <1>6, <1>9
  <2>2. Open(slot[g].fd) /\ slot[g].fd \notin lost /\ slot[g].fd # fd
    BY <1>0, <2>1 DEF TableInv
  <2> QED
    BY <1>3, <1>4, <2>2
<1>10. \A g, k \in Handles :
         InUse(c, g)' /\ InUse(c, k)' /\ slot'[g].fd = slot'[k].fd => g = k
  BY <1>2, <1>3, <1>6 DEF TableInv
<1>11. ASSUME NEW e \in Fds, Open(e)'
       PROVE  \/ \E g \in Handles : InUse(c, g)' /\ slot'[g].fd = e
              \/ e \in lost'
  <2>1. Open(e) /\ e # fd
    BY <1>4, <1>11
  <2>2. \/ \E g \in Handles : InUse(c, g) /\ slot[g].fd = e
        \/ e \in lost
    BY <1>0, <2>1 DEF TableInv
  <2>3. ASSUME NEW g \in Handles, InUse(c, g), slot[g].fd = e
        PROVE  InUse(c, g)' /\ slot'[g].fd = e
    BY <1>2, <1>3, <1>6, <2>1, <2>3
  <2> QED
    BY <1>3, <2>2, <2>3
<1> QED
  BY <1>1, <1>5, <1>7, <1>8, <1>9, <1>10, <1>11 DEF TableInv, At

\* destory: the entry whose socket was just closed loses its number, then its
\* flag; it was not in use any more.
LEMMA TableDestoryClear ==
    ASSUME NEW c \in Apps, TableInv(c), TypeOK',
           DestoryClearFd(c) \/ DestoryClearFlag(c)
    PROVE  TableInv(c)'
<1> DEFINE h == app[c].h
<1>0. /\ TypeOK /\ h \in Handles /\ slot[h].flag /\ ~Creating(c)
      /\ At(c, "clear fd") \/ At(c, "clear flag")
  BY HandleType DEF TableInv, DestoryClearFd, DestoryClearFlag, Creating, At
<1>1. \A b \in Apps \ {c} : app'[b] = app[b]
  BY <1>0, GotoMoves, ReturnMoves, NextIndexMoves
  DEF DestoryClearFd, DestoryClearFlag
<1>2. /\ \A g \in Handles \ {h} : slot'[g] = slot[g]
      /\ lost' = lost /\ sock' = sock
  BY <1>0 DEF DestoryClearFd, DestoryClearFlag, TypeOK
<1>3. \/ app'[c].pc = "clear flag" /\ app'[c].h = h /\ slot'[h].flag
      \/ app'[c].pc \in {"idle", "sweep"} /\ ~slot'[h].flag
  <2>1. CASE DestoryClearFd(c)
    <3>1. app'[c].pc = "clear flag" /\ app'[c].h = h
      BY <1>0, <2>1, GotoMoves DEF DestoryClearFd
    <3>2. slot'[h].flag
      BY <1>0, <2>1, SetFd DEF DestoryClearFd
    <3> QED
      BY <3>1, <3>2
  <2>2. CASE DestoryClearFlag(c)
    <3>1. app'[c].pc \in {"idle", "sweep"}
      BY <1>0, <2>2, ReturnMoves, NextIndexMoves DEF DestoryClearFlag
    <3>2. ~slot'[h].flag
      BY <1>0, <2>2, SetFlag DEF DestoryClearFlag
    <3> QED
      BY <3>1, <3>2
  <2> QED
    BY <2>1, <2>2
<1>4. ~Creating(c)'
  BY <1>3 DEF Creating, At
<1>5. \A g \in Handles : InUse(c, g) <=> slot[g].flag /\ g # h
  BY <1>0 DEF InUse
<1>6. \A g \in Handles : InUse(c, g)' <=> InUse(c, g)
  <2>1. ASSUME NEW g \in Handles, g = h
        PROVE  ~InUse(c, g)'
    BY <1>3, <2>1 DEF InUse, At
  <2>2. ASSUME NEW g \in Handles, g # h
        PROVE  InUse(c, g)' <=> slot[g].flag
    <3>1. slot'[g] = slot[g]
      BY <1>2, <2>2
    <3> QED
      BY <1>3, <2>2, <3>1 DEF InUse, At
  <2> QED
    BY <1>5, <2>1, <2>2
<1>7. \A g \in Handles : InUse(c, g) => slot'[g].fd = slot[g].fd
  BY <1>2, <1>5
<1>8. \A a \in Apps \ {c} : app'[a].pc \notin ControlLabels
  BY <1>1 DEF TableInv
<1>9. \A e \in lost' : Open(e)'
  BY <1>2 DEF TableInv, Open
<1>10. ASSUME NEW g \in Handles, InUse(c, g)'
       PROVE  Open(slot[g].fd)' /\ slot'[g].fd \notin lost'
  <2>1. Open(slot[g].fd) /\ slot[g].fd \notin lost
    BY <1>6, <1>10 DEF TableInv
  <2> QED
    BY <1>2, <1>6, <1>7, <1>10, <2>1 DEF Open
<1>11. \A g, k \in Handles :
         InUse(c, g)' /\ InUse(c, k)' /\ slot'[g].fd = slot'[k].fd => g = k
  BY <1>6, <1>7 DEF TableInv
<1>12. ASSUME NEW e \in Fds, Open(e)'
       PROVE  \/ \E g \in Handles : InUse(c, g)' /\ slot'[g].fd = e
              \/ e \in lost'
  <2>1. Open(e)
    BY <1>2, <1>12 DEF Open
  <2>2. \/ \E g \in Handles : InUse(c, g) /\ slot[g].fd = e
        \/ e \in lost
    BY <1>0, <2>1 DEF TableInv
  <2> QED
    BY <1>2, <1>6, <1>7, <2>2
<1> QED
  BY <1>3, <1>4, <1>8, <1>9, <1>10, <1>11, <1>12 DEF TableInv, At

\* deinit: an entry that is not in use is passed over, one in use is destroyed.
LEMMA TableDeinitSlot ==
    ASSUME NEW c \in Apps, TableInv(c), TypeOK', DeinitSlot(c)
    PROVE  TableInv(c)'
<1>0. /\ TypeOK /\ ~Creating(c)
      /\ ~At(c, "clear fd") /\ ~At(c, "clear flag")
  BY DEF TableInv, DeinitSlot, Creating, At
<1>1. CASE slot[app[c].h].flag
  <2>1. app' = [app EXCEPT ![c] = [app[c] EXCEPT !.pc = "close", !.sweep = TRUE]]
    BY <1>1 DEF DeinitSlot
  <2>2. /\ app'[c].pc = "close" /\ app'[c].h = app[c].h
        /\ \A b \in Apps \ {c} : app'[b] = app[b]
    BY <1>0, <2>1 DEF TypeOK, App
  <2>3. slot'[app'[c].h].flag
    BY <1>1, <2>2 DEF DeinitSlot
  <2> QED
    BY <1>0, <2>2, <2>3, ControlMoves DEF DeinitSlot, Creating, At
<1>2. CASE ~slot[app[c].h].flag
  <2>1. /\ app'[c].pc \in {"sweep", "idle"}
        /\ \A b \in Apps \ {c} : app'[b] = app[b]
    BY <1>0, <1>2, NextIndexMoves DEF DeinitSlot
  <2> QED
    BY <1>0, <2>1, ControlMoves DEF DeinitSlot, Creating, At
<1> QED
  BY <1>1, <1>2

\* The steps of calls that leave flags, descriptors and sockets alone.
LEMMA TableQuietStep ==
    ASSUME NEW c \in Apps, TableInv(c), TypeOK', NEW a \in Apps,
           \/ \E t \in Threads : OpenSpawn(a, t)
           \/ OpenFails(a) \/ CloseJoined(a) \/ CloseCancel(a)
           \/ CloseUnregister(a) \/ SendChunk(a)
    PROVE  TableInv(c)'
<1>0. TypeOK /\ app[a].pc \notin ControlLabels
  BY DEF TableInv, OpenSpawn, OpenFails, CloseJoined, CloseCancel,
         CloseUnregister, SendChunk, At, ControlLabels
<1>1. sock' = sock /\ lost' = lost
  BY DEF OpenSpawn, OpenFails, CloseJoined, CloseCancel, CloseUnregister, SendChunk
<1>2. \A h \in Handles : /\ slot'[h].flag = slot[h].flag
                         /\ slot'[h].fd = slot[h].fd
  <2>1. ASSUME NEW t \in Threads, OpenSpawn(a, t)
        PROVE  \A h \in Handles : /\ slot'[h].flag = slot[h].flag
                                  /\ slot'[h].fd = slot[h].fd
    BY <1>0, <2>1 DEF OpenSpawn, TypeOK, Slot
  <2>2. CASE CloseUnregister(a)
    BY <1>0, <2>2 DEF CloseUnregister, TypeOK, Slot
  <2>3. CASE OpenFails(a) \/ CloseJoined(a) \/ CloseCancel(a) \/ SendChunk(a)
    BY <2>3 DEF OpenFails, CloseJoined, CloseCancel, SendChunk
  <2> QED
    BY <2>1, <2>2, <2>3
<1>3. /\ app'[a].pc \notin ControlLabels
      /\ \A b \in Apps \ {a} : app'[b] = app[b]
  <2>1. CASE Return(a)
    BY <1>0, <2>1, ReturnMoves DEF ControlLabels
  <2>2. CASE CloseJoined(a)
    <3>1. app' = [app EXCEPT ![a] = [app[a] EXCEPT !.pc = "cancel", !.tid = Nil]]
      BY <2>2 DEF CloseJoined
    <3> QED
      BY <1>0, <3>1 DEF TypeOK, App, ControlLabels
  <2>3. CASE CloseCancel(a)
    <3>1. Goto(a, "unregister")
      BY <2>3 DEF CloseCancel
    <3>2. app'[a].pc = "unregister" /\ \A b \in Apps \ {a} : app'[b] = app[b]
      BY <1>0, <3>1, GotoMoves
    <3> QED
      BY <3>2 DEF ControlLabels
  <2>4. CASE SendChunk(a) /\ app[a].rem > 1
    <3>1. app' = [app EXCEPT ![a] = [app[a] EXCEPT !.rem = @ - 1]]
      BY <2>4 DEF SendChunk
    <3> QED
      BY <1>0, <3>1 DEF TypeOK, App
  <2> QED
    BY <2>1, <2>2, <2>3, <2>4
    DEF OpenSpawn, OpenFails, CloseUnregister, SendChunk
<1>4. \A b \in Apps : \/ app'[b] = app[b]
                      \/ /\ app[b].pc \notin ControlLabels
                         /\ app'[b].pc \notin ControlLabels
  BY <1>0, <1>3
<1> QED
  BY <1>1, <1>2, <1>4, QuietStep

\* Only the control thread is ever in a control call.
LEMMA TableAppStep ==
    ASSUME NEW c \in Apps, TableInv(c), TypeOK', NEW a \in Apps, AppStep(a)
    PROVE  TableInv(c)'
<1>1. CASE \/ InitSlot(a)
           \/ \E fd \in Fds : CreateSocket(a, fd)
           \/ CreateNoSocket(a) \/ CreateBind(a) \/ CreateJoinGroup(a)
           \/ CreateUndo(a) \/ CreatePublish(a) \/ DestoryClose(a)
           \/ DestoryClearFd(a) \/ DestoryClearFlag(a) \/ DeinitSlot(a)
  <2>1. app[a].pc \in ControlLabels
    BY <1>1 DEF InitSlot, CreateSocket, CreateNoSocket, CreateBind,
                CreateJoinGroup, CreateUndo, CreatePublish, DestoryClose,
                DestoryClearFd, DestoryClearFlag, DeinitSlot, At, ControlLabels
  <2>2. a = c
    BY <2>1 DEF TableInv
  <2> QED
    BY <1>1, <2>2, TableInitSlot, TableCreateSocket, TableCreateNoSocket,
       TableCreateBind, TableCreateUndo, TableCreatePublish, TableDestoryClose,
       TableDestoryClear, TableDeinitSlot
<1>2. CASE \/ \E t \in Threads : OpenSpawn(a, t)
           \/ OpenFails(a) \/ CloseJoined(a) \/ CloseCancel(a)
           \/ CloseUnregister(a) \/ SendChunk(a)
  BY <1>2, TableQuietStep
<1> QED
  BY <1>1, <1>2 DEF AppStep

LEMMA TableNext ==
    ASSUME NEW c \in Apps, Controls = {c}, TableInv(c), [Next]_vars
    PROVE  TableInv(c)'
<1>0. TypeOK /\ TypeOK'
  BY TypeNext DEF TableInv
<1>1. CASE UNCHANGED vars
  BY <1>0, <1>1, QuietStep DEF vars
<1>2. ASSUME NEW a \in Controls, ControlCall(a)
      PROVE  TableInv(c)'
  BY <1>0, <1>2, TableControlCall
<1> QED
  BY <1>0, <1>1, <1>2, TableHandleCall, TableAppStep, TableRecv DEF Next, Halted

\* The table invariant, seen from the only control thread, gives both promises.
LEMMA TableGives ==
    ASSUME NEW c \in Apps, TableInv(c)
    PROVE  SocketsOwned /\ NoLeak
<1>1. \A a \in Apps \ {c} :
         ~At(a, "clear fd") /\ ~At(a, "clear flag") /\ ~Creating(a)
  BY DEF TableInv, At, Creating, ControlLabels
<1>2. \A h \in Handles : Owns(h) <=> InUse(c, h)
  BY <1>1 DEF Owns, InUse
<1>3. \A h \in Handles : Owns(h) => Open(slot[h].fd)
  BY <1>2 DEF TableInv
<1>4. \A h, k \in Handles :
         Owns(h) /\ Owns(k) /\ slot[h].fd = slot[k].fd => h = k
  BY <1>2 DEF TableInv
<1>5. \A h \in Handles, a \in Apps :
         Owns(h) /\ Creating(a) => slot[app[a].h].fd # slot[h].fd
  BY <1>1, <1>2 DEF TableInv
<1>6. \A fd \in Fds :
         Open(fd) => \/ \E h \in Handles : InUse(c, h) /\ slot[h].fd = fd
                     \/ Creating(c) /\ slot[app[c].h].fd = fd
                     \/ fd \in lost
  BY DEF TableInv
<1>7. NoLeak
  BY <1>2, <1>6 DEF NoLeak
<1> QED
  BY <1>3, <1>4, <1>5, <1>7 DEF SocketsOwned

\* With one control thread, udp_*_init, create, destory and deinit keep the
\* table and the kernel's descriptors in step, whatever the other application
\* threads and the receiver threads do: no two handles share a socket, none has
\* a closed one, and no descriptor leaks but through a second init.
THEOREM SocketSafety ==
    ASSUME OneControl
    PROVE  Spec => [](SocketsOwned /\ NoLeak)
<1>1. PICK c \in Apps : Controls = {c}
  BY DEF OneControl
<1>2. Init => TableInv(c)
  BY TableInit
<1>3. TableInv(c) /\ [Next]_vars => TableInv(c)'
  BY <1>1, TableNext
<1>4. TableInv(c) => SocketsOwned /\ NoLeak
  BY TableGives
<1> QED
  BY <1>2, <1>3, <1>4, PTL DEF Spec

\* The part of it about leaks by itself: create gives up no socket it made, and
\* destory and deinit close the one they found.
THEOREM LeakSafety ==
    ASSUME OneControl
    PROVE  Spec => []NoLeak
<1>1. PICK c \in Apps : Controls = {c}
  BY DEF OneControl
<1>2. Init => TableInv(c)
  BY TableInit
<1>3. TableInv(c) /\ [Next]_vars => TableInv(c)'
  BY <1>1, TableNext
<1>4. TableInv(c) => NoLeak
  BY TableGives
<1> QED
  BY <1>2, <1>3, <1>4, PTL DEF Spec

-----------------------------------------------------------------------------
(* The orderly client: threads, calls and addresses. *)

\* Only one call is in progress.
OneCall ==
    \A a, b \in Apps : app[a] # Idle /\ app[b] # Idle => a = b

\* A thread that has not been joined is the one its handle names, which is in
\* use for receiving; it reads its handle before the static changes, and passes
\* the socket of that handle to recvfrom.  No cancel ever meets a thread.
ThreadOk(t) ==
    LET h == thread[t].madeFor IN
    /\ ~thread[t].cancel
    /\ thread[t].st # "unused" =>
          /\ slot[h].flag
          /\ slot[h].kind = "RECEIVE"
          /\ slot[h].recvThread = t
    /\ thread[t].st = "starting" => params = h
    /\ thread[t].st \in Serving => thread[t].serves = h
    /\ thread[t].st \in {"enter", "blocked"} => thread[t].fd = slot[h].fd

\* What the call of a relies on while it is in progress: an init or deinit meets
\* no thread, a destory none of its handle; an open has the static to itself; the
\* thread a close joins is that of its handle, and is gone when it is cancelled.
CallOk(a) ==
    LET h == app[a].h IN
    /\ At(a, "wipe") \/ At(a, "sweep") \/ app[a].sweep
          => \A g \in Handles : ~Attached(g)
    /\ At(a, "close") \/ At(a, "clear fd") \/ At(a, "clear flag")
          => ~Attached(h)
    /\ At(a, "spawn") => /\ slot[h].flag
                         /\ slot[h].kind = "RECEIVE"
                         /\ ~Attached(h)
                         /\ params = h
                         /\ \A t \in Threads : thread[t].st # "starting"
    /\ At(a, "join") => /\ app[a].tid \in Threads
                        /\ thread[app[a].tid].st # "unused"
                        /\ thread[app[a].tid].madeFor = h
    /\ At(a, "cancel") => \A t \in Threads :
                             slot[h].recvThread = t => thread[t].st = "unused"
    /\ At(a, "send") => slot[h].flag /\ slot[h].kind = "SEND"
    /\ Creating(a) => slot[h].addr = "given"

\* A receiver writes the address of its own handle only, so that a SEND handle
\* keeps the one create was given.
AddrInv ==
    \A h \in Handles :
        slot[h].flag /\ slot[h].kind = "SEND" => slot[h].addr = "given"

OwnInv(c) ==
    /\ TableInv(c)
    /\ OneCall
    /\ \A t \in Threads : ThreadOk(t)
    /\ \A a \in Apps : CallOk(a)
    /\ AddrInv

LEMMA IdleFields == Idle.pc = "idle" /\ Idle.sweep = FALSE
BY DEF Idle, Call

LEMMA OwnInit == ASSUME NEW c \in Apps PROVE Init => OwnInv(c)
<1> SUFFICES ASSUME Init PROVE OwnInv(c)
  OBVIOUS
<1>1. \A a \in Apps : app[a] = Idle
  BY DEF Init
<1>2. OneCall
  BY <1>1 DEF OneCall
<1>3. \A t \in Threads : thread[t].st = "unused" /\ ~thread[t].cancel
  BY DEF Init, NoThread
<1>4. \A t \in Threads : ThreadOk(t)
  BY <1>3 DEF ThreadOk, Serving
<1>5. \A a \in Apps : CallOk(a)
  BY <1>1, IdleFields DEF CallOk, At, Creating
<1>6. AddrInv
  BY DEF Init, AddrInv
<1> QED
  BY TableInit, <1>2, <1>4, <1>5, <1>6 DEF OwnInv

\* An orderly client makes only calls any client may make.
LEMMA OrderlyIsNext == OrderlyNext => Next
<1>1. ASSUME NEW a \in Controls, OrderlyControl(a) PROVE ControlCall(a)
  BY <1>1 DEF OrderlyControl, ControlCall
<1>2. ASSUME NEW a \in Apps, NEW h \in Handles, OrderlyCall(a, h)
      PROVE  HandleCall(a, h)
  BY <1>2 DEF OrderlyCall, HandleCall
<1> QED
  BY <1>1, <1>2 DEF OrderlyNext, Next

\* A step of the only call leaves the others idle.
LEMMA OthersIdle ==
    ASSUME TypeOK, OneCall, NEW a \in Apps, app[a] # Idle \/ Serial(a),
           \A b \in Apps \ {a} : app'[b] = app[b]
    PROVE  OneCall' /\ \A b \in Apps \ {a} : app'[b] = Idle
<1>1. \A b \in Apps \ {a} : app[b] = Idle
  BY DEF OneCall, Serial
<1>2. \A b \in Apps \ {a} : app'[b] = Idle
  BY <1>1
<1>3. Idle' = Idle
  BY DEF Idle, Call
<1> QED
  BY <1>2, <1>3 DEF OneCall

\* So that only what that call relies on has to be looked at.
LEMMA IdleCalls ==
    ASSUME NEW a \in Apps, \A b \in Apps \ {a} : app'[b] = Idle, CallOk(a)'
    PROVE  \A b \in Apps : CallOk(b)'
<1>1. ASSUME NEW b \in Apps \ {a} PROVE CallOk(b)'
  BY IdleFields DEF CallOk, At, Creating
<1> QED
  BY <1>1

\* A step that leaves the threads and what they rely on alone.
LEMMA ThreadsKeep ==
    ASSUME TypeOK, \A t \in Threads : ThreadOk(t), thread' = thread,
           \/ params' = params
           \/ \A t \in Threads : thread[t].st # "starting",
           \A h \in Handles :
              Attached(h) => /\ slot'[h].flag = slot[h].flag
                             /\ slot'[h].kind = slot[h].kind
                             /\ slot'[h].recvThread = slot[h].recvThread
                             /\ slot'[h].fd = slot[h].fd
    PROVE  /\ \A t \in Threads : ThreadOk(t)'
           /\ \A h \in Handles : Attached(h)' <=> Attached(h)
<1>1. ASSUME NEW t \in Threads PROVE ThreadOk(t)'
  <2> DEFINE h == thread[t].madeFor
  <2>1. ThreadOk(t) /\ h \in Handles
    BY DEF TypeOK, Thread
  <2>2. CASE thread[t].st = "unused"
    BY <2>1, <2>2 DEF ThreadOk, Serving
  <2>3. CASE thread[t].st # "unused"
    <3>1. Attached(h)
      BY <2>3 DEF Attached
    <3>2. /\ slot'[h].flag = slot[h].flag
          /\ slot'[h].kind = slot[h].kind
          /\ slot'[h].recvThread = slot[h].recvThread
          /\ slot'[h].fd = slot[h].fd
      BY <2>1, <3>1
    <3>3. thread[t].st = "starting" => params' = params
      OBVIOUS
    <3> QED
      BY <2>1, <3>2, <3>3 DEF ThreadOk
  <2> QED
    BY <2>2, <2>3
<1>2. \A h \in Handles : Attached(h)' <=> Attached(h)
  BY DEF Attached
<1> QED
  BY <1>1, <1>2

\* The call is over, or at a label that relies on nothing.
LEMMA AtRest ==
    ASSUME NEW a \in Apps,
           app'[a].pc \in {"idle", "socket", "unregister"}, ~app'[a].sweep
    PROVE  CallOk(a)'
BY DEF CallOk, At, Creating

\* The steps of a call that leave the table and the threads alone.
LEMMA OwnNoWrite ==
    ASSUME NEW c \in Apps, OwnInv(c), TableInv(c)', NEW a \in Apps,
           app[a] # Idle \/ Serial(a), \A b \in Apps \ {a} : app'[b] = app[b],
           thread' = thread, slot' = slot, CallOk(a)',
           \/ params' = params
           \/ \A t \in Threads : thread[t].st # "starting"
    PROVE  OwnInv(c)'
<1>1. TypeOK
  BY DEF OwnInv, TableInv
<1>2. OneCall' /\ \A b \in Apps \ {a} : app'[b] = Idle
  BY <1>1, OthersIdle DEF OwnInv
<1>3. \A t \in Threads : ThreadOk(t)'
  BY <1>1, ThreadsKeep DEF OwnInv
<1>4. \A b \in Apps : CallOk(b)'
  BY <1>2, IdleCalls
<1>5. AddrInv'
  BY DEF OwnInv, AddrInv
<1> QED
  BY <1>2, <1>3, <1>4, <1>5 DEF OwnInv

LEMMA BeginMoves ==
    ASSUME TypeOK, NEW a \in Apps, NEW label, NEW h, Begin(a, label, h)
    PROVE  /\ app[a] = Idle
           /\ app'[a].pc = label /\ app'[a].h = h /\ app'[a].sweep = FALSE
           /\ \A b \in Apps \ {a} : app'[b] = app[b]
<1>1. app[a] = Idle /\ app' = [app EXCEPT ![a] = Call(label, h)]
  BY DEF Begin
<1>2. app'[a] = Call(label, h)
  BY <1>1 DEF TypeOK
<1>3. app'[a].pc = label /\ app'[a].h = h /\ app'[a].sweep = FALSE
  BY <1>2 DEF Call
<1> QED
  BY <1>1, <1>3 DEF TypeOK

\* Nobody but a attaches or detaches a thread in a step of these.
LEMMA AttachedKept ==
    ASSUME thread' = thread
    PROVE  \A h \in Handles : Attached(h)' <=> Attached(h)
BY DEF Attached

LEMMA OwnControl ==
    ASSUME NEW c \in Apps, OwnInv(c), TableInv(c)', NEW a \in Controls,
           a = c, OrderlyControl(a)
    PROVE  OwnInv(c)'
<1>0. TypeOK /\ a \in Apps /\ Serial(a)
  BY DEF OwnInv, TableInv, OrderlyControl
<1>1. CASE InitBegin(a) /\ \A h \in Handles : ~slot[h].flag /\ ~Attached(h)
  <2>1. /\ app'[a].pc = "wipe" /\ app'[a].sweep = FALSE
        /\ \A b \in Apps \ {a} : app'[b] = app[b]
        /\ thread' = thread /\ slot' = slot /\ params' = params
    BY <1>0, <1>1, BeginMoves DEF InitBegin
  <2>2. CallOk(a)'
    BY <1>1, <2>1, AttachedKept DEF CallOk, At, Creating
  <2> QED
    BY <1>0, <2>1, <2>2, OwnNoWrite
<1>2. CASE DeinitBegin(a) /\ \A h \in Handles : ~Attached(h)
  <2>1. /\ app'[a].pc = "sweep" /\ app'[a].sweep = FALSE
        /\ \A b \in Apps \ {a} : app'[b] = app[b]
        /\ thread' = thread /\ slot' = slot /\ params' = params
    BY <1>0, <1>2, BeginMoves DEF DeinitBegin
  <2>2. CallOk(a)'
    BY <1>2, <2>1, AttachedKept DEF CallOk, At, Creating
  <2> QED
    BY <1>0, <2>1, <2>2, OwnNoWrite
<1>3. ASSUME NEW k \in Kinds, NEW h \in Handles, CreateBegin(a, k, h)
      PROVE  OwnInv(c)'
  <2>1. /\ app'[a].pc = "socket" /\ app'[a].sweep = FALSE
        /\ \A b \in Apps \ {a} : app'[b] = app[b]
        /\ thread' = thread /\ params' = params /\ ~slot[h].flag
    BY <1>0, <1>3, BeginMoves DEF CreateBegin
  <2>2. \A g \in Handles : /\ slot'[g].flag = slot[g].flag
                           /\ g # h => slot'[g] = slot[g]
    BY <1>0, <1>3 DEF CreateBegin, TypeOK, Slot
  <2>3. ~Attached(h)
    BY <2>1 DEF OwnInv, ThreadOk, Attached
  <2>4. \A t \in Threads : ThreadOk(t)'
    BY <1>0, <2>1, <2>2, <2>3, ThreadsKeep DEF OwnInv
  <2>5. OneCall' /\ \A b \in Apps : CallOk(b)'
    BY <1>0, <2>1, OthersIdle, IdleCalls, AtRest DEF OwnInv
  <2>6. AddrInv'
    BY <2>1, <2>2 DEF OwnInv, AddrInv
  <2> QED
    BY <2>4, <2>5, <2>6 DEF OwnInv
<1>4. ASSUME NEW h \in Handles, ~Attached(h), DestoryBegin(a, h)
      PROVE  OwnInv(c)'
  <2>1. /\ app'[a].pc = "close" /\ app'[a].sweep = FALSE /\ app'[a].h = h
        /\ \A b \in Apps \ {a} : app'[b] = app[b]
        /\ thread' = thread /\ slot' = slot /\ params' = params
    BY <1>0, <1>4, BeginMoves DEF DestoryBegin
  <2>2. CallOk(a)'
    BY <1>4, <2>1, AttachedKept DEF CallOk, At, Creating
  <2> QED
    BY <1>0, <2>1, <2>2, OwnNoWrite
<1> QED
  BY <1>1, <1>2, <1>3, <1>4 DEF OrderlyControl

\* A call that only sets or clears the function of an entry.
LEMMA SetFunc ==
    ASSUME TypeOK, NEW h \in Handles, NEW f,
           slot' = [slot EXCEPT ![h].func = f]
    PROVE  \A g \in Handles : /\ slot'[g].flag = slot[g].flag
                              /\ slot'[g].kind = slot[g].kind
                              /\ slot'[g].recvThread = slot[g].recvThread
                              /\ slot'[g].fd = slot[g].fd
                              /\ slot'[g].addr = slot[g].addr
BY DEF TypeOK, Slot

LEMMA OwnFunc ==
    ASSUME NEW c \in Apps, OwnInv(c), TableInv(c)', NEW a \in Apps,
           app[a] # Idle \/ Serial(a), \A b \in Apps \ {a} : app'[b] = app[b],
           app'[a] = Idle, thread' = thread, params' = params,
           \A g \in Handles : /\ slot'[g].flag = slot[g].flag
                              /\ slot'[g].kind = slot[g].kind
                              /\ slot'[g].recvThread = slot[g].recvThread
                              /\ slot'[g].fd = slot[g].fd
                              /\ slot'[g].addr = slot[g].addr
    PROVE  OwnInv(c)'
<1>1. TypeOK
  BY DEF OwnInv, TableInv
<1>2. OneCall' /\ \A b \in Apps \ {a} : app'[b] = Idle
  BY <1>1, OthersIdle DEF OwnInv
<1>3. \A t \in Threads : ThreadOk(t)'
  BY <1>1, ThreadsKeep DEF OwnInv
<1>4. CallOk(a)'
  BY AtRest, IdleFields
<1>5. \A b \in Apps : CallOk(b)'
  BY <1>2, <1>4, IdleCalls
<1>6. AddrInv'
  BY DEF OwnInv, AddrInv
<1> QED
  BY <1>2, <1>3, <1>5, <1>6 DEF OwnInv

LEMMA OwnCall ==
    ASSUME NEW c \in Apps, OwnInv(c), TableInv(c)', NEW a \in Apps,
           NEW h \in Handles, OrderlyCall(a, h)
    PROVE  OwnInv(c)'
<1>0. TypeOK /\ Serial(a)
  BY DEF OwnInv, TableInv, OrderlyCall
<1>1. ASSUME NEW f, Register(a, h, f)
      PROVE  OwnInv(c)'
  <2>1. app[a] = Idle /\ app' = app /\ thread' = thread /\ params' = params
    BY <1>1 DEF Register
  <2>2. \A g \in Handles : /\ slot'[g].flag = slot[g].flag
                           /\ slot'[g].kind = slot[g].kind
                           /\ slot'[g].recvThread = slot[g].recvThread
                           /\ slot'[g].fd = slot[g].fd
                           /\ slot'[g].addr = slot[g].addr
    BY <1>0, <1>1, SetFunc DEF Register
  <2> QED
    BY <1>0, <2>1, <2>2, OwnFunc
<1>2. CASE /\ OpenBegin(a, h) /\ slot[h].kind = "RECEIVE" /\ ~Attached(h)
           /\ \A t \in Threads : thread[t].st # "starting"
  <2>1. /\ app'[a].pc = "spawn" /\ app'[a].sweep = FALSE /\ app'[a].h = h
        /\ \A b \in Apps \ {a} : app'[b] = app[b]
        /\ thread' = thread /\ slot' = slot /\ params' = h /\ slot[h].flag
    <3>1. Begin(a, "spawn", h)
      BY <1>2 DEF OpenBegin
    <3>2. thread' = thread /\ slot' = slot /\ params' = h /\ slot[h].flag
      BY <1>2 DEF OpenBegin
    <3> QED
      BY ZenonT(60), <1>0, <3>1, <3>2, BeginMoves
  <2>2. CallOk(a)'
    BY <1>2, <2>1, AttachedKept DEF CallOk, At, Creating
  <2> QED
    BY <1>0, <1>2, <2>1, <2>2, OwnNoWrite
<1>3. CASE CloseBegin(a, h) /\ Attached(h)
  <2> DEFINE t == slot[h].recvThread
             r == [Call("join", h) EXCEPT !.tid = t]
  <2>1. app' = [app EXCEPT ![a] = r] /\ thread' = thread /\ slot' = slot
        /\ params' = params
    BY <1>3 DEF CloseBegin
  <2>2. r.pc = "join" /\ r.h = h /\ r.tid = t /\ r.sweep = FALSE
    BY DEF Call
  <2>3. app'[a] = r /\ \A b \in Apps \ {a} : app'[b] = app[b]
    BY <1>0, <2>1 DEF TypeOK
  <2>4. PICK u \in Threads : thread[u].st # "unused" /\ thread[u].madeFor = h
    BY <1>3 DEF Attached
  <2>5. t = u
    BY <2>4 DEF OwnInv, ThreadOk
  <2>6. app'[a].tid = u /\ app'[a].h = h /\ app'[a].pc = "join"
        /\ app'[a].sweep = FALSE
    BY <2>2, <2>3, <2>5
  <2>7. CallOk(a)'
    BY <2>1, <2>4, <2>6 DEF CallOk, At, Creating
  <2> QED
    BY <1>0, <2>1, <2>3, <2>7, OwnNoWrite
<1>4. ASSUME NEW n \in 1 .. MaxChunks, SendBegin(a, h, n), slot[h].kind = "SEND"
      PROVE  OwnInv(c)'
  <2> DEFINE r == [Call("send", h) EXCEPT !.rem = n]
  <2>1. app' = [app EXCEPT ![a] = r] /\ thread' = thread /\ slot' = slot
        /\ params' = params /\ slot[h].flag
    BY <1>4 DEF SendBegin
  <2>2. r.pc = "send" /\ r.h = h /\ r.sweep = FALSE
    BY DEF Call
  <2>3. app'[a] = r /\ \A b \in Apps \ {a} : app'[b] = app[b]
    BY <1>0, <2>1 DEF TypeOK
  <2>4. app'[a].pc = "send" /\ app'[a].h = h /\ app'[a].sweep = FALSE
    BY <2>2, <2>3
  <2>5. CallOk(a)'
    BY <1>4, <2>1, <2>4 DEF CallOk, At, Creating
  <2> QED
    BY <1>0, <2>1, <2>3, <2>5, OwnNoWrite
<1> QED
  BY <1>1, <1>2, <1>3, <1>4 DEF OrderlyCall, Unregister

\* The steps of init, create, destory and deinit: the control thread works on an
\* entry that is free, or that no thread is attached to.
LEMMA OwnTableStep ==
    ASSUME NEW c \in Apps, OwnInv(c), TableInv(c)', NEW a \in Apps,
           app[a] # Idle, \A b \in Apps \ {a} : app'[b] = app[b],
           thread' = thread, params' = params, ~Attached(app[a].h),
           \A g \in Handles \ {app[a].h} : slot'[g] = slot[g],
           slot'[app[a].h].flag /\ slot'[app[a].h].kind = "SEND"
              => slot'[app[a].h].addr = "given",
           CallOk(a)'
    PROVE  OwnInv(c)'
<1>1. TypeOK
  BY DEF OwnInv, TableInv
<1>2. OneCall' /\ \A b \in Apps \ {a} : app'[b] = Idle
  BY <1>1, OthersIdle DEF OwnInv
<1>3. \A t \in Threads : ThreadOk(t)'
  BY <1>1, ThreadsKeep DEF OwnInv
<1>4. \A b \in Apps : CallOk(b)'
  BY <1>2, IdleCalls
<1>5. AddrInv'
  BY DEF OwnInv, AddrInv
<1> QED
  BY <1>2, <1>3, <1>4, <1>5 DEF OwnInv

\* A loop of init or deinit goes on, or its call returns.
LEMMA NextIndexRest ==
    ASSUME TypeOK, NEW a \in Apps, NEW label \in {"wipe", "sweep"},
           NextIndex(a, label)
    PROVE  app'[a].pc \in {label, "idle"} /\ app'[a].sweep = FALSE
BY DEF NextIndex, Return, Idle, Call, TypeOK

LEMMA OwnInitSlot ==
    ASSUME NEW c \in Apps, OwnInv(c), TableInv(c)', InitSlot(c)
    PROVE  OwnInv(c)'
<1> DEFINE h == app[c].h
<1>0. /\ TypeOK /\ app[c] # Idle /\ h \in Handles
      /\ \A g \in Handles : ~Attached(g)
  BY HandleType, IdleFields DEF OwnInv, TableInv, CallOk, InitSlot, At
<1>1. /\ app'[c].pc \in {"wipe", "idle"} /\ app'[c].sweep = FALSE
      /\ \A b \in Apps \ {c} : app'[b] = app[b]
      /\ thread' = thread /\ params' = params
  BY <1>0, NextIndexMoves, NextIndexRest DEF InitSlot
<1>2. /\ ~slot'[h].flag
      /\ \A g \in Handles \ {h} : slot'[g] = slot[g]
  <2>1. slot' = [slot EXCEPT ![h] =
                   [slot[h] EXCEPT !.flag = FALSE, !.fd = Nil, !.func = Nil]]
    BY <1>0 DEF InitSlot, TypeOK
  <2> QED
    BY <1>0, <2>1 DEF TypeOK, Slot
<1>3. CallOk(c)'
  BY <1>0, <1>1, AttachedKept DEF CallOk, At, Creating
<1> QED
  BY <1>0, <1>1, <1>2, <1>3, OwnTableStep

\* Where a call is that goes to a label.
LEMMA GotoKeeps ==
    ASSUME TypeOK, NEW a \in Apps, NEW label, Goto(a, label)
    PROVE  app'[a].sweep = app[a].sweep
BY DEF Goto, TypeOK, App

\* create works on an entry whose flag is down, so no thread is attached to it.
LEMMA OwnCreate ==
    ASSUME NEW c \in Apps, OwnInv(c), TableInv(c)',
           \/ \E fd \in Fds : CreateSocket(c, fd)
           \/ CreateNoSocket(c) \/ CreateBind(c) \/ CreateJoinGroup(c)
           \/ CreateUndo(c) \/ CreatePublish(c)
    PROVE  OwnInv(c)'
<1> DEFINE h == app[c].h
<1>0. /\ TypeOK /\ app[c] # Idle /\ h \in Handles
      /\ At(c, "socket") \/ Creating(c)
  BY HandleType, IdleFields
  DEF OwnInv, TableInv, At, Creating, CreateSocket, CreateNoSocket, CreateBind,
      CreateJoinGroup, CreateUndo, CreatePublish
<1>1. ~slot[h].flag
  BY <1>0 DEF OwnInv, TableInv
<1>2. ~Attached(h)
  BY <1>1 DEF OwnInv, ThreadOk, Attached
<1>3. thread' = thread /\ params' = params
  BY DEF CreateSocket, CreateNoSocket, CreateBind, CreateJoinGroup, CreateUndo,
         CreatePublish
<1>4. Creating(c) => slot[h].addr = "given"
  BY DEF OwnInv, CallOk
<1>5. app[c].sweep => \A g \in Handles : ~Attached(g)'
  BY <1>3, AttachedKept DEF OwnInv, CallOk
<1>6. ASSUME NEW fd \in Fds, CreateSocket(c, fd)
      PROVE  OwnInv(c)'
  <2>1. slot' = [slot EXCEPT ![h] = [slot[h] EXCEPT !.fd = fd, !.addr = "given"]]
    BY <1>0, <1>6 DEF CreateSocket, TypeOK
  <2>2. /\ slot'[h].addr = "given"
        /\ \A g \in Handles \ {h} : slot'[g] = slot[g]
    BY <1>0, <2>1 DEF TypeOK, Slot
  <2>3. /\ app'[c].pc \in {"bind", "publish"} /\ app'[c].h = h
        /\ app'[c].sweep = app[c].sweep
        /\ \A b \in Apps \ {c} : app'[b] = app[b]
    BY <1>0, <1>6, GotoMoves, GotoKeeps DEF CreateSocket
  <2>4. CallOk(c)'
    BY <1>5, <2>2, <2>3 DEF CallOk, At
  <2> QED
    BY <1>0, <1>2, <1>3, <2>2, <2>3, <2>4, OwnTableStep
<1>7. CASE CreateNoSocket(c)
  <2>1. /\ slot'[h].flag = FALSE
        /\ \A g \in Handles \ {h} : slot'[g] = slot[g]
    BY <1>0, <1>1, <1>7, SetFd DEF CreateNoSocket
  <2>2. app'[c] = Idle /\ \A b \in Apps \ {c} : app'[b] = app[b]
    BY <1>0, <1>7 DEF CreateNoSocket, Return, TypeOK
  <2>3. CallOk(c)'
    BY <2>2, AtRest, IdleFields
  <2> QED
    BY <1>0, <1>2, <1>3, <2>1, <2>2, <2>3, OwnTableStep
<1>8. CASE CreateBind(c) \/ CreateJoinGroup(c)
  <2>1. /\ app'[c].pc \in {"join group", "publish"} /\ app'[c].h = h
        /\ app'[c].sweep = app[c].sweep
        /\ \A b \in Apps \ {c} : app'[b] = app[b]
    BY <1>0, <1>8, GotoMoves, GotoKeeps DEF CreateBind, CreateJoinGroup
  <2>2. slot' = slot /\ slot[h].addr = "given"
    BY <1>4, <1>8 DEF CreateBind, CreateJoinGroup, Creating
  <2>3. CallOk(c)'
    BY <1>5, <2>1, <2>2 DEF CallOk, At
  <2> QED
    BY <1>0, <1>3, <2>1, <2>2, <2>3, OwnNoWrite
<1>9. CASE CreateUndo(c)
  <2>1. app'[c] = Idle /\ \A b \in Apps \ {c} : app'[b] = app[b]
    BY <1>0, <1>9 DEF CreateUndo, Return, TypeOK
  <2>2. slot' = slot
    BY <1>9 DEF CreateUndo
  <2>3. CallOk(c)'
    BY <2>1, AtRest, IdleFields
  <2> QED
    BY <1>0, <1>3, <2>1, <2>2, <2>3, OwnNoWrite
<1>10. CASE CreatePublish(c)
  <2>1. slot[h].addr = "given"
    BY <1>4, <1>10 DEF CreatePublish, Creating
  <2>2. slot' = [slot EXCEPT ![h] = [slot[h] EXCEPT !.flag = TRUE]]
    BY <1>10 DEF CreatePublish
  <2>3. /\ slot'[h].addr = "given"
        /\ \A g \in Handles \ {h} : slot'[g] = slot[g]
    BY <1>0, <2>1, <2>2 DEF TypeOK, Slot
  <2>4. app'[c] = Idle /\ \A b \in Apps \ {c} : app'[b] = app[b]
    BY <1>0, <1>10 DEF CreatePublish, Return, TypeOK
  <2>5. CallOk(c)'
    BY <2>4, AtRest, IdleFields
  <2> QED
    BY <1>0, <1>2, <1>3, <2>3, <2>4, <2>5, OwnTableStep
<1> QED
  BY <1>6, <1>7, <1>8, <1>9, <1>10

\* destory and deinit work on an entry whose thread has been joined.
LEMMA OwnDestory ==
    ASSUME NEW c \in Apps, OwnInv(c), TableInv(c)',
           \/ DestoryClose(c) \/ DestoryClearFd(c) \/ DestoryClearFlag(c)
           \/ DeinitSlot(c)
    PROVE  OwnInv(c)'
<1> DEFINE h == app[c].h
<1>0. /\ TypeOK /\ app[c] # Idle /\ h \in Handles
  BY HandleType, IdleFields
  DEF OwnInv, TableInv, At, DestoryClose, DestoryClearFd, DestoryClearFlag,
      DeinitSlot
<1>1. ~Attached(h)
  BY <1>0 DEF OwnInv, CallOk, At, DestoryClose, DestoryClearFd,
              DestoryClearFlag, DeinitSlot
<1>2. thread' = thread /\ params' = params
  BY DEF DestoryClose, DestoryClearFd, DestoryClearFlag, DeinitSlot
<1>3. \A g \in Handles : Attached(g)' <=> Attached(g)
  BY <1>2, AttachedKept
<1>4. app[c].sweep => \A g \in Handles : ~Attached(g)
  BY DEF OwnInv, CallOk
<1>5. slot[h].flag /\ slot[h].kind = "SEND" => slot[h].addr = "given"
  BY <1>0 DEF OwnInv, AddrInv
<1>6. CASE DestoryClose(c)
  <2>1. /\ app'[c].pc = "clear fd" /\ app'[c].h = h
        /\ app'[c].sweep = app[c].sweep
        /\ \A b \in Apps \ {c} : app'[b] = app[b]
    BY <1>0, <1>6, GotoMoves, GotoKeeps DEF DestoryClose
  <2>2. slot' = slot
    BY <1>6 DEF DestoryClose
  <2>3. CallOk(c)'
    BY <1>0, <1>1, <1>3, <1>4, <2>1 DEF CallOk, At, Creating
  <2> QED
    BY <1>0, <1>2, <2>1, <2>2, <2>3, OwnNoWrite
<1>7. CASE DestoryClearFd(c)
  <2>1. /\ app'[c].pc = "clear flag" /\ app'[c].h = h
        /\ app'[c].sweep = app[c].sweep
        /\ \A b \in Apps \ {c} : app'[b] = app[b]
    BY <1>0, <1>7, GotoMoves, GotoKeeps DEF DestoryClearFd
  <2>2. slot' = [slot EXCEPT ![h] = [slot[h] EXCEPT !.fd = Nil]]
    BY <1>7 DEF DestoryClearFd
  <2>3. /\ slot'[h].flag = slot[h].flag /\ slot'[h].kind = slot[h].kind
        /\ slot'[h].addr = slot[h].addr
        /\ \A g \in Handles \ {h} : slot'[g] = slot[g]
    BY <1>0, <2>2 DEF TypeOK, Slot
  <2>4. CallOk(c)'
    BY <1>0, <1>1, <1>3, <1>4, <2>1 DEF CallOk, At, Creating
  <2> QED
    BY <1>0, <1>1, <1>2, <1>5, <2>1, <2>3, <2>4, OwnTableStep
<1>8. CASE DestoryClearFlag(c)
  <2>1. /\ app'[c].pc \in {"sweep", "idle"} /\ app'[c].sweep = FALSE
        /\ app'[c].pc = "sweep" => app[c].sweep
        /\ \A b \in Apps \ {c} : app'[b] = app[b]
    <3>1. CASE app[c].sweep
      BY <1>0, <1>8, <3>1, NextIndexMoves, NextIndexRest DEF DestoryClearFlag
    <3>2. CASE ~app[c].sweep
      <4>1. app' = [app EXCEPT ![c] = Idle]
        BY <1>8, <3>2 DEF DestoryClearFlag, Return
      <4> QED
        BY <1>0, <4>1, IdleFields DEF TypeOK
    <3> QED
      BY <3>1, <3>2
  <2>2. /\ slot'[h].flag = FALSE
        /\ \A g \in Handles \ {h} : slot'[g] = slot[g]
    BY <1>0, <1>8, SetFlag DEF DestoryClearFlag
  <2>3. CallOk(c)'
    BY <1>3, <1>4, <2>1 DEF CallOk, At, Creating
  <2> QED
    BY <1>0, <1>1, <1>2, <2>1, <2>2, <2>3, OwnTableStep
<1>9. CASE DeinitSlot(c)
  <2>0. slot' = slot /\ \A g \in Handles : ~Attached(g)
    BY <1>9 DEF DeinitSlot, OwnInv, CallOk
  <2>1. /\ app'[c].pc \in {"sweep", "idle", "close"}
        /\ app'[c].pc = "close" => app'[c].h = h
        /\ \A b \in Apps \ {c} : app'[b] = app[b]
    <3>1. CASE slot[h].flag
      <4>1. app' = [app EXCEPT ![c] = [app[c] EXCEPT !.pc = "close", !.sweep = TRUE]]
        BY <1>9, <3>1 DEF DeinitSlot
      <4> QED
        BY <1>0, <4>1 DEF TypeOK, App
    <3>2. CASE ~slot[h].flag
      BY <1>0, <1>9, <3>2, NextIndexMoves DEF DeinitSlot
    <3> QED
      BY <3>1, <3>2
  <2>2. CallOk(c)'
    BY <1>0, <1>3, <2>0, <2>1 DEF CallOk, At, Creating
  <2> QED
    BY <1>0, <1>2, <2>0, <2>1, <2>2, OwnNoWrite
<1> QED
  BY <1>6, <1>7, <1>8, <1>9

\* open: the thread gets an id no handle names for a living thread, and is the
\* first of its handle.
LEMMA OwnSpawn ==
    ASSUME NEW c \in Apps, OwnInv(c), TableInv(c)', NEW a \in Apps,
           NEW t \in Threads, OpenSpawn(a, t)
    PROVE  OwnInv(c)'
<1> DEFINE h == app[a].h
<1>0. /\ TypeOK /\ app[a] # Idle /\ h \in Handles
  BY HandleType, IdleFields DEF OwnInv, TableInv, At, OpenSpawn
<1>1. /\ slot[h].flag /\ slot[h].kind = "RECEIVE" /\ ~Attached(h) /\ params = h
      /\ \A u \in Threads : thread[u].st # "starting"
  BY DEF OwnInv, CallOk, OpenSpawn
<1>2. /\ app'[a] = Idle /\ \A b \in Apps \ {a} : app'[b] = app[b]
      /\ params' = params
  BY <1>0 DEF OpenSpawn, Return, TypeOK
<1>3. OneCall' /\ \A b \in Apps : CallOk(b)'
  BY <1>0, <1>2, OthersIdle, IdleCalls, AtRest, IdleFields DEF OwnInv
<1>4. slot' = [slot EXCEPT ![h] = [slot[h] EXCEPT !.recvThread = t]]
  BY DEF OpenSpawn
<1>5. /\ slot'[h] = [slot[h] EXCEPT !.recvThread = t]
      /\ \A g \in Handles \ {h} : slot'[g] = slot[g]
  BY <1>0, <1>4 DEF TypeOK
<1>a. /\ slot'[h].flag = slot[h].flag
      /\ slot'[h].kind = slot[h].kind
      /\ slot'[h].recvThread = t
  BY <1>0, <1>5 DEF TypeOK, Slot
<1>6. /\ thread[t].st = "unused"
      /\ thread' = [thread EXCEPT
                      ![t] = [thread[t] EXCEPT !.st = "starting", !.madeFor = h]]
  BY DEF OpenSpawn
<1>7. ThreadOk(t)'
  <2>1. ~thread[t].cancel
    BY DEF OwnInv, ThreadOk
  <2>2. /\ thread'[t].st = "starting" /\ thread'[t].madeFor = h
        /\ thread'[t].cancel = thread[t].cancel
    BY <1>0, <1>6 DEF TypeOK, Thread
  <2>3. slot'[h].flag /\ slot'[h].kind = "RECEIVE" /\ slot'[h].recvThread = t
    BY <1>1, <1>a
  <2>4. params' = h
    BY <1>1, <1>2
  <2> QED
    BY <2>1, <2>2, <2>3, <2>4 DEF ThreadOk, Serving
<1>8. ASSUME NEW u \in Threads \ {t}
      PROVE  ThreadOk(u)'
  <2>1. thread'[u] = thread[u] /\ ThreadOk(u) /\ thread[u].madeFor \in Handles
    BY <1>0, <1>6 DEF OwnInv, TypeOK, Thread
  <2>2. CASE thread[u].st = "unused"
    BY <2>1, <2>2 DEF ThreadOk, Serving
  <2>3. CASE thread[u].st # "unused"
    <3> DEFINE g == thread[u].madeFor
    <3>1. g # h /\ thread[u].st # "starting"
      BY <1>1, <2>3 DEF Attached
    <3>2. /\ slot'[g].flag = slot[g].flag
          /\ slot'[g].kind = slot[g].kind
          /\ slot'[g].fd = slot[g].fd
          /\ slot'[g].recvThread = slot[g].recvThread
      BY <1>5, <2>1, <3>1
    <3>3. thread'[u].madeFor = g
      BY <2>1
    <3> QED
      BY <2>1, <3>1, <3>2, <3>3 DEF ThreadOk
  <2> QED
    BY <2>2, <2>3
<1>9. AddrInv'
  <2>1. ASSUME NEW g \in Handles, slot'[g].flag /\ slot'[g].kind = "SEND"
        PROVE  slot'[g].addr = "given"
    <3>1. g # h
      BY <1>1, <1>a, <2>1
    <3>2. slot'[g] = slot[g]
      BY <1>5, <3>1
    <3> QED
      BY <2>1, <3>2 DEF OwnInv, AddrInv
  <2> QED
    BY <2>1 DEF AddrInv
<1>10. \A u \in Threads : ThreadOk(u)'
  BY <1>7, <1>8
<1> QED
  BY <1>3, <1>9, <1>10 DEF OwnInv

\* close: the thread that has ended is detached from its handle.
LEMMA OwnJoined ==
    ASSUME NEW c \in Apps, OwnInv(c), TableInv(c)', NEW a \in Apps, CloseJoined(a)
    PROVE  OwnInv(c)'
<1> DEFINE h == app[a].h
<1>0. TypeOK /\ app[a] # Idle /\ h \in Handles
  BY HandleType, IdleFields DEF OwnInv, TableInv, At, CloseJoined
<1>t. PICK t \in Threads : /\ t = app[a].tid
                           /\ thread[t].st # "unused" /\ thread[t].madeFor = h
  BY DEF OwnInv, CallOk, CloseJoined
<1>1. thread[t].st # "unused" /\ thread[t].madeFor = h /\ slot[h].recvThread = t
  BY <1>t DEF OwnInv, ThreadOk
<1>2. app' = [app EXCEPT ![a] = [app[a] EXCEPT !.pc = "cancel", !.tid = Nil]]
  BY DEF CloseJoined
<1>3. /\ app'[a].pc = "cancel" /\ app'[a].h = h /\ app'[a].sweep = app[a].sweep
      /\ \A b \in Apps \ {a} : app'[b] = app[b]
  BY <1>0, <1>2 DEF TypeOK, App
<1>4. slot' = slot /\ params' = params /\ thread' = [thread EXCEPT ![t] = NoThread]
  BY <1>t DEF CloseJoined
<1>5. /\ thread'[t].st = "unused" /\ ~thread'[t].cancel
      /\ \A u \in Threads \ {t} : thread'[u] = thread[u]
  BY <1>0, <1>1, <1>4 DEF TypeOK, NoThread
<1>6. ~app[a].sweep
  BY <1>0, <1>1 DEF OwnInv, CallOk, Attached
<1>7. CallOk(a)'
  BY <1>1, <1>3, <1>4, <1>5, <1>6 DEF CallOk, At, Creating
<1>8. OneCall' /\ \A b \in Apps : CallOk(b)'
  BY <1>0, <1>3, <1>7, OthersIdle, IdleCalls DEF OwnInv
<1>9. ThreadOk(t)'
  BY <1>5 DEF ThreadOk, Serving
<1>10. \A u \in Threads \ {t} : ThreadOk(u)'
  BY <1>4, <1>5 DEF OwnInv, ThreadOk
<1>11. AddrInv'
  BY <1>4 DEF OwnInv, AddrInv
<1>12. \A u \in Threads : ThreadOk(u)'
  BY <1>9, <1>10
<1> QED
  BY <1>8, <1>11, <1>12 DEF OwnInv

\* The other steps of open, close and send.
LEMMA OwnQuiet ==
    ASSUME NEW c \in Apps, OwnInv(c), TableInv(c)', NEW a \in Apps,
           OpenFails(a) \/ CloseCancel(a) \/ CloseUnregister(a) \/ SendChunk(a)
    PROVE  OwnInv(c)'
<1> DEFINE h == app[a].h
<1>0. TypeOK /\ app[a] # Idle /\ h \in Handles
  BY HandleType, IdleFields
  DEF OwnInv, TableInv, At, OpenFails, CloseCancel, CloseUnregister, SendChunk
<1>1. CASE OpenFails(a)
  <2>1. app'[a] = Idle /\ \A b \in Apps \ {a} : app'[b] = app[b]
    BY <1>0, <1>1 DEF OpenFails, Return, TypeOK
  <2>2. CallOk(a)'
    BY <2>1, AtRest, IdleFields
  <2> QED
    BY <1>0, <1>1, <2>1, <2>2, OwnNoWrite DEF OpenFails
<1>2. CASE CloseCancel(a)
  <2>1. thread' = thread
    <3>1. slot[h].recvThread \in Threads \cup {Nil}
      BY <1>0 DEF TypeOK, Slot
    <3>2. slot[h].recvThread \in Threads
             => thread[slot[h].recvThread].st = "unused"
      BY <1>2 DEF OwnInv, CallOk, CloseCancel
    <3> QED
      BY <1>2, <3>1, <3>2 DEF CloseCancel
  <2>2. /\ app'[a].pc = "unregister" /\ app'[a].sweep = app[a].sweep
        /\ \A b \in Apps \ {a} : app'[b] = app[b]
    BY <1>0, <1>2, GotoMoves, GotoKeeps DEF CloseCancel
  <2>3. app[a].sweep => \A g \in Handles : ~Attached(g)'
    BY <2>1, AttachedKept DEF OwnInv, CallOk
  <2>4. CallOk(a)'
    BY <2>2, <2>3 DEF CallOk, At, Creating
  <2> QED
    BY <1>0, <1>2, <2>1, <2>2, <2>4, OwnNoWrite DEF CloseCancel
<1>3. CASE CloseUnregister(a)
  <2>1. app'[a] = Idle /\ \A b \in Apps \ {a} : app'[b] = app[b]
    BY <1>0, <1>3 DEF CloseUnregister, Return, TypeOK
  <2>2. \A g \in Handles : /\ slot'[g].flag = slot[g].flag
                           /\ slot'[g].kind = slot[g].kind
                           /\ slot'[g].recvThread = slot[g].recvThread
                           /\ slot'[g].fd = slot[g].fd
                           /\ slot'[g].addr = slot[g].addr
    BY <1>0, <1>3, SetFunc DEF CloseUnregister
  <2> QED
    BY <1>0, <1>3, <2>1, <2>2, OwnFunc DEF CloseUnregister
<1>4. CASE SendChunk(a)
  <2>0. slot' = slot /\ thread' = thread /\ params' = params
    BY <1>4 DEF SendChunk
  <2>1. CASE app[a].rem > 1
    <3>1. app' = [app EXCEPT ![a] = [app[a] EXCEPT !.rem = @ - 1]]
      BY <1>4, <2>1 DEF SendChunk
    <3>2. /\ app'[a].pc = "send" /\ app'[a].h = h /\ app'[a].sweep = app[a].sweep
          /\ \A b \in Apps \ {a} : app'[b] = app[b]
      BY <1>0, <1>4, <3>1 DEF TypeOK, App, SendChunk, At
    <3>3. app[a].sweep => \A g \in Handles : ~Attached(g)'
      BY <2>0, AttachedKept DEF OwnInv, CallOk
    <3>4. slot[h].flag /\ slot[h].kind = "SEND"
      BY <1>4 DEF OwnInv, CallOk, SendChunk
    <3>5. CallOk(a)'
      BY <2>0, <3>2, <3>3, <3>4 DEF CallOk, At, Creating
    <3> QED
      BY <1>0, <2>0, <3>2, <3>5, OwnNoWrite
  <2>2. CASE ~(app[a].rem > 1)
    <3>1. app'[a] = Idle /\ \A b \in Apps \ {a} : app'[b] = app[b]
      BY <1>0, <1>4, <2>2 DEF SendChunk, Return, TypeOK
    <3>2. CallOk(a)'
      BY <3>1, AtRest, IdleFields
    <3> QED
      BY <1>0, <2>0, <3>1, <3>2, OwnNoWrite
  <2> QED
    BY <2>1, <2>2
<1> QED
  BY <1>1, <1>2, <1>3, <1>4

LEMMA OwnAppStep ==
    ASSUME NEW c \in Apps, OwnInv(c), TableInv(c)', NEW a \in Apps, AppStep(a)
    PROVE  OwnInv(c)'
<1>1. CASE \/ InitSlot(a)
           \/ \E fd \in Fds : CreateSocket(a, fd)
           \/ CreateNoSocket(a) \/ CreateBind(a) \/ CreateJoinGroup(a)
           \/ CreateUndo(a) \/ CreatePublish(a) \/ DestoryClose(a)
           \/ DestoryClearFd(a) \/ DestoryClearFlag(a) \/ DeinitSlot(a)
  <2>1. app[a].pc \in ControlLabels
    BY <1>1 DEF InitSlot, CreateSocket, CreateNoSocket, CreateBind,
                CreateJoinGroup, CreateUndo, CreatePublish, DestoryClose,
                DestoryClearFd, DestoryClearFlag, DeinitSlot, At, ControlLabels
  <2>2. a = c
    BY <2>1 DEF OwnInv, TableInv
  <2> QED
    BY <1>1, <2>2, OwnInitSlot, OwnCreate, OwnDestory
<1>2. CASE \/ \E t \in Threads : OpenSpawn(a, t)
           \/ OpenFails(a) \/ CloseJoined(a) \/ CloseCancel(a)
           \/ CloseUnregister(a) \/ SendChunk(a)
  BY <1>2, OwnSpawn, OwnJoined, OwnQuiet
<1> QED
  BY <1>1, <1>2 DEF AppStep

-----------------------------------------------------------------------------
(* The orderly client: the receiver threads. *)

\* What every step of a receiver thread leaves as it is.
LEMMA RecvKeeps ==
    ASSUME TypeOK, NEW t \in Threads, RecvStep(t) \/ RecvData(t)
    PROVE  /\ app' = app /\ params' = params /\ thread[t].st # "unused"
           /\ thread'[t].st \notin {"unused", "starting"}
           /\ thread'[t].madeFor = thread[t].madeFor
           /\ thread'[t].cancel = thread[t].cancel
           /\ \A u \in Threads \ {t} : thread'[u] = thread[u]
<1>0. thread \in [Threads -> Thread] /\ thread[t] \in Thread
  BY DEF TypeOK
<1>1. app' = app /\ params' = params
  BY DEF RecvStep, RecvStart, RecvTest, RecvLoad, RecvEnter, RecvData,
         RecvTimeout, RecvCancelled, RecvCall, RecvReturn
<1>2. CASE RecvStart(t)
  BY <1>0, <1>1, <1>2 DEF RecvStart, Thread
<1>3. CASE RecvTest(t)
  BY <1>0, <1>1, <1>3 DEF RecvTest, Thread
<1>4. CASE RecvLoad(t)
  BY <1>0, <1>1, <1>4 DEF RecvLoad, Thread
<1>5. CASE RecvEnter(t)
  BY <1>0, <1>1, <1>5 DEF RecvEnter, Thread
<1>6. CASE RecvTimeout(t) \/ RecvCancelled(t) \/ RecvReturn(t) \/ RecvData(t)
  BY <1>0, <1>1, <1>6
  DEF RecvTimeout, RecvCancelled, RecvReturn, RecvData, Thread
<1>7. CASE RecvCall(t)
  BY <1>0, <1>1, <1>7 DEF RecvCall, Thread
<1> QED
  BY <1>2, <1>3, <1>4, <1>5, <1>6, <1>7 DEF RecvStep

\* Of the table, at most the address of the handle the thread serves.
LEMMA RecvWrites ==
    ASSUME TypeOK, NEW t \in Threads, RecvStep(t) \/ RecvData(t)
    PROVE  /\ \A g \in Handles : /\ slot'[g].flag = slot[g].flag
                                 /\ slot'[g].kind = slot[g].kind
                                 /\ slot'[g].recvThread = slot[g].recvThread
                                 /\ slot'[g].fd = slot[g].fd
           /\ \A g \in Handles : \/ slot'[g].addr = slot[g].addr
                                 \/ /\ thread[t].st = "blocked"
                                    /\ g = thread[t].serves
<1>1. CASE RecvStep(t)
  <2>1. slot' = slot
    BY <1>1 DEF RecvStep, RecvStart, RecvTest, RecvLoad, RecvEnter,
                RecvTimeout, RecvCancelled, RecvCall, RecvReturn
  <2> QED
    BY <2>1
<1>2. CASE RecvData(t)
  <2>1. /\ thread[t].st = "blocked"
        /\ slot' = [slot EXCEPT ![thread[t].serves] =
                      [slot[thread[t].serves] EXCEPT !.addr = "peer"]]
    BY <1>2 DEF RecvData
  <2> QED
    BY <2>1 DEF TypeOK, Slot
<1> QED
  BY <1>1, <1>2

\* The thread reads its handle while the static still names it, and then its
\* socket while the handle still has it.
LEMMA OwnThread ==
    ASSUME NEW c \in Apps, OwnInv(c), NEW t \in Threads, RecvStep(t) \/ RecvData(t)
    PROVE  ThreadOk(t)'
<1> DEFINE h == thread[t].madeFor
<1>0. TypeOK /\ h \in Handles /\ thread[t] \in Thread /\ ThreadOk(t)
  BY DEF OwnInv, TableInv, TypeOK, Thread
<1>1. /\ thread'[t].madeFor = h /\ ~thread'[t].cancel
      /\ thread'[t].st \notin {"unused", "starting"}
      /\ slot'[h].flag /\ slot'[h].kind = "RECEIVE" /\ slot'[h].recvThread = t
      /\ slot'[h].fd = slot[h].fd
  BY <1>0, RecvKeeps, RecvWrites DEF ThreadOk
<1>2. thread'[t].st \in Serving => thread'[t].serves = h
  <2>1. CASE RecvStart(t)
    <3>1. thread'[t].serves = params /\ thread[t].st = "starting"
      BY <1>0, <2>1 DEF RecvStart, TypeOK, Thread
    <3> QED
      BY <1>0, <3>1 DEF ThreadOk
  <2>2. CASE ~RecvStart(t)
    <3>1. thread'[t].serves = thread[t].serves /\ thread[t].st \in Serving
      <4>1. CASE RecvTest(t) \/ RecvLoad(t) \/ RecvEnter(t)
        BY <1>0, <4>1 DEF RecvTest, RecvLoad, RecvEnter, TypeOK, Thread, Serving
      <4>2. CASE RecvTimeout(t) \/ RecvCancelled(t) \/ RecvReturn(t) \/ RecvData(t)
        BY <1>0, <4>2
        DEF RecvTimeout, RecvCancelled, RecvReturn, RecvData, TypeOK, Thread, Serving
      <4>3. CASE RecvCall(t)
        BY <1>0, <4>3 DEF RecvCall, TypeOK, Thread, Serving
      <4> QED
        BY <2>2, <4>1, <4>2, <4>3 DEF RecvStep
    <3> QED
      BY <1>0, <3>1 DEF ThreadOk
  <2> QED
    BY <2>1, <2>2
<1>3. thread'[t].st \in {"enter", "blocked"} => thread'[t].fd = slot[h].fd
  <2>1. CASE RecvLoad(t)
    <3>1. thread'[t].fd = slot[thread[t].serves].fd /\ thread[t].st = "load"
      BY <1>0, <2>1 DEF RecvLoad, TypeOK, Thread
    <3> QED
      BY <1>0, <3>1 DEF ThreadOk, Serving
  <2>2. CASE RecvEnter(t)
    <3>1. thread'[t].fd = thread[t].fd /\ thread[t].st = "enter"
      BY <1>0, <2>2 DEF RecvEnter, TypeOK, Thread
    <3> QED
      BY <1>0, <3>1 DEF ThreadOk
  <2>3. CASE RecvStart(t) \/ RecvTest(t)
    BY <1>0, <2>3 DEF RecvStart, RecvTest, TypeOK, Thread
  <2>4. CASE RecvTimeout(t) \/ RecvCancelled(t) \/ RecvReturn(t) \/ RecvData(t)
    BY <1>0, <2>4 DEF RecvTimeout, RecvCancelled, RecvReturn, RecvData, TypeOK, Thread
  <2>5. CASE RecvCall(t)
    BY <1>0, <2>5 DEF RecvCall, TypeOK, Thread
  <2> QED
    BY <2>1, <2>2, <2>3, <2>4, <2>5 DEF RecvStep
<1> QED
  BY <1>1, <1>2, <1>3 DEF ThreadOk

LEMMA OwnRecv ==
    ASSUME NEW c \in Apps, Controls = {c}, OwnInv(c), TableInv(c)',
           NEW t \in Threads, RecvStep(t) \/ RecvData(t)
    PROVE  OwnInv(c)'
<1>0. TypeOK
  BY DEF OwnInv, TableInv
<1>1. /\ app' = app /\ params' = params /\ thread[t].st # "unused"
      /\ thread'[t].st \notin {"unused", "starting"}
      /\ thread'[t].madeFor = thread[t].madeFor
      /\ \A u \in Threads \ {t} : thread'[u] = thread[u]
  BY <1>0, RecvKeeps
<1>2. \A g \in Handles : /\ slot'[g].flag = slot[g].flag
                         /\ slot'[g].kind = slot[g].kind
                         /\ slot'[g].recvThread = slot[g].recvThread
                         /\ slot'[g].fd = slot[g].fd
  BY <1>0, RecvWrites
<1>3. ASSUME NEW g \in Handles, ~slot[g].flag \/ slot[g].kind = "SEND"
      PROVE  slot'[g].addr = slot[g].addr
  <2>1. thread[t].st = "blocked" => g # thread[t].serves
    BY <1>3 DEF OwnInv, ThreadOk, Serving
  <2> QED
    BY <1>0, <2>1, RecvWrites
<1>4. \A u \in Threads : ThreadOk(u)'
  <2>1. ASSUME NEW u \in Threads \ {t} PROVE ThreadOk(u)'
    <3>1. ThreadOk(u) /\ thread[u].madeFor \in Handles
      BY <1>0 DEF OwnInv, TypeOK, Thread
    <3> QED
      BY <1>1, <1>2, <3>1 DEF ThreadOk
  <2> QED
    BY <2>1, OwnThread
<1>5. /\ \A h \in Handles : Attached(h)' <=> Attached(h)
      /\ \A u \in Threads : /\ thread'[u].st = "unused" <=> thread[u].st = "unused"
                            /\ thread'[u].madeFor = thread[u].madeFor
                            /\ thread[u].st # "starting" => thread'[u].st # "starting"
  BY <1>1 DEF Attached
<1>6. ASSUME NEW a \in Apps PROVE CallOk(a)'
  <2> DEFINE h == app[a].h
  <2>1. h \in Handles /\ CallOk(a) /\ app'[a] = app[a]
    BY <1>0, <1>1, HandleType DEF OwnInv
  <2>2. Creating(a) => ~slot[h].flag
    BY DEF OwnInv, TableInv, Creating, At, ControlLabels
  <2>3. Creating(a)' => slot'[app'[a].h].addr = "given"
    BY <1>3, <2>1, <2>2 DEF CallOk, Creating, At
  <2> QED
    BY ZenonT(60), <1>1, <1>2, <1>5, <2>1, <2>3 DEF CallOk, At
<1>7. OneCall' /\ AddrInv'
  <2>1. OneCall'
    BY <1>1 DEF OwnInv, OneCall, Idle, Call
  <2>2. AddrInv'
    BY <1>2, <1>3 DEF OwnInv, AddrInv
  <2> QED
    BY <2>1, <2>2
<1> QED
  BY <1>4, <1>6, <1>7 DEF OwnInv

LEMMA OwnNext ==
    ASSUME NEW c \in Apps, Controls = {c}, OwnInv(c), [OrderlyNext]_vars
    PROVE  OwnInv(c)'
<1>0. TableInv(c)'
  BY TableNext, OrderlyIsNext DEF OwnInv
<1>1. CASE UNCHANGED vars
  <2>1. \A h \in Handles : Attached(h)' <=> Attached(h)
    BY <1>1 DEF vars, Attached
  <2>2. OneCall' /\ AddrInv'
    BY <1>1 DEF vars, OwnInv, OneCall, Idle, Call, AddrInv
  <2>3. \A t \in Threads : ThreadOk(t)'
    BY <1>1 DEF vars, OwnInv, ThreadOk
  <2>4. ASSUME NEW a \in Apps PROVE CallOk(a)'
    <3>1. /\ CallOk(a)
          /\ app' = app /\ slot' = slot /\ thread' = thread /\ params' = params
          /\ app[a].h \in Handles
      BY <1>1, HandleType DEF vars, OwnInv, TableInv
    <3> QED
      BY <2>1, <3>1 DEF CallOk, At, Creating
  <2> QED
    BY <1>0, <2>2, <2>3, <2>4 DEF OwnInv
<1>2. ASSUME NEW a \in Controls, OrderlyControl(a)
      PROVE  OwnInv(c)'
  BY <1>0, <1>2, OwnControl
<1> QED
  BY <1>0, <1>1, <1>2, OwnCall, OwnAppStep, OwnRecv DEF OrderlyNext, Halted

\* The thread of a handle owns it.
LEMMA OwnGives ==
    ASSUME NEW c \in Apps, OwnInv(c)
    PROVE  ReceiversOwnTheirHandle
<1> SUFFICES ASSUME NEW t \in Threads, thread[t].st \in Serving
             PROVE  LET h == thread[t].serves IN
                    /\ h = thread[t].madeFor
                    /\ slot[h].recvThread = t
                    /\ Owns(h)
                    /\ thread[t].st \in {"enter", "blocked"}
                          => thread[t].fd = slot[h].fd
  BY DEF ReceiversOwnTheirHandle
<1> DEFINE h == thread[t].serves
<1>1. /\ h = thread[t].madeFor /\ slot[h].flag /\ slot[h].recvThread = t
      /\ thread[t].st \in {"enter", "blocked"} => thread[t].fd = slot[h].fd
      /\ thread[t].st # "unused"
  BY DEF OwnInv, ThreadOk, Serving
<1>2. Attached(h)
  BY <1>1 DEF Attached
<1>3. Owns(h)
  BY <1>1, <1>2 DEF OwnInv, CallOk, Owns
<1> QED
  BY <1>1, <1>3

\* The socket of a send's handle is open for as long as it sends.
LEMMA SendGives ==
    ASSUME NEW c \in Apps, Controls = {c}, OwnInv(c), NEW a \in Apps, SendChunk(a)
    PROVE  Open(slot[app[a].h].fd) /\ slot[app[a].h].addr = "given"
<1> DEFINE h == app[a].h
<1>1. /\ TypeOK /\ h \in Handles /\ slot[h].flag /\ slot[h].kind = "SEND"
      /\ At(a, "send") /\ app[a] # Idle
  BY HandleType, IdleFields DEF OwnInv, TableInv, CallOk, SendChunk, At
<1>2. c # a => app[c] = Idle
  BY <1>1 DEF OwnInv, OneCall
<1>3. ~At(c, "clear fd") /\ ~At(c, "clear flag")
  BY <1>1, <1>2, IdleFields DEF At
<1>4. InUse(c, h)
  BY <1>1, <1>3 DEF InUse
<1> QED
  BY <1>1, <1>4 DEF OwnInv, TableInv, AddrInv

\* For an orderly client: no stop, destory, failed create or reuse of a slot, a
\* descriptor or a thread id sends a receiver thread to another handle.
THEOREM OwnHandle ==
    ASSUME OneControl
    PROVE  OrderlySpec => []ReceiversOwnTheirHandle
<1>1. PICK c \in Apps : Controls = {c}
  BY DEF OneControl
<1>2. Init => OwnInv(c)
  BY OwnInit
<1>3. OwnInv(c) /\ [OrderlyNext]_vars => OwnInv(c)'
  BY <1>1, OwnNext
<1>4. OwnInv(c) => ReceiversOwnTheirHandle
  BY OwnGives
<1> QED
  BY <1>2, <1>3, <1>4, PTL DEF OrderlySpec

\* For an orderly client: every datagram of a send leaves through the open socket
\* of its handle for the address create was given.
THEOREM SendsArrive ==
    ASSUME OneControl
    PROVE  OrderlySpec => SendsGoToTheirDestination
<1> DEFINE Right == \A a \in Apps :
               SendChunk(a) => /\ Open(slot[app[a].h].fd)
                               /\ slot[app[a].h].addr = "given"
<1>1. PICK c \in Apps : Controls = {c}
  BY DEF OneControl
<1>2. Init => OwnInv(c)
  BY OwnInit
<1>3. OwnInv(c) /\ [OrderlyNext]_vars => OwnInv(c)'
  BY <1>1, OwnNext
<1>4. OwnInv(c) /\ [OrderlyNext]_vars => [Right]_vars
  BY <1>1, SendGives
<1> QED
  BY <1>2, <1>3, <1>4, PTL DEF OrderlySpec, SendsGoToTheirDestination
==============================================================================
