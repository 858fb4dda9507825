-------------------------- MODULE RtpHandles_proof --------------------------
(***************************************************************************)
(* Proofs about RtpHandles, for every number of handles, threads,          *)
(* callbacks, sources and packets.                                         *)
(***************************************************************************)
EXTENDS RtpHandlesClient, TLAPS

-----------------------------------------------------------------------------
(* Type correctness. *)

Labels == {"idle", "spawn", "join", "cancel", "unregister", "send", "count"}
              \cup ControlLabels

\* The record of a call that begins is well formed.
LEMMA CallType ==
    ASSUME NEW label \in Labels, NEW h \in Handles
    PROVE  Call(label, h) \in Calls
BY DEF Call, Calls, Labels

LEMMA IdleType == Idle \in Calls
<1>1. "idle" \in Labels /\ 0 \in Handles
  BY ConstantsAssumption DEF Labels, Handles
<1> QED
  BY <1>1, CallType DEF Idle

LEMMA BeginType ==
    ASSUME TypeOK, NEW x \in Callers, NEW label \in Labels, NEW h \in Handles,
           Begin(x, label, h)
    PROVE  call' \in [Callers -> Calls]
BY CallType DEF Begin, TypeOK

LEMMA GotoType ==
    ASSUME TypeOK, NEW x \in Callers, NEW label \in Labels, Goto(x, label)
    PROVE  call' \in [Callers -> Calls]
BY DEF Goto, TypeOK, Calls, Labels

LEMMA ReturnType ==
    ASSUME TypeOK, NEW x \in Callers, Return(x)
    PROVE  call' \in [Callers -> Calls]
BY IdleType DEF Return, TypeOK

LEMMA NextIndexType ==
    ASSUME TypeOK, NEW x \in Callers, NEW label \in Labels, NextIndex(x, label)
    PROVE  call' \in [Callers -> Calls]
BY CallType, ReturnType DEF NextIndex, TypeOK

LEMMA HandleType ==
    ASSUME TypeOK, NEW x \in Callers
    PROVE  call[x].h \in Handles
BY DEF TypeOK, Calls

LEMMA TypeInit == Init => TypeOK
<1> SUFFICES ASSUME Init PROVE TypeOK
  OBVIOUS
<1>1. slot \in [Handles -> Slot]
  BY DEF Init, Slot
<1>2. NoData \in [Sources -> 0 .. MaxPackets]
  BY ConstantsAssumption DEF NoData
<1>3. session \in [Handles -> Session]
  BY <1>2 DEF Init, Session
<1>4. 0 \in Handles /\ 1 \in 1 .. MaxSources + 1
  BY ConstantsAssumption DEF Handles
<1>5. thread \in [Threads -> Thread]
  BY <1>4 DEF Init, NoThread, Thread
<1>6. call \in [Callers -> Calls]
  BY IdleType DEF Init
<1> QED
  BY <1>1, <1>3, <1>4, <1>5, <1>6 DEF Init, TypeOK

LEMMA TypeControl ==
    ASSUME TypeOK, NEW a \in Controls, ControlCall(a)
    PROVE  TypeOK'
<1>0. 0 \in Handles /\ a \in Callers
  BY ConstantsAssumption DEF Handles, Callers
<1>1. {"wipe", "sweep", "create", "leave"} \subseteq Labels
  BY DEF Labels, ControlLabels
<1>2. call' \in [Callers -> Calls]
  BY <1>0, <1>1, BeginType
  DEF ControlCall, InitBegin, DeinitBegin, CreateBegin, DestoryBegin
<1> QED
  BY <1>2 DEF ControlCall, InitBegin, DeinitBegin, CreateBegin, DestoryBegin, TypeOK

LEMMA TypeCall ==
    ASSUME TypeOK, NEW x \in Callers, NEW h \in Handles, HandleCall(x, h)
    PROVE  TypeOK'
<1>0. {"spawn", "unregister", "send", "join"} \subseteq Labels
  BY DEF Labels
<1>1. ASSUME NEW f \in Callbacks \cup {Nil}, Register(x, h, f)
      PROVE  TypeOK'
  BY <1>1 DEF Register, TypeOK, Slot
<1>2. CASE OpenBegin(x, h)
  BY <1>0, <1>2, BeginType DEF OpenBegin, TypeOK
<1>3. CASE CloseBegin(x, h)
  <2>1. slot[h].recvThread \in Threads
    BY <1>3 DEF CloseBegin, TypeOK, Slot
  <2>2. Call("join", h) \in Calls
    BY <1>0, CallType
  <2>3. [Call("join", h) EXCEPT !.tid = slot[h].recvThread] \in Calls
    BY <2>1, <2>2 DEF Calls
  <2> QED
    BY <1>3, <2>3 DEF CloseBegin, TypeOK
<1>4. CASE CloseNoJoin(x, h)
  BY <1>0, <1>4, BeginType DEF CloseNoJoin, TypeOK
<1>5. CASE CloseCrash(x, h)
  BY <1>5 DEF CloseCrash, TypeOK
<1>6. CASE SendBegin(x, h)
  BY <1>0, <1>6, BeginType DEF SendBegin, TypeOK
<1> QED
  BY <1>1, <1>2, <1>3, <1>4, <1>5, <1>6 DEF HandleCall, Unregister

\* The steps of the calls a control thread makes.
LEMMA TypeControlStep ==
    ASSUME TypeOK, NEW x \in Callers,
           \/ InitSlot(x) \/ CreateSession(x) \/ CreateFails(x)
           \/ CreateJoinGroup(x) \/ CreateUndo(x) \/ CreatePublish(x)
           \/ Leave(x) \/ DestoryClearFlag(x) \/ DeinitSlot(x)
    PROVE  TypeOK'
<1> DEFINE h == call[x].h
<1>0. h \in Handles /\ slot[h] \in Slot /\ session[h] \in Session /\ call[x] \in Calls
  BY HandleType DEF TypeOK
<1>l. ControlLabels \subseteq Labels
  BY DEF Labels
<1>1. CASE InitSlot(x)
  <2>1. [slot[h] EXCEPT !.flag = FALSE, !.func = Nil] \in Slot
    BY <1>0 DEF Slot
  <2>2. slot' = [slot EXCEPT ![h] = [slot[h] EXCEPT !.flag = FALSE, !.func = Nil]]
    BY <1>0, <1>1 DEF InitSlot, TypeOK
  <2>3. slot' \in [Handles -> Slot]
    BY <2>1, <2>2, <1>0 DEF TypeOK
  <2>4. lost' \subseteq Handles
    BY <1>0, <1>1 DEF InitSlot, TypeOK
  <2>5. call' \in [Callers -> Calls]
    BY <1>1, <1>l, NextIndexType DEF InitSlot, ControlLabels
  <2> QED
    BY <1>1, <2>3, <2>4, <2>5 DEF InitSlot, TypeOK
<1>2. CASE CreateSession(x)
  <2>1. session' \in [Handles -> Session]
    BY <1>0, <1>2 DEF CreateSession, TypeOK, Session
  <2>2. call' \in [Callers -> Calls]
    BY <1>2, <1>l, GotoType DEF CreateSession, ControlLabels
  <2> QED
    BY <1>2, <2>1, <2>2 DEF CreateSession, TypeOK
<1>3. CASE CreateFails(x)
  BY <1>3, ReturnType DEF CreateFails, TypeOK
<1>4. CASE CreateJoinGroup(x) \/ CreateUndo(x)
  <2>1. call' \in [Callers -> Calls]
    BY <1>4, <1>l, GotoType DEF CreateJoinGroup, CreateUndo, ControlLabels
  <2> QED
    BY <1>4, <2>1 DEF CreateJoinGroup, CreateUndo, TypeOK
<1>5. CASE CreatePublish(x)
  BY <1>0, <1>5, ReturnType DEF CreatePublish, TypeOK, Slot
<1>6. CASE Leave(x)
  <2>1. NoData \in [Sources -> 0 .. MaxPackets]
    BY ConstantsAssumption DEF NoData
  <2>2. [session[h] EXCEPT !.created = FALSE, !.data = NoData] \in Session
    BY <1>0, <2>1 DEF Session
  <2>3. CASE session[h].created /\ Inside(h)
    BY <1>6, <2>3 DEF Leave, TypeOK
  <2>4. CASE ~(session[h].created /\ Inside(h))
    <3>1. session' = [session EXCEPT ![h] =
                        [session[h] EXCEPT !.created = FALSE, !.data = NoData]]
      BY <1>0, <1>6, <2>4 DEF Leave, TypeOK
    <3>2. session' \in [Handles -> Session]
      BY <1>0, <2>2, <3>1 DEF TypeOK
    <3>3. call' \in [Callers -> Calls]
      BY <1>6, <1>l, <2>4, GotoType, ReturnType DEF Leave, ControlLabels
    <3> QED
      BY <1>6, <2>4, <3>2, <3>3 DEF Leave, TypeOK
  <2> QED
    BY <2>3, <2>4
<1>7. CASE DestoryClearFlag(x)
  <2>1. slot' \in [Handles -> Slot]
    BY <1>0, <1>7 DEF DestoryClearFlag, TypeOK, Slot
  <2>2. call' \in [Callers -> Calls]
    BY <1>7, <1>l, ReturnType, NextIndexType DEF DestoryClearFlag, ControlLabels
  <2> QED
    BY <1>7, <2>1, <2>2 DEF DestoryClearFlag, TypeOK
<1>8. CASE DeinitSlot(x)
  <2>1. CASE slot[h].flag
    <3>1. [call[x] EXCEPT !.pc = "leave", !.sweep = TRUE] \in Calls
      BY <1>0 DEF Calls, ControlLabels
    <3> QED
      BY <1>8, <2>1, <3>1 DEF DeinitSlot, TypeOK
  <2>2. CASE ~slot[h].flag
    <3>1. call' \in [Callers -> Calls]
      BY <1>8, <1>l, <2>2, NextIndexType DEF DeinitSlot, ControlLabels
    <3> QED
      BY <1>8, <3>1 DEF DeinitSlot, TypeOK
  <2> QED
    BY <2>1, <2>2
<1> QED
  BY <1>1, <1>2, <1>3, <1>4, <1>5, <1>6, <1>7, <1>8

\* The steps of the calls any thread makes.
LEMMA TypeUserStep ==
    ASSUME TypeOK, NEW x \in Callers,
           \/ \E t \in Threads : OpenSpawn(x, t)
           \/ OpenFails(x) \/ CloseJoined(x) \/ CloseCancel(x)
           \/ CloseUnregister(x) \/ SendOut(x) \/ SendCount(x)
    PROVE  TypeOK'
<1> DEFINE h == call[x].h
<1>0. h \in Handles /\ slot[h] \in Slot /\ call[x] \in Calls
  BY HandleType DEF TypeOK
<1>1. ASSUME NEW t \in Threads, OpenSpawn(x, t)
      PROVE  TypeOK'
  <2>1. [thread[t] EXCEPT !.st = "starting", !.madeFor = h] \in Thread
    BY <1>0 DEF TypeOK, Thread
  <2>2. thread' = [thread EXCEPT ![t] =
                     [thread[t] EXCEPT !.st = "starting", !.madeFor = h]]
    BY <1>1 DEF OpenSpawn, TypeOK
  <2>3. thread' \in [Threads -> Thread]
    BY <2>1, <2>2 DEF TypeOK
  <2>4. slot' \in [Handles -> Slot]
    BY <1>0, <1>1 DEF OpenSpawn, TypeOK, Slot
  <2> QED
    BY <1>1, <2>3, <2>4, ReturnType DEF OpenSpawn, TypeOK
<1>2. CASE OpenFails(x)
  BY <1>2, ReturnType DEF OpenFails, TypeOK
<1>3. CASE CloseJoined(x)
  <2>1. [call[x] EXCEPT !.pc = "cancel", !.tid = Nil] \in Calls
    BY <1>0 DEF Calls
  <2>2. call' \in [Callers -> Calls]
    BY <1>3, <2>1 DEF CloseJoined, TypeOK
  <2>3. NoThread \in Thread
    BY ConstantsAssumption DEF NoThread, Thread, Handles
  <2>4. thread' \in [Threads -> Thread]
    BY <1>3, <2>3 DEF CloseJoined, TypeOK
  <2> QED
    BY <1>3, <2>2, <2>4 DEF CloseJoined, TypeOK
<1>4. CASE CloseCancel(x)
  <2> DEFINE t == slot[h].recvThread
  <2>0. t \in Threads \cup {Nil}
    BY <1>0 DEF Slot
  <2>1. ASSUME NEW u \in Threads
        PROVE  [thread[u] EXCEPT !.cancel = TRUE] \in Thread
    BY DEF TypeOK, Thread
  <2>2. thread' \in [Threads -> Thread]
    <3> HIDE DEF t
    <3>1. CASE t \in Threads /\ thread[t].st # "unused"
      BY <1>4, <2>1, <3>1 DEF CloseCancel, TypeOK, t
    <3>2. CASE ~(t # Nil /\ thread[t].st # "unused")
      BY <1>4, <3>2 DEF CloseCancel, TypeOK, t
    <3> QED
      BY <2>0, <3>1, <3>2
  <2>3. call' \in [Callers -> Calls]
    BY <1>4, GotoType DEF CloseCancel, Labels
  <2> QED
    BY <1>4, <2>2, <2>3 DEF CloseCancel, TypeOK
<1>5. CASE CloseUnregister(x)
  <2>1. slot' \in [Handles -> Slot]
    BY <1>0, <1>5 DEF CloseUnregister, TypeOK, Slot
  <2> QED
    BY <1>5, <2>1, ReturnType DEF CloseUnregister, TypeOK
<1>6. CASE SendOut(x) \/ SendCount(x)
  <2>1. call' \in [Callers -> Calls]
    BY <1>6, GotoType, ReturnType DEF SendOut, SendCount, Labels
  <2> QED
    BY <1>6, <2>1 DEF SendOut, SendCount, TypeOK
<1> QED
  BY <1>1, <1>2, <1>3, <1>4, <1>5, <1>6

LEMMA TypePoll ==
    ASSUME TypeOK, NEW h \in Handles, PollStep(h)
    PROVE  TypeOK'
<1>1. ASSUME NEW s \in Sources, NEW n \in 0 .. MaxPackets,
             session' = [session EXCEPT ![h].data[s] = n]
      PROVE  session' \in [Handles -> Session]
  BY <1>1 DEF TypeOK, Session
<1>2. \A s \in Sources : session[h].data[s] \in 0 .. MaxPackets
  BY DEF TypeOK, Session
<1>3. session' \in [Handles -> Session]
  <2>1. CASE Arrive(h)
    <3>1. PICK s \in Sources :
            /\ session[h].data[s] < MaxPackets
            /\ session' = [session EXCEPT ![h].data[s] = session[h].data[s] + 1]
      BY <2>1 DEF Arrive, TypeOK, Session
    <3>2. session[h].data[s] + 1 \in 0 .. MaxPackets
      BY <1>2, <3>1, ConstantsAssumption
    <3> QED
      BY <1>1, <3>1, <3>2
  <2>2. CASE SourceGone(h)
    <3>1. 0 \in 0 .. MaxPackets
      BY ConstantsAssumption
    <3> QED
      BY <1>1, <2>2, <3>1 DEF SourceGone
  <2> QED
    BY <2>1, <2>2 DEF PollStep
<1> QED
  BY <1>3 DEF PollStep, Arrive, SourceGone, TypeOK

\* A thread moves to another state.
LEMMA StateType ==
    ASSUME TypeOK, NEW t \in Threads,
           NEW s \in {"ended", "test", "begin", "access", "take", "call", "incall"},
           thread' = [thread EXCEPT ![t].st = s]
    PROVE  thread' \in [Threads -> Thread]
<1>1. thread[t] \in Thread
  BY DEF TypeOK
<1>2. [thread[t] EXCEPT !.st = s] \in Thread
  BY <1>1 DEF Thread, Serving, Reading
<1> QED
  BY <1>2 DEF TypeOK

LEMMA TypeRecv ==
    ASSUME TypeOK, NEW t \in Threads, RecvStep(t)
    PROVE  TypeOK'
<1> DEFINE h == thread[t].serves
<1>0. thread[t] \in Thread /\ h \in Handles /\ session[h] \in Session
  BY DEF TypeOK, Thread
<1>1. CASE RecvStart(t)
  <2>1. \A s \in {"test", "ended"} :
          [thread[t] EXCEPT !.st = s, !.serves = params] \in Thread
    BY <1>0 DEF TypeOK, Thread, Serving
  <2>2. PICK s \in {"test", "ended"} :
          thread' = [thread EXCEPT ![t] = [thread[t] EXCEPT !.st = s, !.serves = params]]
    BY <1>1 DEF RecvStart, TypeOK
  <2>3. thread' \in [Threads -> Thread]
    BY <2>1, <2>2 DEF TypeOK
  <2> QED
    BY <1>1, <2>3 DEF RecvStart, TypeOK
<1>2. CASE RecvBegin(t)
  <2>1. 1 \in 1 .. MaxSources + 1
    BY ConstantsAssumption
  <2>2. \A s \in {"access", "take"} :
          [thread[t] EXCEPT !.st = s, !.at = 1] \in Thread
    BY <1>0, <2>1 DEF Thread, Serving, Reading
  <2>3. PICK s \in {"access", "take"} :
          thread' = [thread EXCEPT ![t] = [thread[t] EXCEPT !.st = s, !.at = 1]]
    BY <1>2 DEF RecvBegin, TypeOK
  <2>4. thread' \in [Threads -> Thread]
    BY <2>2, <2>3 DEF TypeOK
  <2> QED
    BY <1>2, <2>4 DEF RecvBegin, TypeOK
<1>3. CASE RecvAccess(t)
  <2>1. thread' \in [Threads -> Thread]
    BY <1>3, StateType DEF RecvAccess
  <2>2. session' \in [Handles -> Session]
    BY <1>0, <1>3 DEF RecvAccess, TypeOK, Session
  <2> QED
    BY <1>3, <2>1, <2>2 DEF RecvAccess, TypeOK
<1>4. CASE RecvTake(t)
  <2>1. PICK s \in Sources :
          /\ session[h].data[s] > 0
          /\ session' = [session EXCEPT ![h].data[s] = session[h].data[s] - 1]
          /\ thread' = [thread EXCEPT ![t] =
                          [thread[t] EXCEPT !.st = "call", !.at = s]]
    BY <1>0, <1>4 DEF RecvTake, NextSource, TypeOK, Session
  <2>2. session[h].data[s] - 1 \in 0 .. MaxPackets
    BY <1>0, <2>1, ConstantsAssumption DEF Session
  <2>3. session' \in [Handles -> Session]
    BY <1>0, <2>1, <2>2 DEF TypeOK, Session
  <2>4. s \in 1 .. MaxSources + 1
    BY ConstantsAssumption DEF Sources
  <2>5. [thread[t] EXCEPT !.st = "call", !.at = s] \in Thread
    BY <1>0, <2>4 DEF Thread, Serving, Reading
  <2>6. thread' \in [Threads -> Thread]
    BY <2>1, <2>5 DEF TypeOK
  <2> QED
    BY <1>4, <2>3, <2>6 DEF RecvTake, TypeOK
<1>5. CASE RecvTest(t) \/ RecvReturn(t)
  <2>1. thread' \in [Threads -> Thread]
    BY <1>5, StateType DEF RecvTest, RecvReturn
  <2> QED
    BY <1>5, <2>1 DEF RecvTest, RecvReturn, TypeOK
<1>6. CASE RecvCall(t)
  <2>1. thread' \in [Threads -> Thread]
    BY <1>6, StateType DEF RecvCall, TypeOK
  <2> QED
    BY <1>6, <2>1 DEF RecvCall, TypeOK
<1>7. CASE RecvEnd(t)
  <2>1. thread' \in [Threads -> Thread]
    BY <1>7, StateType DEF RecvEnd
  <2>2. session' \in [Handles -> Session]
    BY <1>0, <1>7 DEF RecvEnd, TypeOK, Session
  <2> QED
    BY <1>7, <2>1, <2>2 DEF RecvEnd, TypeOK
<1>8. CASE RecvCancelled(t)
  <2>1. thread' \in [Threads -> Thread]
    BY <1>8, StateType DEF RecvCancelled
  <2>2. call' \in [Callers -> Calls]
    BY <1>8, IdleType DEF RecvCancelled, TypeOK
  <2> QED
    BY <1>8, <2>1, <2>2 DEF RecvCancelled, TypeOK
<1> QED
  BY <1>1, <1>2, <1>3, <1>4, <1>5, <1>6, <1>7, <1>8 DEF RecvStep

LEMMA TypeNext == TypeOK /\ [Next]_vars => TypeOK'
<1> SUFFICES ASSUME TypeOK, [Next]_vars PROVE TypeOK'
  OBVIOUS
<1>1. ASSUME NEW x \in Callers, CallStep(x) PROVE TypeOK'
  BY <1>1, TypeControlStep, TypeUserStep DEF CallStep
<1>2. CASE UNCHANGED vars
  BY <1>2 DEF TypeOK, vars
<1> QED
  BY <1>1, <1>2, TypeControl, TypeCall, TypeRecv, TypePoll DEF Next, Step, Halted

\* Every entry of the table, session, receiver thread and call stays well
\* formed, also when the threads call the API from their callbacks.
THEOREM TypeCorrect == Spec => []TypeOK
  BY TypeInit, TypeNext, PTL DEF Spec

-----------------------------------------------------------------------------
(* Sessions: table and sessions agree. *)

LEMMA IdlePc == Idle.pc \notin ControlLabels
BY DEF Idle, Call, ControlLabels

LEMMA SessInit == ASSUME NEW c \in Apps PROVE Init => SessInv(c)
<1> SUFFICES ASSUME Init PROVE SessInv(c)
  OBVIOUS
<1>1. \A x \in Callers : call[x].pc = "idle"
  BY DEF Init, Idle, Call
<1>2. c \in Callers
  BY DEF Callers
<1>3. \A h \in Handles : ~slot[h].flag /\ ~session[h].created
  BY DEF Init
<1> QED
  BY <1>1, <1>2, <1>3, TypeInit DEF SessInv, SessionsInStep, At, ControlLabels

\* Seen from the only control thread, Working is about its own call.
LEMMA WorkingAlone ==
    ASSUME NEW c \in Apps, NEW h \in Handles,
           \A x \in Callers \ {c} : call[x].pc \notin ControlLabels
    PROVE  Working(h) <=> /\ call[c].h = h
                          /\ call[c].pc \in {"join group", "undo", "publish",
                                             "leave", "clear flag"}
<1>1. Apps \subseteq Callers
  BY DEF Callers
<1> QED
  BY <1>1 DEF Working, At, ControlLabels

\* A step that leaves flags and sessions alone and in which no control call
\* begins, moves or ends keeps the invariant.
LEMMA QuietStep ==
    ASSUME NEW c \in Apps, SessInv(c), TypeOK', lost' = lost,
           \A h \in Handles : /\ slot'[h].flag = slot[h].flag
                              /\ session'[h].created = session[h].created,
           \A x \in Callers : \/ call'[x] = call[x]
                              \/ /\ call[x].pc \notin ControlLabels
                                 /\ call'[x].pc \notin ControlLabels
    PROVE  SessInv(c)'
<1>0. c \in Callers /\ call[c].h \in Handles
  BY HandleType DEF Callers, SessInv
<1>1. /\ \A x \in Callers \ {c} : call[x].pc \notin ControlLabels
      /\ \A x \in Callers \ {c} : call'[x].pc \notin ControlLabels
  BY DEF SessInv
<1>2. ASSUME NEW h \in Handles, Working(h)
      PROVE  Working(h)'
  <2>1. /\ call[c].h = h
        /\ call[c].pc \in {"join group", "undo", "publish", "leave", "clear flag"}
    BY <1>1, <1>2, WorkingAlone
  <2>2. call'[c] = call[c]
    BY <1>0, <2>1 DEF ControlLabels
  <2> QED
    BY <2>1, <2>2 DEF Working, At
<1>3. SessionsInStep'
  BY <1>2 DEF SessInv, SessionsInStep
<1>4. CASE call'[c] = call[c]
  BY <1>0, <1>1, <1>3, <1>4 DEF SessInv, At
<1>5. CASE call'[c].pc \notin ControlLabels
  BY <1>1, <1>3, <1>5 DEF SessInv, At, ControlLabels
<1> QED
  BY <1>0, <1>4, <1>5 DEF SessInv

\* A call that gets a new record outside the control calls.
LEMMA QuietCall ==
    ASSUME TypeOK, NEW x \in Callers, NEW r, call' = [call EXCEPT ![x] = r],
           call[x].pc \notin ControlLabels, r.pc \notin ControlLabels
    PROVE  \A y \in Callers : \/ call'[y] = call[y]
                              \/ /\ call[y].pc \notin ControlLabels
                                 /\ call'[y].pc \notin ControlLabels
BY DEF TypeOK

\* One entry of the table, or one session, is written.
LEMMA SetSlot ==
    ASSUME TypeOK, NEW h \in Handles, NEW r, slot' = [slot EXCEPT ![h] = r]
    PROVE  slot'[h] = r /\ \A g \in Handles \ {h} : slot'[g] = slot[g]
BY DEF TypeOK

LEMMA SetSession ==
    ASSUME TypeOK, NEW h \in Handles, NEW r, session' = [session EXCEPT ![h] = r]
    PROVE  session'[h] = r /\ \A g \in Handles \ {h} : session'[g] = session[g]
BY DEF TypeOK

\* An entry loses or gets its flag.
LEMMA FlagWritten ==
    ASSUME TypeOK, NEW h \in Handles, NEW b \in BOOLEAN,
           \/ slot' = [slot EXCEPT ![h] = [slot[h] EXCEPT !.flag = b]]
           \/ slot' = [slot EXCEPT ![h] = [slot[h] EXCEPT !.flag = b, !.func = Nil]]
    PROVE  slot'[h].flag = b /\ \A g \in Handles \ {h} : slot'[g] = slot[g]
<1>0. slot[h] \in Slot
  BY DEF TypeOK
<1>1. CASE slot' = [slot EXCEPT ![h] = [slot[h] EXCEPT !.flag = b]]
  <2>1. [slot[h] EXCEPT !.flag = b].flag = b
    BY <1>0 DEF Slot
  <2> QED
    BY <1>1, <2>1, SetSlot
<1>2. CASE slot' = [slot EXCEPT ![h] = [slot[h] EXCEPT !.flag = b, !.func = Nil]]
  <2>1. [slot[h] EXCEPT !.flag = b, !.func = Nil].flag = b
    BY <1>0 DEF Slot
  <2> QED
    BY <1>2, <2>1, SetSlot
<1> QED
  BY <1>1, <1>2

\* A session is left.
LEMMA SessionLeft ==
    ASSUME TypeOK, NEW h \in Handles,
           session' = [session EXCEPT ![h] =
                         [session[h] EXCEPT !.created = FALSE, !.data = NoData]]
    PROVE  /\ ~session'[h].created
           /\ \A g \in Handles \ {h} : session'[g] = session[g]
<1>1. session[h] \in Session
  BY DEF TypeOK
<1>2. ~[session[h] EXCEPT !.created = FALSE, !.data = NoData].created
  BY <1>1 DEF Session
<1> QED
  BY <1>2, SetSession

\* The callback or the thread of an entry changes, not its flag.
LEMMA FlagKept ==
    ASSUME TypeOK, NEW h \in Handles,
           \/ slot' = slot
           \/ \E v : slot' = [slot EXCEPT ![h] = [slot[h] EXCEPT !.func = v]]
           \/ \E v : slot' = [slot EXCEPT ![h] = [slot[h] EXCEPT !.recvThread = v]]
    PROVE  \A g \in Handles : slot'[g].flag = slot[g].flag
<1>0. slot[h] \in Slot
  BY DEF TypeOK
<1>1. CASE \E v : slot' = [slot EXCEPT ![h] = [slot[h] EXCEPT !.func = v]]
  BY <1>0, <1>1, SetSlot DEF Slot
<1>2. CASE \E v : slot' = [slot EXCEPT ![h] = [slot[h] EXCEPT !.recvThread = v]]
  BY <1>0, <1>2, SetSlot DEF Slot
<1> QED
  BY <1>1, <1>2

LEMMA SessHandleCall ==
    ASSUME NEW c \in Apps, SessInv(c), TypeOK',
           NEW x \in Callers, NEW h \in Handles, HandleCall(x, h)
    PROVE  SessInv(c)'
<1>0. TypeOK
  BY DEF SessInv
<1>1. ASSUME NEW f \in Callbacks \cup {Nil}, Register(x, h, f)
      PROVE  SessInv(c)'
  <2>1. \A g \in Handles : slot'[g].flag = slot[g].flag
    <3>1. slot' = [slot EXCEPT ![h] = [slot[h] EXCEPT !.func = f]]
      BY <1>1 DEF Register
    <3> QED
      BY <1>0, <3>1, FlagKept
  <2> QED
    BY <1>1, <2>1, QuietStep DEF Register
<1>2. ASSUME NEW r, call' = [call EXCEPT ![x] = r], call[x] = Idle,
             r.pc \notin ControlLabels,
             UNCHANGED <<slot, session, lost>>
      PROVE  SessInv(c)'
  <2>1. call[x].pc \notin ControlLabels
    BY <1>2, IdlePc
  <2>2. \A y \in Callers : \/ call'[y] = call[y]
                           \/ /\ call[y].pc \notin ControlLabels
                              /\ call'[y].pc \notin ControlLabels
    BY <1>0, <1>2, <2>1, QuietCall
  <2> QED
    BY <1>2, <2>2, QuietStep
<1>3. \A label \in {"spawn", "unregister", "send"} :
         Call(label, h).pc \notin ControlLabels
  BY DEF Call, ControlLabels
<1>4. CASE OpenBegin(x, h)
  BY <1>2, <1>3, <1>4 DEF OpenBegin, Begin, Free
<1>5. CASE CloseBegin(x, h)
  <2>1. [Call("join", h) EXCEPT !.tid = slot[h].recvThread].pc \notin ControlLabels
    BY DEF Call, ControlLabels
  <2> QED
    BY <1>2, <1>5, <2>1 DEF CloseBegin, Free
<1>6. CASE CloseNoJoin(x, h)
  BY <1>2, <1>3, <1>6 DEF CloseNoJoin, Begin, Free
<1>7. CASE CloseCrash(x, h)
  BY <1>7, QuietStep DEF CloseCrash
<1>8. CASE SendBegin(x, h)
  BY <1>2, <1>3, <1>8 DEF SendBegin, Begin, Free
<1> QED
  BY <1>1, <1>4, <1>5, <1>6, <1>7, <1>8 DEF HandleCall, Unregister

\* The steps of calls of any thread.
LEMMA SessUserStep ==
    ASSUME NEW c \in Apps, SessInv(c), TypeOK', NEW x \in Callers,
           \/ \E t \in Threads : OpenSpawn(x, t)
           \/ OpenFails(x) \/ CloseJoined(x) \/ CloseCancel(x)
           \/ CloseUnregister(x) \/ SendOut(x) \/ SendCount(x)
    PROVE  SessInv(c)'
<1>h. call[x].h \in Handles
  BY HandleType DEF SessInv
<1>0. TypeOK /\ call[x] \in Calls /\ call[x].pc \notin ControlLabels
  BY DEF SessInv, TypeOK, OpenSpawn, OpenFails, CloseJoined, CloseCancel,
         CloseUnregister, SendOut, SendCount, At, ControlLabels
<1>1. session' = session /\ lost' = lost
  BY DEF OpenSpawn, OpenFails, CloseJoined, CloseCancel, CloseUnregister,
         SendOut, SendCount
<1>2. \A h \in Handles : slot'[h].flag = slot[h].flag
  <2>1. ASSUME NEW t \in Threads, OpenSpawn(x, t)
        PROVE  \A h \in Handles : slot'[h].flag = slot[h].flag
    <3>1. slot' = [slot EXCEPT ![call[x].h] = [slot[call[x].h] EXCEPT !.recvThread = t]]
      BY <2>1 DEF OpenSpawn
    <3> QED
      BY <1>0, <1>h, <3>1, FlagKept
  <2>2. CASE CloseUnregister(x)
    <3>1. \/ slot' = [slot EXCEPT ![call[x].h] = [slot[call[x].h] EXCEPT !.func = Nil]]
          \/ slot' = slot
      BY <2>2 DEF CloseUnregister
    <3> QED
      BY <1>0, <1>h, <3>1, FlagKept
  <2>3. CASE \/ OpenFails(x) \/ CloseJoined(x) \/ CloseCancel(x)
             \/ SendOut(x) \/ SendCount(x)
    BY <2>3 DEF OpenFails, CloseJoined, CloseCancel, SendOut, SendCount
  <2> QED
    BY <2>1, <2>2, <2>3
<1>3. \E r : call' = [call EXCEPT ![x] = r] /\ r.pc \notin ControlLabels
  <2>1. CASE Return(x)
    BY <2>1, IdlePc DEF Return
  <2>2. ASSUME NEW label \in {"unregister", "count"}, Goto(x, label)
        PROVE  \E r : call' = [call EXCEPT ![x] = r] /\ r.pc \notin ControlLabels
    <3>1. call' = [call EXCEPT ![x] = [call[x] EXCEPT !.pc = label]]
      BY <2>2 DEF Goto
    <3>2. [call[x] EXCEPT !.pc = label].pc \notin ControlLabels
      BY <1>0 DEF Calls, ControlLabels
    <3> QED
      BY <3>1, <3>2
  <2>3. CASE CloseJoined(x)
    <3>1. call' = [call EXCEPT ![x] = [call[x] EXCEPT !.pc = "cancel", !.tid = Nil]]
      BY <2>3 DEF CloseJoined
    <3>2. [call[x] EXCEPT !.pc = "cancel", !.tid = Nil].pc \notin ControlLabels
      BY <1>0 DEF Calls, ControlLabels
    <3> QED
      BY <3>1, <3>2
  <2> QED
    BY <2>1, <2>2, <2>3
    DEF OpenSpawn, OpenFails, CloseCancel, CloseUnregister, SendOut, SendCount
<1>4. \A y \in Callers : \/ call'[y] = call[y]
                         \/ /\ call[y].pc \notin ControlLabels
                            /\ call'[y].pc \notin ControlLabels
  BY <1>0, <1>3, QuietCall
<1> QED
  BY <1>1, <1>2, <1>4, QuietStep

\* The lock and the packets of a session change, not whether it is created.
LEMMA CreatedKept ==
    ASSUME TypeOK, NEW h \in Handles,
           \/ session' = session
           \/ \E o : session' = [session EXCEPT ![h].owner = o]
           \/ \E s \in Sources : \E n : session' = [session EXCEPT ![h].data[s] = n]
    PROVE  \A g \in Handles : session'[g].created = session[g].created
<1>0. session[h] \in Session
  BY DEF TypeOK
<1>1. CASE \E o : session' = [session EXCEPT ![h].owner = o]
  <2>1. PICK o : session' = [session EXCEPT ![h] = [session[h] EXCEPT !.owner = o]]
    BY <1>1
  <2> QED
    BY <1>0, <2>1, SetSession DEF Session
<1>2. CASE \E s \in Sources : \E n : session' = [session EXCEPT ![h].data[s] = n]
  <2>1. PICK d : session' = [session EXCEPT ![h] = [session[h] EXCEPT !.data = d]]
    BY <1>2
  <2> QED
    BY <1>0, <2>1, SetSession DEF Session
<1> QED
  BY <1>1, <1>2

\* Receiver threads and poll threads move packets and locks only.
LEMMA SessRecv ==
    ASSUME NEW c \in Apps, SessInv(c), TypeOK', NEW t \in Threads, RecvStep(t)
    PROVE  SessInv(c)'
<1>0. TypeOK /\ thread[t].serves \in Handles
  BY DEF SessInv, TypeOK, Thread
<1>1. slot' = slot /\ lost' = lost
  BY DEF RecvStep, RecvStart, RecvTest, RecvBegin, RecvAccess, RecvTake,
         RecvCall, RecvReturn, RecvEnd, RecvCancelled
<1>2. \A h \in Handles : session'[h].created = session[h].created
  <2>1. \/ session' = session
        \/ \E o : session' = [session EXCEPT ![thread[t].serves].owner = o]
        \/ \E s \in Sources : \E n :
              session' = [session EXCEPT ![thread[t].serves].data[s] = n]
    BY DEF RecvStep, RecvStart, RecvTest, RecvBegin, RecvAccess, RecvTake,
           RecvCall, RecvReturn, RecvEnd, RecvCancelled
  <2> QED
    BY <1>0, <2>1, CreatedKept
<1>3. \A y \in Callers : \/ call'[y] = call[y]
                         \/ /\ call[y].pc \notin ControlLabels
                            /\ call'[y].pc \notin ControlLabels
  <2>1. CASE RecvCancelled(t)
    <3>1. t \in Callers /\ call[t].pc \notin ControlLabels
      BY <2>1 DEF Callers, RecvCancelled, At, ControlLabels
    <3>2. call' = [call EXCEPT ![t] = Idle] /\ Idle.pc \notin ControlLabels
      BY <2>1, IdlePc DEF RecvCancelled
    <3> QED
      BY <1>0, <3>1, <3>2, QuietCall
  <2>2. CASE call' = call
    BY <2>2
  <2> QED
    BY <2>1, <2>2
    DEF RecvStep, RecvStart, RecvTest, RecvBegin, RecvAccess, RecvTake,
        RecvCall, RecvReturn, RecvEnd
<1> QED
  BY <1>1, <1>2, <1>3, QuietStep

LEMMA SessPoll ==
    ASSUME NEW c \in Apps, SessInv(c), TypeOK', NEW h \in Handles, PollStep(h)
    PROVE  SessInv(c)'
<1>0. TypeOK
  BY DEF SessInv
<1>1. slot' = slot /\ lost' = lost /\ call' = call
  BY DEF PollStep, Arrive, SourceGone
<1>2. \A g \in Handles : session'[g].created = session[g].created
  <2>1. \E s \in Sources : \E n : session' = [session EXCEPT ![h].data[s] = n]
    BY DEF PollStep, Arrive, SourceGone
  <2> QED
    BY <1>0, <2>1, CreatedKept
<1> QED
  BY <1>1, <1>2, QuietStep

-----------------------------------------------------------------------------
(* The control thread. *)

\* Where a call is after a step of it.
LEMMA GotoMoves ==
    ASSUME TypeOK, NEW x \in Callers, NEW label, Goto(x, label)
    PROVE  /\ call'[x].pc = label /\ call'[x].h = call[x].h
           /\ \A y \in Callers \ {x} : call'[y] = call[y]
<1>1. call' = [call EXCEPT ![x] = [call[x] EXCEPT !.pc = label]]
  BY DEF Goto
<1> QED
  BY <1>1 DEF TypeOK, Calls

LEMMA ReturnMoves ==
    ASSUME TypeOK, NEW x \in Callers, Return(x)
    PROVE  /\ call'[x].pc = "idle"
           /\ \A y \in Callers \ {x} : call'[y] = call[y]
BY DEF Return, TypeOK, Idle, Call

LEMMA NextIndexMoves ==
    ASSUME TypeOK, NEW x \in Callers, NEW label \in {"wipe", "sweep"},
           NextIndex(x, label)
    PROVE  /\ call'[x].pc \in {label, "idle"}
           /\ \A y \in Callers \ {x} : call'[y] = call[y]
<1>1. CASE Return(x)
  BY <1>1, ReturnMoves
<1>2. CASE ~Return(x)
  <2>1. call' = [call EXCEPT ![x] = Call(label, call[x].h + 1)]
    BY <1>2 DEF NextIndex
  <2>2. Call(label, call[x].h + 1).pc = label
    BY DEF Call
  <2> QED
    BY <2>1, <2>2 DEF TypeOK
<1> QED
  BY <1>1, <1>2

\* The parts of the invariant a step of the control thread has to keep.
LEMMA ControlMoves ==
    ASSUME NEW c \in Apps, SessInv(c), TypeOK',
           \A x \in Callers \ {c} : call'[x] = call[x],
           LET h == call'[c].h
               pc == call'[c].pc
           IN /\ pc = "create" => ~slot'[h].flag
              /\ pc \in {"join group", "undo", "publish"} =>
                    ~slot'[h].flag /\ session'[h].created
              /\ pc = "clear flag" => ~session'[h].created
              /\ \A g \in Handles :
                    \/ g = h /\ pc \in {"join group", "undo", "publish",
                                        "leave", "clear flag"}
                    \/ g \in lost'
                    \/ slot'[g].flag <=> session'[g].created
    PROVE  SessInv(c)'
<1>1. \A x \in Callers \ {c} : call'[x].pc \notin ControlLabels
  BY DEF SessInv
<1>2. SessionsInStep'
  BY DEF SessionsInStep, Working, At
<1> QED
  BY <1>1, <1>2 DEF SessInv, At

\* Away from the handle a control call works on, table and sessions agree.
LEMMA InStep ==
    ASSUME NEW c \in Apps, SessInv(c), NEW g \in Handles,
           \/ g # call[c].h
           \/ call[c].pc \notin {"join group", "undo", "publish", "leave", "clear flag"}
    PROVE  g \in lost \/ (slot[g].flag <=> session[g].created)
BY WorkingAlone DEF SessInv, SessionsInStep

LEMMA SessControlCall ==
    ASSUME NEW c \in Apps, SessInv(c), TypeOK', ControlCall(c)
    PROVE  SessInv(c)'
<1>0. c \in Callers /\ TypeOK /\ call[c] = Idle /\ call[c].pc = "idle"
  <2>1. call[c] = Idle
    BY DEF ControlCall, InitBegin, DeinitBegin, CreateBegin, DestoryBegin, Begin, Free
  <2>2. Idle.pc = "idle"
    BY DEF Idle, Call
  <2> QED
    BY <2>1, <2>2 DEF Callers, SessInv
<1>1. slot' = slot /\ session' = session /\ lost' = lost
  BY DEF ControlCall, InitBegin, DeinitBegin, CreateBegin, DestoryBegin
<1>2. \A g \in Handles : g \in lost \/ (slot[g].flag <=> session[g].created)
  BY <1>0, InStep
<1>3. ASSUME NEW label, NEW h, Begin(c, label, h)
      PROVE  /\ call'[c].pc = label /\ call'[c].h = h
             /\ \A x \in Callers \ {c} : call'[x] = call[x]
  BY <1>0, <1>3 DEF Begin, Call, TypeOK
<1>4. \E label \in {"wipe", "sweep", "create", "leave"}, h \in Handles :
         Begin(c, label, h) /\ (label = "create" => ~slot[h].flag)
  <2>1. 0 \in Handles
    BY ConstantsAssumption DEF Handles
  <2> QED
    BY <2>1 DEF ControlCall, InitBegin, DeinitBegin, CreateBegin, DestoryBegin
<1>5. PICK label \in {"wipe", "sweep", "create", "leave"}, h \in Handles :
        /\ call'[c].pc = label /\ call'[c].h = h
        /\ \A x \in Callers \ {c} : call'[x] = call[x]
        /\ label = "create" => ~slot[h].flag
  BY <1>3, <1>4
<1> QED
  BY <1>1, <1>2, <1>5, ControlMoves

\* init: an entry that was in use is lost, the others are free already.
LEMMA SessInitSlot ==
    ASSUME NEW c \in Apps, SessInv(c), TypeOK', InitSlot(c)
    PROVE  SessInv(c)'
<1> DEFINE h == call[c].h
<1>0. c \in Callers /\ TypeOK /\ call[c].pc = "wipe" /\ h \in Handles
  BY HandleType DEF Callers, SessInv, InitSlot, At
<1>1. /\ call'[c].pc \in {"wipe", "idle"}
      /\ \A x \in Callers \ {c} : call'[x] = call[x]
  BY <1>0, NextIndexMoves DEF InitSlot
<1>2. ~slot'[h].flag /\ \A g \in Handles \ {h} : slot'[g] = slot[g]
  <2>1. slot' = [slot EXCEPT ![h] = [slot[h] EXCEPT !.flag = FALSE, !.func = Nil]]
    BY <1>0 DEF InitSlot, TypeOK
  <2> HIDE DEF h
  <2> QED
    BY <1>0, <2>1, FlagWritten
<1>3. session' = session /\ lost \subseteq lost' /\ (slot[h].flag => h \in lost')
  BY DEF InitSlot
<1>4. \A g \in Handles : g \in lost' \/ (slot'[g].flag <=> session'[g].created)
  BY <1>0, <1>2, <1>3, InStep
<1> QED
  BY <1>1, <1>4, ControlMoves

\* create: the session is made for a free entry, given up again or published.
LEMMA SessCreate ==
    ASSUME NEW c \in Apps, SessInv(c), TypeOK',
           \/ CreateSession(c) \/ CreateFails(c) \/ CreateJoinGroup(c)
           \/ CreateUndo(c) \/ CreatePublish(c)
    PROVE  SessInv(c)'
<1> DEFINE h == call[c].h
<1>0. c \in Callers /\ TypeOK /\ h \in Handles
  BY HandleType DEF Callers, SessInv
<1>1. CASE CreateSession(c)
  <2>1. ~slot[h].flag /\ call[c].pc = "create"
    BY <1>1 DEF SessInv, CreateSession, At
  <2>2. /\ call'[c].pc \in {"publish", "join group"} /\ call'[c].h = h
        /\ \A x \in Callers \ {c} : call'[x] = call[x]
    BY <1>0, <1>1, GotoMoves DEF CreateSession
  <2>3. session'[h].created /\ \A g \in Handles \ {h} : session'[g] = session[g]
    BY ZenonT(60), <1>0, <1>1 DEF CreateSession, TypeOK, Session
  <2>4. \A g \in Handles \ {h} :
           g \in lost' \/ (slot'[g].flag <=> session'[g].created)
    BY <1>1, <2>3, InStep DEF CreateSession
  <2> QED
    BY <1>1, <2>1, <2>2, <2>3, <2>4, ControlMoves DEF CreateSession
<1>2. CASE CreateFails(c)
  <2>1. call[c].pc = "create"
    BY <1>2 DEF CreateFails, At
  <2>2. call'[c].pc = "idle" /\ \A x \in Callers \ {c} : call'[x] = call[x]
    BY <1>0, <1>2, ReturnMoves DEF CreateFails
  <2>3. \A g \in Handles : g \in lost' \/ (slot'[g].flag <=> session'[g].created)
    BY <1>2, <2>1, InStep DEF CreateFails
  <2> QED
    BY <2>2, <2>3, ControlMoves
<1>3. CASE CreateJoinGroup(c) \/ CreateUndo(c)
  <2>1. ~slot[h].flag /\ session[h].created
    BY <1>3 DEF SessInv, CreateJoinGroup, CreateUndo, At
  <2>2. /\ call'[c].pc \in {"publish", "undo"} /\ call'[c].h = h
        /\ \A x \in Callers \ {c} : call'[x] = call[x]
    BY <1>0, <1>3, GotoMoves DEF CreateJoinGroup, CreateUndo
  <2>3. \A g \in Handles \ {h} :
           g \in lost' \/ (slot'[g].flag <=> session'[g].created)
    BY <1>3, InStep DEF CreateJoinGroup, CreateUndo
  <2> QED
    BY <1>3, <2>1, <2>2, <2>3, ControlMoves DEF CreateJoinGroup, CreateUndo
<1>4. CASE CreatePublish(c)
  <2>1. session[h].created
    BY <1>4 DEF SessInv, CreatePublish, At
  <2>2. call'[c].pc = "idle" /\ \A x \in Callers \ {c} : call'[x] = call[x]
    BY <1>0, <1>4, ReturnMoves DEF CreatePublish
  <2>3. slot'[h].flag /\ \A g \in Handles \ {h} : slot'[g] = slot[g]
    <3>1. slot' = [slot EXCEPT ![h] = [slot[h] EXCEPT !.flag = TRUE]]
      BY <1>4 DEF CreatePublish
    <3> HIDE DEF h
    <3> QED
      BY <1>0, <3>1, FlagWritten
  <2>4. \A g \in Handles : g \in lost' \/ (slot'[g].flag <=> session'[g].created)
    BY <1>4, <2>1, <2>3, InStep DEF CreatePublish
  <2> QED
    BY <2>2, <2>4, ControlMoves
<1> QED
  BY <1>1, <1>2, <1>3, <1>4

\* destory, deinit and the end of a failed create.
LEMMA SessLeave ==
    ASSUME NEW c \in Apps, SessInv(c), TypeOK', Leave(c)
    PROVE  SessInv(c)'
<1> DEFINE h == call[c].h
<1>0. c \in Callers /\ TypeOK /\ h \in Handles
  BY HandleType DEF Callers, SessInv
<1>1. CASE session[h].created /\ Inside(h)
  <2>1. slot' = slot /\ session' = session /\ call' = call /\ lost' = lost
    BY <1>1 DEF Leave
  <2> QED
    BY <2>1, QuietStep
<1>2. CASE ~(session[h].created /\ Inside(h))
  <2>1. ~session'[h].created /\ \A g \in Handles \ {h} : session'[g] = session[g]
    <3>1. session' = [session EXCEPT ![h] =
                        [session[h] EXCEPT !.created = FALSE, !.data = NoData]]
      BY <1>0, <1>2 DEF Leave, TypeOK
    <3> HIDE DEF h
    <3> QED
      BY <1>0, <3>1, SessionLeft
  <2>2. \A g \in Handles \ {h} :
           g \in lost' \/ (slot'[g].flag <=> session'[g].created)
    BY <2>1, InStep DEF Leave
  <2>3. CASE At(c, "leave")
    <3>1. /\ call'[c].pc = "clear flag" /\ call'[c].h = h
          /\ \A x \in Callers \ {c} : call'[x] = call[x]
      BY <1>0, <1>2, <2>3, GotoMoves DEF Leave
    <3> QED
      BY <2>1, <2>2, <3>1, ControlMoves
  <2>4. CASE At(c, "undo")
    <3>1. ~slot'[h].flag
      BY <2>4 DEF SessInv, Leave
    <3>2. call'[c].pc = "idle" /\ \A x \in Callers \ {c} : call'[x] = call[x]
      BY <1>0, <1>2, <2>4, ReturnMoves DEF Leave, At
    <3>3. \A g \in Handles : g \in lost' \/ (slot'[g].flag <=> session'[g].created)
      BY <2>1, <2>2, <3>1
    <3> QED
      BY <3>2, <3>3, ControlMoves
  <2> QED
    BY <2>3, <2>4 DEF Leave
<1> QED
  BY <1>1, <1>2

LEMMA SessClearFlag ==
    ASSUME NEW c \in Apps, SessInv(c), TypeOK', DestoryClearFlag(c)
    PROVE  SessInv(c)'
<1> DEFINE h == call[c].h
<1>0. c \in Callers /\ TypeOK /\ h \in Handles /\ ~session[h].created
  BY HandleType DEF Callers, SessInv, DestoryClearFlag
<1>1. /\ call'[c].pc \in {"sweep", "idle"}
      /\ \A x \in Callers \ {c} : call'[x] = call[x]
  BY <1>0, NextIndexMoves, ReturnMoves DEF DestoryClearFlag
<1>2. ~slot'[h].flag /\ \A g \in Handles \ {h} : slot'[g] = slot[g]
  <2>1. slot' = [slot EXCEPT ![h] = [slot[h] EXCEPT !.flag = FALSE]]
    BY DEF DestoryClearFlag
  <2> HIDE DEF h
  <2> QED
    BY <1>0, <2>1, FlagWritten
<1>3. \A g \in Handles : g \in lost' \/ (slot'[g].flag <=> session'[g].created)
  BY <1>0, <1>2, InStep DEF DestoryClearFlag
<1> QED
  BY <1>1, <1>3, ControlMoves

LEMMA SessDeinitSlot ==
    ASSUME NEW c \in Apps, SessInv(c), TypeOK', DeinitSlot(c)
    PROVE  SessInv(c)'
<1>0. c \in Callers /\ TypeOK /\ call[c].pc = "sweep"
  BY DEF Callers, SessInv, DeinitSlot, At
<1>1. /\ call'[c].pc \in {"leave", "sweep", "idle"}
      /\ \A x \in Callers \ {c} : call'[x] = call[x]
  <2>1. CASE slot[call[c].h].flag
    <3>1. call' = [call EXCEPT ![c] = [call[c] EXCEPT !.pc = "leave", !.sweep = TRUE]]
      BY <2>1 DEF DeinitSlot
    <3> QED
      BY <1>0, <3>1 DEF TypeOK, Calls
  <2>2. CASE ~slot[call[c].h].flag
    BY <1>0, <2>2, NextIndexMoves DEF DeinitSlot
  <2> QED
    BY <2>1, <2>2
<1>2. \A g \in Handles : g \in lost' \/ (slot'[g].flag <=> session'[g].created)
  BY <1>0, InStep DEF DeinitSlot
<1> QED
  BY <1>1, <1>2, ControlMoves

LEMMA SessNext ==
    ASSUME NEW c \in Apps, Controls = {c}, SessInv(c), [Next]_vars
    PROVE  SessInv(c)'
<1>0. TypeOK /\ TypeOK'
  BY TypeNext DEF SessInv
<1>1. CASE UNCHANGED vars
  BY <1>0, <1>1, QuietStep DEF vars
<1>2. ASSUME NEW x \in Callers, CallStep(x) PROVE SessInv(c)'
  <2>1. CASE \/ InitSlot(x) \/ CreateSession(x) \/ CreateFails(x)
             \/ CreateJoinGroup(x) \/ CreateUndo(x) \/ CreatePublish(x)
             \/ Leave(x) \/ DestoryClearFlag(x) \/ DeinitSlot(x)
    <3>1. call[x].pc \in ControlLabels
      BY <2>1 DEF InitSlot, CreateSession, CreateFails, CreateJoinGroup,
                  CreateUndo, CreatePublish, Leave, DestoryClearFlag, DeinitSlot,
                  At, ControlLabels
    <3>2. x = c
      BY <3>1 DEF SessInv
    <3> QED
      BY <1>0, <2>1, <3>2, SessInitSlot, SessCreate, SessLeave, SessClearFlag,
         SessDeinitSlot
  <2>2. CASE \/ \E t \in Threads : OpenSpawn(x, t)
             \/ OpenFails(x) \/ CloseJoined(x) \/ CloseCancel(x)
             \/ CloseUnregister(x) \/ SendOut(x) \/ SendCount(x)
    BY <1>0, <2>2, SessUserStep
  <2> QED
    BY <1>2, <2>1, <2>2 DEF CallStep
<1>3. ASSUME NEW a \in Controls, ControlCall(a) PROVE SessInv(c)'
  BY <1>0, <1>3, SessControlCall
<1> QED
  BY <1>0, <1>1, <1>2, <1>3, SessHandleCall, SessRecv, SessPoll
  DEF Next, Step, Halted

\* With one control thread the table and the sessions agree whatever the other
\* application threads, the receivers and their callbacks do: rtp_*_create never
\* meets the session of a free entry, and never leaves one behind.
THEOREM SessionSafety ==
    ASSUME OneControl
    PROVE  Spec => []SessionsInStep
<1>1. PICK c \in Apps : Controls = {c}
  BY DEF OneControl
<1>2. Init => SessInv(c)
  BY SessInit
<1>3. SessInv(c) /\ [Next]_vars => SessInv(c)'
  BY <1>1, SessNext
<1>4. SessInv(c) => SessionsInStep
  BY DEF SessInv
<1> QED
  BY <1>2, <1>3, <1>4, PTL DEF Spec

-----------------------------------------------------------------------------
(* The orderly client: threads, calls and locks. *)

\* Only one application thread is in a call.
OneCall == \A a, b \in Apps : call[a] # Idle /\ call[b] # Idle => a = b

\* A thread that has not been joined is the one its handle names, which is in
\* use; it reads its handle before the static changes, and has the lock of its
\* session while it reads.  No cancel ever meets a thread.
ThreadOk(t) ==
    LET h == thread[t].madeFor IN
    /\ ~thread[t].cancel
    /\ thread[t].st # "unused" => slot[h].flag /\ slot[h].recvThread = t
    /\ thread[t].st = "starting" => params = h
    /\ thread[t].st \in Serving => thread[t].serves = h
    /\ thread[t].st \in Reading => session[h].owner = t

\* A receiver thread is in a call only from its callback, and only in a send, of
\* a handle that is in use.
CallbackOk(t) ==
    call[t] # Idle => /\ thread[t].st = "incall"
                      /\ At(t, "send") \/ At(t, "count")
                      /\ slot[call[t].h].flag

\* Who has the lock of a session is its reader.
LockOk(h) ==
    \A t \in Threads :
        session[h].owner = t => thread[t].st \in Reading /\ thread[t].madeFor = h

\* What the call of a relies on while it is in progress: an init or deinit meets
\* no thread, a destory none of its handle and no send of a callback; an open has
\* the static to itself; the thread a close joins is that of its handle, and is
\* gone when it is cancelled.
CallOk(a) ==
    LET h == call[a].h IN
    /\ At(a, "wipe") => \A g \in Handles : ~slot[g].flag
    /\ At(a, "sweep") \/ call[a].sweep => \A g \in Handles : ~Attached(g)
    /\ At(a, "leave") \/ At(a, "clear flag")
          => /\ ~Attached(h)
             /\ \A t \in Threads : call[t] # Idle => call[t].h # h
    /\ At(a, "spawn") => /\ slot[h].flag
                         /\ ~Attached(h)
                         /\ params = h
                         /\ \A t \in Threads : thread[t].st # "starting"
    /\ At(a, "join") => /\ call[a].tid \in Threads
                        /\ thread[call[a].tid].st # "unused"
                        /\ thread[call[a].tid].madeFor = h
    /\ At(a, "cancel") => \A t \in Threads :
                             slot[h].recvThread = t => thread[t].st = "unused"

OwnInv(c) ==
    /\ SessInv(c)
    /\ OneCall
    /\ \A t \in Threads : ThreadOk(t) /\ CallbackOk(t)
    /\ \A h \in Handles : LockOk(h)
    /\ \A a \in Apps : CallOk(a)
    /\ lost = {}
    /\ fault \in {"none", "null call"}

LEMMA IdleFields == Idle.pc = "idle" /\ Idle.sweep = FALSE
BY DEF Idle, Call

LEMMA OwnInit == ASSUME NEW c \in Apps PROVE Init => OwnInv(c)
<1> SUFFICES ASSUME Init PROVE OwnInv(c)
  OBVIOUS
<1>1. \A x \in Callers : call[x] = Idle
  BY DEF Init
<1>2. Apps \subseteq Callers /\ Threads \subseteq Callers
  BY DEF Callers
<1>3. OneCall
  BY <1>1, <1>2 DEF OneCall
<1>4. \A t \in Threads : thread[t].st = "unused" /\ ~thread[t].cancel
  BY DEF Init, NoThread
<1>5. \A t \in Threads : ThreadOk(t) /\ CallbackOk(t)
  BY <1>1, <1>2, <1>4 DEF ThreadOk, CallbackOk, Serving, Reading
<1>6. \A a \in Apps : CallOk(a)
  BY <1>1, <1>2, IdleFields DEF CallOk, At
<1>7. \A h \in Handles : LockOk(h)
  BY ConstantsAssumption DEF Init, LockOk
<1> QED
  BY SessInit, <1>3, <1>5, <1>6, <1>7 DEF OwnInv, Init

\* An orderly client makes only calls any client may make.
LEMMA OrderlyIsNext == TypeOK /\ OrderlyNext => Next
<1> SUFFICES ASSUME TypeOK, OrderlyNext PROVE Next
  OBVIOUS
<1>1. ASSUME NEW a \in Controls, OrderlyControl(a) PROVE ControlCall(a)
  BY <1>1 DEF OrderlyControl, ControlCall
<1>2. ASSUME NEW a \in Apps, NEW h \in Handles, OrderlyCall(a, h)
      PROVE  HandleCall(a, h)
  BY <1>2 DEF OrderlyCall, HandleCall
<1>3. ASSUME NEW t \in Threads, OrderlyCallback(t)
      PROVE  \E h \in Handles : HandleCall(t, h)
  BY <1>3 DEF OrderlyCallback, HandleCall, TypeOK, Thread
<1> QED
  BY <1>1, <1>2, <1>3 DEF OrderlyNext, Next, Callers

LEMMA AttachedKept ==
    ASSUME thread' = thread
    PROVE  \A h \in Handles : Attached(h)' <=> Attached(h)
BY DEF Attached

\* A thread that is attached has its handle in use, with its session created.
LEMMA AttachedCreated ==
    ASSUME NEW c \in Apps, OwnInv(c), NEW h \in Handles, Attached(h)
    PROVE  slot[h].flag /\ session[h].created
<1>1. slot[h].flag
  BY DEF OwnInv, ThreadOk, Attached
<1>2. ~Working(h)
  <2>1. call[c].h = h => /\ ~At(c, "join group") /\ ~At(c, "undo")
                         /\ ~At(c, "publish")
    BY <1>1 DEF OwnInv, SessInv
  <2>2. call[c].h = h => ~At(c, "leave") /\ ~At(c, "clear flag")
    BY DEF OwnInv, CallOk
  <2>3. \A x \in Callers \ {c} : call[x].pc \notin ControlLabels
    BY DEF OwnInv, SessInv
  <2> QED
    BY <2>1, <2>2, <2>3, WorkingAlone DEF At
<1>3. session[h].created
  BY <1>1, <1>2 DEF OwnInv, SessInv, SessionsInStep
<1> QED
  BY <1>1, <1>3

\* A step of the only call of the application leaves its other threads idle.
LEMMA OthersIdle ==
    ASSUME TypeOK, OneCall, NEW a \in Apps, call[a] # Idle \/ Serial(a),
           \A x \in Callers \ {a} : call'[x] = call[x]
    PROVE  OneCall' /\ \A b \in Apps \ {a} : call'[b] = Idle
<1>1. \A b \in Apps \ {a} : call[b] = Idle
  BY DEF OneCall, Serial
<1>2. \A b \in Apps \ {a} : call'[b] = Idle
  BY <1>1 DEF Callers
<1>3. Idle' = Idle
  BY DEF Idle, Call
<1> QED
  BY <1>2, <1>3 DEF OneCall

LEMMA IdleCalls ==
    ASSUME NEW a \in Apps, \A b \in Apps \ {a} : call'[b] = Idle, CallOk(a)'
    PROVE  \A b \in Apps : CallOk(b)'
<1>1. ASSUME NEW b \in Apps \ {a} PROVE CallOk(b)'
  BY IdleFields DEF CallOk, At
<1> QED
  BY <1>1

\* A step that leaves the threads, the locks and what both rely on alone.
LEMMA ThreadsKeep ==
    ASSUME TypeOK, \A t \in Threads : ThreadOk(t), \A h \in Handles : LockOk(h),
           thread' = thread,
           \/ params' = params
           \/ \A t \in Threads : thread[t].st # "starting",
           \A h \in Handles : session'[h].owner = session[h].owner,
           \A h \in Handles :
              Attached(h) => /\ slot'[h].flag = slot[h].flag
                             /\ slot'[h].recvThread = slot[h].recvThread
    PROVE  /\ \A t \in Threads : ThreadOk(t)'
           /\ \A h \in Handles : LockOk(h)'
<1>1. ASSUME NEW t \in Threads PROVE ThreadOk(t)'
  <2> DEFINE h == thread[t].madeFor
  <2>1. ThreadOk(t) /\ h \in Handles
    BY DEF TypeOK, Thread
  <2>2. CASE thread[t].st = "unused"
    BY <2>1, <2>2 DEF ThreadOk, Serving, Reading
  <2>3. CASE thread[t].st # "unused"
    <3>1. Attached(h)
      BY <2>3 DEF Attached
    <3>2. /\ slot'[h].flag = slot[h].flag
          /\ slot'[h].recvThread = slot[h].recvThread
          /\ session'[h].owner = session[h].owner
      BY <2>1, <3>1
    <3>3. thread[t].st = "starting" => params' = params
      OBVIOUS
    <3> QED
      BY <2>1, <3>2, <3>3 DEF ThreadOk
  <2> QED
    BY <2>2, <2>3
<1>2. \A h \in Handles : LockOk(h)'
  BY DEF LockOk
<1> QED
  BY <1>1, <1>2

\* A step of an application's call that leaves the threads alone.
LEMMA OwnAppKeeps ==
    ASSUME NEW c \in Apps, OwnInv(c), SessInv(c)', NEW a \in Apps,
           call[a] # Idle \/ Serial(a),
           \A x \in Callers \ {a} : call'[x] = call[x],
           thread' = thread,
           \/ params' = params
           \/ \A t \in Threads : thread[t].st # "starting",
           \A h \in Handles : session'[h].owner = session[h].owner,
           \A h \in Handles :
              Attached(h) => /\ slot'[h].flag = slot[h].flag
                             /\ slot'[h].recvThread = slot[h].recvThread,
           \A t \in Threads : call[t] # Idle => slot'[call[t].h].flag,
           lost' = lost, fault' = fault, CallOk(a)'
    PROVE  OwnInv(c)'
<1>1. TypeOK
  BY DEF OwnInv, SessInv
<1>2. OneCall' /\ \A b \in Apps \ {a} : call'[b] = Idle
  BY <1>1, OthersIdle DEF OwnInv
<1>3. (\A t \in Threads : ThreadOk(t)') /\ \A h \in Handles : LockOk(h)'
  BY <1>1, ThreadsKeep DEF OwnInv
<1>4. \A b \in Apps : CallOk(b)'
  BY <1>2, IdleCalls
<1>5. ASSUME NEW t \in Threads PROVE CallbackOk(t)'
  <2>1. call'[t] = call[t] /\ CallbackOk(t)
    BY ConstantsAssumption DEF Callers, OwnInv
  <2>2. Idle' = Idle
    BY DEF Idle, Call
  <2> QED
    BY <2>1, <2>2 DEF CallbackOk, At
<1> QED
  BY <1>2, <1>3, <1>4, <1>5 DEF OwnInv

\* The call is over, or at a label that relies on nothing.
LEMMA AtRest ==
    ASSUME NEW a \in Apps,
           call'[a].pc \in {"idle", "create", "join group", "undo", "publish",
                            "unregister", "send", "count"},
           call'[a].sweep => \A g \in Handles : ~Attached(g)'
    PROVE  CallOk(a)'
BY DEF CallOk, At

LEMMA BeginMoves ==
    ASSUME TypeOK, NEW x \in Callers, NEW label, NEW h, Begin(x, label, h)
    PROVE  /\ Free(x)
           /\ call'[x].pc = label /\ call'[x].h = h /\ call'[x].sweep = FALSE
           /\ \A y \in Callers \ {x} : call'[y] = call[y]
<1>1. Free(x) /\ call' = [call EXCEPT ![x] = Call(label, h)]
  BY DEF Begin
<1>2. call'[x] = Call(label, h)
  BY <1>1 DEF TypeOK
<1>3. call'[x].pc = label /\ call'[x].h = h /\ call'[x].sweep = FALSE
  BY <1>2 DEF Call
<1> QED
  BY <1>1, <1>3 DEF TypeOK

\* Sends of callbacks are of handles in use.
LEMMA CallbackFlags ==
    ASSUME NEW c \in Apps, OwnInv(c), NEW t \in Threads, call[t] # Idle
    PROVE  /\ slot[call[t].h].flag /\ call[t].h \in Handles
           /\ \E g \in Handles : Attached(g)
<1>1. TypeOK /\ CallbackOk(t) /\ t \in Callers
  BY DEF OwnInv, SessInv, Callers
<1>2. thread[t].madeFor \in Handles /\ Attached(thread[t].madeFor)
  BY <1>1 DEF CallbackOk, Attached, TypeOK, Thread
<1> QED
  BY <1>1, <1>2, HandleType DEF CallbackOk

LEMMA OwnControl ==
    ASSUME NEW c \in Apps, OwnInv(c), SessInv(c)', NEW a \in Controls,
           a = c, OrderlyControl(a)
    PROVE  OwnInv(c)'
<1>0. TypeOK /\ a \in Callers /\ Serial(a)
  BY DEF OwnInv, SessInv, OrderlyControl, Callers
<1>1. \A t \in Threads : call[t] # Idle => slot[call[t].h].flag
  BY CallbackFlags
<1>2. CASE InitBegin(a) /\ \A h \in Handles : ~slot[h].flag /\ ~Attached(h)
  <2>1. /\ call'[a].pc = "wipe" /\ call'[a].sweep = FALSE
        /\ \A x \in Callers \ {a} : call'[x] = call[x]
    BY <1>0, <1>2, BeginMoves DEF InitBegin
  <2>2. /\ thread' = thread /\ slot' = slot /\ params' = params
        /\ session' = session /\ lost' = lost /\ fault' = fault
    BY <1>2 DEF InitBegin
  <2>3. CallOk(a)'
    BY <1>2, <2>1, <2>2 DEF CallOk, At
  <2> QED
    BY <1>0, <1>1, <2>1, <2>2, <2>3, OwnAppKeeps
<1>3. CASE DeinitBegin(a) /\ \A h \in Handles : ~Attached(h)
  <2>1. /\ call'[a].pc = "sweep" /\ call'[a].sweep = FALSE
        /\ \A x \in Callers \ {a} : call'[x] = call[x]
    BY <1>0, <1>3, BeginMoves DEF DeinitBegin
  <2>2. /\ thread' = thread /\ slot' = slot /\ params' = params
        /\ session' = session /\ lost' = lost /\ fault' = fault
    BY <1>3 DEF DeinitBegin
  <2>3. CallOk(a)'
    BY <1>3, <2>1, <2>2, AttachedKept DEF CallOk, At
  <2> QED
    BY <1>0, <1>1, <2>1, <2>2, <2>3, OwnAppKeeps
<1>4. ASSUME NEW h \in Handles, CreateBegin(a, h)
      PROVE  OwnInv(c)'
  <2>1. /\ call'[a].pc = "create" /\ call'[a].sweep = FALSE
        /\ \A x \in Callers \ {a} : call'[x] = call[x]
    BY <1>0, <1>4, BeginMoves DEF CreateBegin
  <2>2. /\ thread' = thread /\ slot' = slot /\ params' = params
        /\ session' = session /\ lost' = lost /\ fault' = fault
    BY <1>4 DEF CreateBegin
  <2>3. CallOk(a)'
    BY <2>1, AtRest
  <2> QED
    BY <1>0, <1>1, <2>1, <2>2, <2>3, OwnAppKeeps
<1>5. ASSUME NEW h \in Handles, ~Attached(h), ~Busy(h), DestoryBegin(a, h)
      PROVE  OwnInv(c)'
  <2>1. /\ call'[a].pc = "leave" /\ call'[a].sweep = FALSE /\ call'[a].h = h
        /\ \A x \in Callers \ {a} : call'[x] = call[x]
    BY <1>0, <1>5, BeginMoves DEF DestoryBegin
  <2>2. /\ thread' = thread /\ slot' = slot /\ params' = params
        /\ session' = session /\ lost' = lost /\ fault' = fault
    BY <1>5 DEF DestoryBegin
  <2>3. \A t \in Threads : call'[t] # Idle => call'[t].h # h
    BY <1>5, <2>1, ConstantsAssumption DEF Busy, Callers
  <2>4. ~Attached(h)'
    BY <1>5, <2>2, AttachedKept
  <2>5. Idle' = Idle
    BY DEF Idle, Call
  <2>6. CallOk(a)'
    BY <2>1, <2>3, <2>4, <2>5 DEF CallOk, At
  <2> QED
    BY <1>0, <1>1, <2>1, <2>2, <2>6, OwnAppKeeps
<1> QED
  BY <1>2, <1>3, <1>4, <1>5 DEF OrderlyControl

\* Writing the function of an entry.
LEMMA SetFunc ==
    ASSUME TypeOK, NEW h \in Handles, NEW f,
           slot' = [slot EXCEPT ![h].func = f]
    PROVE  \A g \in Handles : /\ slot'[g].flag = slot[g].flag
                              /\ slot'[g].recvThread = slot[g].recvThread
BY DEF TypeOK, Slot

LEMMA OwnCall ==
    ASSUME NEW c \in Apps, OwnInv(c), SessInv(c)', NEW a \in Apps,
           NEW h \in Handles, OrderlyCall(a, h)
    PROVE  OwnInv(c)'
<1>0. TypeOK /\ a \in Callers /\ Serial(a)
  BY DEF OwnInv, SessInv, OrderlyCall, Callers
<1>1. \A t \in Threads : call[t] # Idle => /\ slot[call[t].h].flag
                                            /\ call[t].h \in Handles
  BY CallbackFlags
<1>2. ASSUME NEW f, Register(a, h, f)
      PROVE  OwnInv(c)'
  <2>1. /\ call' = call /\ call[a] = Idle
        /\ thread' = thread /\ params' = params
        /\ session' = session /\ lost' = lost /\ fault' = fault
    BY <1>2 DEF Register, Free
  <2>2. \A g \in Handles : /\ slot'[g].flag = slot[g].flag
                           /\ slot'[g].recvThread = slot[g].recvThread
    BY <1>0, <1>2, SetFunc DEF Register
  <2>3. CallOk(a)'
    BY <2>1, AtRest, IdleFields
  <2>4. \A t \in Threads : call[t] # Idle => slot'[call[t].h].flag
    BY <1>1, <2>2
  <2> QED
    BY <1>0, <2>1, <2>2, <2>3, <2>4, OwnAppKeeps
<1>3. CASE /\ OpenBegin(a, h) /\ ~Attached(h)
           /\ \A t \in Threads : thread[t].st # "starting"
  <2>0. Begin(a, "spawn", h)
    BY <1>3 DEF OpenBegin
  <2>1. /\ call'[a].pc = "spawn" /\ call'[a].sweep = FALSE /\ call'[a].h = h
        /\ \A x \in Callers \ {a} : call'[x] = call[x]
    BY <1>0, <2>0, BeginMoves
  <2>2. /\ thread' = thread /\ slot' = slot /\ params' = h
        /\ session' = session /\ lost' = lost /\ fault' = fault
        /\ slot[h].flag
    BY <1>3 DEF OpenBegin
  <2>3. CallOk(a)'
    BY <1>3, <2>1, <2>2, AttachedKept DEF CallOk, At
  <2> QED
    BY <1>0, <1>1, <1>3, <2>1, <2>2, <2>3, OwnAppKeeps
<1>4. CASE CloseBegin(a, h) /\ Attached(h)
  <2> DEFINE r == [Call("join", h) EXCEPT !.tid = slot[h].recvThread]
  <2>1. /\ call' = [call EXCEPT ![a] = r]
        /\ thread' = thread /\ slot' = slot /\ params' = params
        /\ session' = session /\ lost' = lost /\ fault' = fault
    BY <1>4 DEF CloseBegin
  <2>2. r.pc = "join" /\ r.h = h /\ r.tid = slot[h].recvThread /\ r.sweep = FALSE
    BY DEF Call
  <2>3. call'[a] = r /\ \A x \in Callers \ {a} : call'[x] = call[x]
    BY <1>0, <2>1 DEF TypeOK
  <2>4. PICK u \in Threads : thread[u].st # "unused" /\ thread[u].madeFor = h
    BY <1>4 DEF Attached
  <2>5. slot[h].recvThread = u
    BY <2>4 DEF OwnInv, ThreadOk
  <2>6. call'[a].tid = u /\ call'[a].h = h /\ call'[a].pc = "join"
        /\ call'[a].sweep = FALSE
    BY <2>2, <2>3, <2>5
  <2>7. CallOk(a)'
    BY <2>1, <2>4, <2>6 DEF CallOk, At
  <2> QED
    BY <1>0, <1>1, <2>1, <2>3, <2>7, OwnAppKeeps
<1>5. CASE SendBegin(a, h)
  <2>1. /\ call'[a].pc = "send" /\ call'[a].sweep = FALSE
        /\ \A x \in Callers \ {a} : call'[x] = call[x]
    BY <1>0, <1>5, BeginMoves DEF SendBegin
  <2>2. /\ thread' = thread /\ slot' = slot /\ params' = params
        /\ session' = session /\ lost' = lost /\ fault' = fault
    BY <1>5 DEF SendBegin
  <2>3. CallOk(a)'
    BY <2>1, AtRest
  <2> QED
    BY <1>0, <1>1, <2>1, <2>2, <2>3, OwnAppKeeps
<1> QED
  BY <1>2, <1>3, <1>4, <1>5 DEF OrderlyCall, Unregister

\* A loop of init or deinit goes on, or its call returns.
LEMMA NextIndexRest ==
    ASSUME TypeOK, NEW x \in Callers, NEW label \in {"wipe", "sweep"},
           NextIndex(x, label)
    PROVE  call'[x].sweep = FALSE
<1>1. CASE Return(x)
  BY <1>1, IdleFields DEF Return, TypeOK
<1>2. CASE ~Return(x)
  <2>1. call' = [call EXCEPT ![x] = Call(label, call[x].h + 1)]
    BY <1>2 DEF NextIndex
  <2>2. Call(label, call[x].h + 1).sweep = FALSE
    BY DEF Call
  <2> QED
    BY <2>1, <2>2 DEF TypeOK
<1> QED
  BY <1>1, <1>2

LEMMA GotoKeeps ==
    ASSUME TypeOK, NEW x \in Callers, NEW label, Goto(x, label)
    PROVE  call'[x].sweep = call[x].sweep
BY DEF Goto, TypeOK, Calls

LEMMA ReturnRests ==
    ASSUME TypeOK, NEW x \in Callers, Return(x)
    PROVE  call'[x] = Idle /\ \A y \in Callers \ {x} : call'[y] = call[y]
BY DEF Return, TypeOK

\* init meets no entry in use, so that it forgets none.
LEMMA OwnInitSlot ==
    ASSUME NEW c \in Apps, OwnInv(c), SessInv(c)', InitSlot(c)
    PROVE  OwnInv(c)'
<1> DEFINE h == call[c].h
<1>0. /\ TypeOK /\ c \in Callers /\ h \in Handles /\ call[c] # Idle
      /\ \A g \in Handles : ~slot[g].flag
  BY HandleType, IdleFields DEF OwnInv, SessInv, CallOk, InitSlot, At, Callers
<1>1. \A g \in Handles : ~Attached(g)
  BY <1>0, AttachedCreated
<1>2. \A t \in Threads : call[t] = Idle
  BY <1>1, CallbackFlags
<1>3. /\ thread' = thread /\ params' = params /\ session' = session
      /\ fault' = fault /\ lost' = lost
  BY <1>0 DEF InitSlot
<1>4. \A g \in Handles : ~slot'[g].flag
  <2>1. slot' = [slot EXCEPT ![h] = [slot[h] EXCEPT !.flag = FALSE, !.func = Nil]]
    BY DEF InitSlot
  <2> QED
    BY ZenonT(60), <1>0, <2>1, FlagWritten
<1>5. /\ call'[c].pc \in {"wipe", "idle"} /\ call'[c].sweep = FALSE
      /\ \A x \in Callers \ {c} : call'[x] = call[x]
  BY <1>0, NextIndexMoves, NextIndexRest DEF InitSlot
<1>6. CallOk(c)'
  BY <1>4, <1>5 DEF CallOk, At
<1> QED
  BY <1>0, <1>1, <1>2, <1>3, <1>5, <1>6, OwnAppKeeps

\* create works on an entry whose flag is down: no thread is attached to it, and
\* no callback sends through it.
LEMMA OwnCreate ==
    ASSUME NEW c \in Apps, OwnInv(c), SessInv(c)',
           \/ CreateSession(c) \/ CreateFails(c) \/ CreateJoinGroup(c)
           \/ CreateUndo(c) \/ CreatePublish(c)
    PROVE  OwnInv(c)'
<1> DEFINE h == call[c].h
<1>0. /\ TypeOK /\ c \in Callers /\ h \in Handles /\ call[c] # Idle /\ ~slot[h].flag
  BY HandleType, IdleFields
  DEF OwnInv, SessInv, At, Callers, CreateSession, CreateFails, CreateJoinGroup,
      CreateUndo, CreatePublish
<1>1. ~Attached(h) /\ \A t \in Threads : call[t] # Idle => /\ slot[call[t].h].flag
                                                           /\ call[t].h \in Handles
  BY <1>0, AttachedCreated, CallbackFlags
<1>2. /\ thread' = thread /\ params' = params
      /\ fault' = fault /\ lost' = lost
  BY DEF CreateSession, CreateFails, CreateJoinGroup, CreateUndo, CreatePublish
<1>3. \A g \in Handles : session'[g].owner = session[g].owner
  <2>1. CASE CreateSession(c)
    <3>1. session' = [session EXCEPT ![h] = [session[h] EXCEPT !.created = TRUE]]
      BY <2>1 DEF CreateSession
    <3>2. [session[h] EXCEPT !.created = TRUE].owner = session[h].owner
      BY <1>0 DEF TypeOK, Session
    <3> QED
      BY <1>0, <3>1, <3>2, SetSession
  <2>2. CASE session' = session
    BY <2>2
  <2> QED
    BY <2>1, <2>2 DEF CreateFails, CreateJoinGroup, CreateUndo, CreatePublish
<1>4. \A g \in Handles \ {h} : slot'[g] = slot[g]
  <2>1. CASE CreatePublish(c)
    BY <1>0, <2>1 DEF CreatePublish, TypeOK
  <2>2. CASE slot' = slot
    BY <2>2
  <2> QED
    BY <2>1, <2>2 DEF CreateSession, CreateFails, CreateJoinGroup, CreateUndo
<1>5. /\ call'[c].pc \in {"idle", "join group", "undo", "publish"}
      /\ call'[c].sweep => call[c].sweep
      /\ \A x \in Callers \ {c} : call'[x] = call[x]
  <2>1. ASSUME NEW label, Goto(c, label)
        PROVE  /\ call'[c].pc = label
               /\ call'[c].sweep => call[c].sweep
               /\ \A x \in Callers \ {c} : call'[x] = call[x]
    BY <1>0, <2>1, GotoMoves, GotoKeeps
  <2>2. CASE Return(c)
    BY <1>0, <2>2, ReturnRests, IdleFields
  <2> QED
    BY <2>1, <2>2
    DEF CreateSession, CreateFails, CreateJoinGroup, CreateUndo, CreatePublish
<1>6. CallOk(c)'
  <2>1. call[c].sweep => \A g \in Handles : ~Attached(g)'
    BY <1>2, AttachedKept DEF OwnInv, CallOk
  <2> QED
    BY <1>5, <2>1, AtRest
<1>7. \A t \in Threads : call[t] # Idle => slot'[call[t].h].flag
  BY <1>0, <1>1, <1>4
<1> QED
  BY <1>0, <1>1, <1>2, <1>3, <1>4, <1>5, <1>6, <1>7, OwnAppKeeps

\* destory: no thread is inside the session it leaves.
LEMMA NotInside ==
    ASSUME NEW c \in Apps, OwnInv(c), At(c, "leave") \/ At(c, "undo")
    PROVE  ~Inside(call[c].h) /\ ~Attached(call[c].h)
<1> DEFINE h == call[c].h
<1>0. TypeOK /\ c \in Callers /\ h \in Handles /\ call[c] # Idle
  BY HandleType, IdleFields DEF OwnInv, SessInv, At, Callers
<1>1. ~Attached(h)
  <2>1. CASE At(c, "leave")
    BY <2>1 DEF OwnInv, CallOk
  <2>2. CASE At(c, "undo")
    BY <1>0, <2>2, AttachedCreated DEF OwnInv, SessInv
  <2> QED
    BY <2>1, <2>2
<1>2. ASSUME NEW t \in Threads, thread[t].serves = h,
             thread[t].st \in {"access"} \cup Reading
      PROVE  FALSE
  <2>1. thread[t].st \in Serving /\ thread[t].st # "unused"
    BY <1>2 DEF Serving, Reading
  <2>2. thread[t].madeFor = h
    BY <1>2, <2>1 DEF OwnInv, ThreadOk
  <2> QED
    BY <1>1, <2>1, <2>2 DEF Attached
<1>3. ASSUME NEW x \in Callers, At(x, "count"), call[x].h = h
      PROVE  FALSE
  <2>0. call[x] # Idle
    BY <1>3, IdleFields DEF At
  <2>1. CASE x \in Apps
    <3>1. x = c
      BY <1>0, <2>0, <2>1 DEF OwnInv, OneCall
    <3> QED
      BY <1>3, <3>1 DEF At
  <2>2. CASE x \in Threads
    <3>1. CASE At(c, "leave")
      BY <1>3, <2>0, <2>2, <3>1 DEF OwnInv, CallOk
    <3>2. CASE At(c, "undo")
      BY <1>3, <2>0, <2>2, <3>2, CallbackFlags DEF OwnInv, SessInv
    <3> QED
      BY <3>1, <3>2
  <2> QED
    BY <2>1, <2>2 DEF Callers
<1> QED
  BY <1>1, <1>2, <1>3 DEF Inside

LEMMA OwnLeave ==
    ASSUME NEW c \in Apps, OwnInv(c), SessInv(c)', Leave(c)
    PROVE  OwnInv(c)'
<1> DEFINE h == call[c].h
<1>0. /\ TypeOK /\ c \in Callers /\ h \in Handles /\ call[c] # Idle
      /\ ~Inside(h) /\ ~Attached(h)
  BY HandleType, IdleFields, NotInside DEF OwnInv, SessInv, At, Callers, Leave
<1>1. /\ thread' = thread /\ params' = params /\ slot' = slot
      /\ fault' = fault /\ lost' = lost
      /\ session' = [session EXCEPT ![h] =
                       [session[h] EXCEPT !.created = FALSE, !.data = NoData]]
      /\ IF At(c, "leave") THEN Goto(c, "clear flag") ELSE Return(c)
  BY <1>0 DEF Leave
<1>2. \A g \in Handles : session'[g].owner = session[g].owner
  <2>1. [session[h] EXCEPT !.created = FALSE, !.data = NoData].owner = session[h].owner
    BY <1>0 DEF TypeOK, Session
  <2> QED
    BY ZenonT(60), <1>0, <1>1, <2>1, SetSession
<1>3. \A t \in Threads : call[t] # Idle => slot'[call[t].h].flag
  BY <1>1, CallbackFlags
<1>4. /\ CallOk(c)'
      /\ \A x \in Callers \ {c} : call'[x] = call[x]
  <2>0. \A g \in Handles : Attached(g)' <=> Attached(g)
    BY <1>1, AttachedKept
  <2>1. CASE At(c, "leave")
    <3>1. /\ call'[c].pc = "clear flag" /\ call'[c].h = h
          /\ call'[c].sweep = call[c].sweep
          /\ \A x \in Callers \ {c} : call'[x] = call[x]
      BY <1>0, <1>1, <2>1, GotoMoves, GotoKeeps
    <3>2. \A t \in Threads : call'[t] # Idle => call'[t].h # h
      <4>1. \A t \in Threads : call[t] # Idle => call[t].h # h
        BY <2>1 DEF OwnInv, CallOk
      <4>2. \A t \in Threads : call'[t] = call[t]
        BY <3>1, ConstantsAssumption DEF Callers
      <4> QED
        BY <4>1, <4>2
    <3>3. call[c].sweep => \A g \in Handles : ~Attached(g)
      BY DEF OwnInv, CallOk
    <3>4. CallOk(c)'
      BY <1>0, <2>0, <3>1, <3>2, <3>3 DEF CallOk, At
    <3> QED
      BY <3>1, <3>4
  <2>2. CASE ~At(c, "leave")
    BY <1>0, <1>1, <2>2, ReturnRests, AtRest, IdleFields
  <2> QED
    BY <2>1, <2>2
<1> QED
  BY <1>0, <1>1, <1>2, <1>3, <1>4, OwnAppKeeps

LEMMA OwnClearFlag ==
    ASSUME NEW c \in Apps, OwnInv(c), SessInv(c)', DestoryClearFlag(c)
    PROVE  OwnInv(c)'
<1> DEFINE h == call[c].h
<1>0. /\ TypeOK /\ c \in Callers /\ h \in Handles /\ call[c] # Idle /\ ~Attached(h)
      /\ \A t \in Threads : call[t] # Idle => call[t].h # h
  BY HandleType, IdleFields DEF OwnInv, SessInv, CallOk, At, Callers, DestoryClearFlag
<1>1. /\ thread' = thread /\ params' = params /\ session' = session
      /\ fault' = fault /\ lost' = lost
      /\ slot' = [slot EXCEPT ![h] = [slot[h] EXCEPT !.flag = FALSE]]
  BY DEF DestoryClearFlag
<1>2. \A g \in Handles \ {h} : slot'[g] = slot[g]
  BY <1>0, <1>1, SetSlot
<1>3. \A t \in Threads : call[t] # Idle => slot'[call[t].h].flag
  BY <1>0, <1>2, CallbackFlags
<1>4. /\ call'[c].pc \in {"sweep", "idle"} /\ call'[c].sweep = FALSE
      /\ call'[c].pc = "sweep" => call[c].sweep
      /\ \A x \in Callers \ {c} : call'[x] = call[x]
  <2>1. CASE call[c].sweep
    BY <1>0, <2>1, NextIndexMoves, NextIndexRest DEF DestoryClearFlag
  <2>2. CASE ~call[c].sweep
    BY <1>0, <2>2, ReturnRests, IdleFields DEF DestoryClearFlag
  <2> QED
    BY <2>1, <2>2
<1>5. CallOk(c)'
  <2>1. call[c].sweep => \A g \in Handles : ~Attached(g)'
    BY <1>1, AttachedKept DEF OwnInv, CallOk
  <2> QED
    BY <1>4, <2>1 DEF CallOk, At
<1> QED
  BY <1>0, <1>1, <1>2, <1>3, <1>4, <1>5, OwnAppKeeps

LEMMA OwnDeinitSlot ==
    ASSUME NEW c \in Apps, OwnInv(c), SessInv(c)', DeinitSlot(c)
    PROVE  OwnInv(c)'
<1>0. /\ TypeOK /\ c \in Callers /\ call[c] # Idle
      /\ \A g \in Handles : ~Attached(g)
  BY IdleFields DEF OwnInv, SessInv, CallOk, At, Callers, DeinitSlot
<1>1. \A t \in Threads : call[t] = Idle
  BY <1>0, CallbackFlags
<1>2. /\ thread' = thread /\ params' = params /\ session' = session
      /\ slot' = slot /\ fault' = fault /\ lost' = lost
  BY DEF DeinitSlot
<1>3. /\ call'[c].pc \in {"sweep", "idle", "leave"}
      /\ \A x \in Callers \ {c} : call'[x] = call[x]
  <2>1. CASE slot[call[c].h].flag
    <3>1. call' = [call EXCEPT ![c] = [call[c] EXCEPT !.pc = "leave", !.sweep = TRUE]]
      BY <2>1 DEF DeinitSlot
    <3> QED
      BY <1>0, <3>1 DEF TypeOK, Calls
  <2>2. CASE ~slot[call[c].h].flag
    BY <1>0, <2>2, NextIndexMoves DEF DeinitSlot
  <2> QED
    BY <2>1, <2>2
<1>4. call'[c].h \in Handles
  BY <1>0 DEF SessInv, TypeOK, Calls
<1>5. \A g \in Handles : ~Attached(g)'
  BY <1>0, <1>2, AttachedKept
<1>6. \A t \in Threads : call'[t] = Idle
  BY <1>1, <1>3, ConstantsAssumption DEF Callers
<1>7. Idle' = Idle
  BY DEF Idle, Call
<1>8. CallOk(c)'
  BY <1>3, <1>4, <1>5, <1>6, <1>7 DEF CallOk, At
<1> QED
  BY <1>0, <1>1, <1>2, <1>3, <1>8, OwnAppKeeps

\* open: the thread is the first of its handle.
LEMMA OwnSpawn ==
    ASSUME NEW c \in Apps, OwnInv(c), SessInv(c)', NEW a \in Apps,
           NEW t \in Threads, OpenSpawn(a, t)
    PROVE  OwnInv(c)'
<1> DEFINE h == call[a].h
<1>0. /\ TypeOK /\ a \in Callers /\ call[a] # Idle /\ h \in Handles
  BY HandleType, IdleFields DEF OwnInv, SessInv, At, OpenSpawn, Callers
<1>1. /\ slot[h].flag /\ ~Attached(h) /\ params = h
      /\ \A u \in Threads : thread[u].st # "starting"
  BY DEF OwnInv, CallOk, OpenSpawn
<1>2. /\ call'[a] = Idle /\ \A x \in Callers \ {a} : call'[x] = call[x]
      /\ params' = params /\ session' = session
      /\ lost' = lost /\ fault' = fault
  BY <1>0, ReturnRests DEF OpenSpawn
<1>3. CallOk(a)'
  BY <1>2, AtRest, IdleFields
<1>4. OneCall' /\ \A b \in Apps : CallOk(b)'
  BY <1>0, <1>2, <1>3, OthersIdle, IdleCalls DEF OwnInv
<1>5. /\ slot'[h].flag /\ slot'[h].recvThread = t
      /\ \A g \in Handles \ {h} : slot'[g] = slot[g]
  <2>1. slot' = [slot EXCEPT ![h] = [slot[h] EXCEPT !.recvThread = t]]
    BY DEF OpenSpawn
  <2>2. slot[h] \in Slot
    BY <1>0 DEF TypeOK
  <2>3. LET r == [slot[h] EXCEPT !.recvThread = t]
        IN  r.flag = slot[h].flag /\ r.recvThread = t
    BY <2>2 DEF Slot
  <2> QED
    BY <1>0, <1>1, <2>1, <2>3, SetSlot
<1>6. \A g \in Handles : slot[g].flag => slot'[g].flag
  BY <1>5
<1>7. /\ thread[t].st = "unused"
      /\ thread'[t].st = "starting" /\ thread'[t].madeFor = h
      /\ thread'[t].cancel = thread[t].cancel
      /\ \A u \in Threads \ {t} : thread'[u] = thread[u]
  <2>1. /\ thread[t].st = "unused"
        /\ thread' = [thread EXCEPT
                        ![t] = [thread[t] EXCEPT !.st = "starting", !.madeFor = h]]
    BY DEF OpenSpawn
  <2>2. thread \in [Threads -> Thread] /\ thread[t] \in Thread
    BY <1>0 DEF TypeOK
  <2>3. LET r == [thread[t] EXCEPT !.st = "starting", !.madeFor = h]
        IN  r.st = "starting" /\ r.madeFor = h /\ r.cancel = thread[t].cancel
    BY <2>2 DEF Thread
  <2> QED
    BY <2>1, <2>2, <2>3
<1>8. ThreadOk(t)'
  <2>1. ~thread[t].cancel
    BY DEF OwnInv, ThreadOk
  <2>2. params' = h
    BY <1>1, <1>2
  <2> QED
    BY <1>5, <1>7, <2>1, <2>2 DEF ThreadOk, Serving, Reading
<1>9. ASSUME NEW u \in Threads \ {t}
      PROVE  ThreadOk(u)'
  <2>1. thread'[u] = thread[u] /\ ThreadOk(u) /\ thread[u].madeFor \in Handles
    BY <1>0, <1>7 DEF OwnInv, TypeOK, Thread
  <2>2. CASE thread[u].st = "unused"
    BY <2>1, <2>2 DEF ThreadOk, Serving, Reading
  <2>3. CASE thread[u].st # "unused"
    <3>1. thread[u].madeFor # h /\ thread[u].st # "starting"
      BY <1>1, <2>3 DEF Attached
    <3>2. slot'[thread[u].madeFor] = slot[thread[u].madeFor]
      BY <1>5, <2>1, <3>1
    <3> QED
      BY <1>2, <2>1, <3>1, <3>2 DEF ThreadOk
  <2> QED
    BY <2>2, <2>3
<1>10. ASSUME NEW u \in Threads PROVE CallbackOk(u)'
  <2>1. call'[u] = call[u] /\ CallbackOk(u)
    BY <1>2, ConstantsAssumption DEF Callers, OwnInv
  <2>2. call[u] # Idle => slot'[call[u].h].flag
    BY <1>6, CallbackFlags
  <2>3. thread[u].st = "incall" => thread'[u].st = "incall"
    BY <1>7
  <2>4. Idle' = Idle
    BY DEF Idle, Call
  <2> QED
    BY <2>1, <2>2, <2>3, <2>4 DEF CallbackOk, At
<1>11. ASSUME NEW g \in Handles PROVE LockOk(g)'
  <2>1. LockOk(g)
    BY DEF OwnInv
  <2> QED
    BY <1>2, <1>7, <2>1 DEF LockOk, Reading
<1>12. \A u \in Threads : ThreadOk(u)'
  BY <1>8, <1>9
<1> QED
  BY <1>2, <1>4, <1>10, <1>11, <1>12 DEF OwnInv

\* close: the thread that has ended is detached from its handle.
LEMMA OwnJoined ==
    ASSUME NEW c \in Apps, OwnInv(c), SessInv(c)', NEW a \in Apps, CloseJoined(a)
    PROVE  OwnInv(c)'
<1> DEFINE h == call[a].h
<1>0. TypeOK /\ a \in Callers /\ call[a] # Idle /\ h \in Handles
  BY HandleType, IdleFields DEF OwnInv, SessInv, At, CloseJoined, Callers
<1>t. PICK t \in Threads : /\ t = call[a].tid
                           /\ thread[t].st # "unused" /\ thread[t].madeFor = h
  BY DEF OwnInv, CallOk, CloseJoined
<1>1. /\ thread[t].st = "ended" /\ slot[h].recvThread = t
  BY ZenonT(60), <1>t DEF OwnInv, ThreadOk, CloseJoined
<1>2. /\ call'[a].pc = "cancel" /\ call'[a].h = h /\ call'[a].sweep = call[a].sweep
      /\ \A x \in Callers \ {a} : call'[x] = call[x]
  <2>1. call' = [call EXCEPT ![a] = [call[a] EXCEPT !.pc = "cancel", !.tid = Nil]]
    BY DEF CloseJoined
  <2> QED
    BY <1>0, <2>1 DEF TypeOK, Calls
<1>3. /\ slot' = slot /\ params' = params /\ session' = session
      /\ lost' = lost /\ fault' = fault
      /\ thread' = [thread EXCEPT ![t] = NoThread]
  BY <1>t DEF CloseJoined
<1>4. /\ thread'[t].st = "unused" /\ ~thread'[t].cancel
      /\ \A u \in Threads \ {t} : thread'[u] = thread[u]
  BY <1>0, <1>3 DEF TypeOK, NoThread
<1>5. ~call[a].sweep
  BY <1>0, <1>t DEF OwnInv, CallOk, Attached
<1>6. CallOk(a)'
  BY <1>1, <1>2, <1>3, <1>4, <1>5 DEF CallOk, At
<1>7. OneCall' /\ \A b \in Apps : CallOk(b)'
  BY <1>0, <1>2, <1>6, OthersIdle, IdleCalls DEF OwnInv
<1>8. ThreadOk(t)'
  BY <1>4 DEF ThreadOk, Serving, Reading
<1>9. ASSUME NEW u \in Threads \ {t} PROVE ThreadOk(u)'
  <2>1. ThreadOk(u) /\ thread'[u] = thread[u]
    BY <1>4 DEF OwnInv
  <2> QED
    BY <1>3, <2>1 DEF ThreadOk
<1>10. \A u \in Threads : ThreadOk(u)'
  BY <1>8, <1>9
<1>11. ASSUME NEW u \in Threads PROVE CallbackOk(u)'
  <2>1. call'[u] = call[u] /\ CallbackOk(u)
    BY <1>2, ConstantsAssumption DEF Callers, OwnInv
  <2>2. thread[u].st = "incall" => thread'[u].st = "incall"
    BY <1>1, <1>4
  <2>3. Idle' = Idle
    BY DEF Idle, Call
  <2> QED
    BY <1>3, <2>1, <2>2, <2>3 DEF CallbackOk, At
<1>12. ASSUME NEW g \in Handles PROVE LockOk(g)'
  <2>1. LockOk(g)
    BY DEF OwnInv
  <2> QED
    BY <1>1, <1>3, <1>4, <2>1 DEF LockOk, Reading
<1> QED
  BY <1>3, <1>7, <1>10, <1>11, <1>12 DEF OwnInv

\* The other steps of an application's open, close and send.
LEMMA OwnQuiet ==
    ASSUME NEW c \in Apps, OwnInv(c), SessInv(c)', NEW a \in Apps,
           OpenFails(a) \/ CloseCancel(a) \/ CloseUnregister(a)
              \/ SendOut(a) \/ SendCount(a)
    PROVE  OwnInv(c)'
<1> DEFINE h == call[a].h
<1>0. TypeOK /\ a \in Callers /\ call[a] # Idle /\ h \in Handles
  BY HandleType, IdleFields
  DEF OwnInv, SessInv, At, Callers, OpenFails, CloseCancel, CloseUnregister,
      SendOut, SendCount
<1>1. thread' = thread
  <2>1. CASE CloseCancel(a)
    <3>1. slot[h].recvThread \in Threads \cup {Nil}
      BY <1>0 DEF TypeOK, Slot
    <3>2. slot[h].recvThread \in Threads
             => thread[slot[h].recvThread].st = "unused"
      BY <2>1 DEF OwnInv, CallOk, CloseCancel
    <3> QED
      BY <2>1, <3>1, <3>2 DEF CloseCancel
  <2> QED
    BY <2>1 DEF OpenFails, CloseUnregister, SendOut, SendCount
<1>2. /\ params' = params /\ session' = session
      /\ lost' = lost /\ fault' = fault
  BY DEF OpenFails, CloseCancel, CloseUnregister, SendOut, SendCount
<1>3. \A g \in Handles : /\ slot'[g].flag = slot[g].flag
                         /\ slot'[g].recvThread = slot[g].recvThread
  <2>1. CASE CloseUnregister(a)
    BY <1>0, <2>1, SetFunc DEF CloseUnregister
  <2>2. CASE slot' = slot
    BY <2>2
  <2> QED
    BY <2>1, <2>2 DEF OpenFails, CloseCancel, SendOut, SendCount
<1>4. /\ call'[a].pc \in {"idle", "unregister", "count"}
      /\ call'[a].sweep => call[a].sweep
      /\ \A x \in Callers \ {a} : call'[x] = call[x]
  <2>1. CASE Return(a)
    BY <1>0, <2>1, ReturnRests, IdleFields
  <2>2. ASSUME NEW label, Goto(a, label)
        PROVE  /\ call'[a].pc = label
               /\ call'[a].sweep => call[a].sweep
               /\ \A x \in Callers \ {a} : call'[x] = call[x]
    BY <1>0, <2>2, GotoMoves, GotoKeeps
  <2> QED
    BY <2>1, <2>2
    DEF OpenFails, CloseCancel, CloseUnregister, SendOut, SendCount
<1>5. CallOk(a)'
  <2>1. call[a].sweep => \A g \in Handles : ~Attached(g)'
    BY <1>1, AttachedKept DEF OwnInv, CallOk
  <2> QED
    BY <1>4, <2>1, AtRest
<1>6. \A t \in Threads : call[t] # Idle => slot'[call[t].h].flag
  BY <1>3, CallbackFlags
<1> QED
  BY <1>0, <1>1, <1>2, <1>3, <1>4, <1>5, <1>6, OwnAppKeeps

\* What a callback does.
LEMMA OwnCallback ==
    ASSUME NEW c \in Apps, OwnInv(c), SessInv(c)', NEW t \in Threads,
           OrderlyCallback(t) \/ SendOut(t) \/ SendCount(t)
    PROVE  OwnInv(c)'
<1>0. TypeOK /\ t \in Callers /\ t \notin Apps /\ thread[t].serves \in Handles
  BY ConstantsAssumption DEF OwnInv, SessInv, Callers, TypeOK, Thread
<1>1. /\ thread' = thread /\ params' = params /\ session' = session
      /\ lost' = lost /\ fault' = fault
  BY DEF OrderlyCallback, Unregister, Register, SendBegin, SendOut, SendCount
<1>2. \A g \in Handles : /\ slot'[g].flag = slot[g].flag
                         /\ slot'[g].recvThread = slot[g].recvThread
  <2>1. CASE Unregister(t, thread[t].serves)
    BY <1>0, <2>1, SetFunc DEF Unregister, Register
  <2>2. CASE slot' = slot
    BY <2>2
  <2> QED
    BY <2>1, <2>2 DEF OrderlyCallback, SendBegin, SendOut, SendCount
<1>3. /\ \A x \in Callers \ {t} : call'[x] = call[x]
      /\ \/ call'[t] = Idle
         \/ /\ thread[t].st = "incall" /\ call'[t].pc \in {"send", "count"}
            /\ slot[call'[t].h].flag /\ call'[t].h \in Handles
            /\ \/ call[t] # Idle /\ call'[t].h = call[t].h
               \/ ~Working(call'[t].h)
  <2>1. CASE Unregister(t, thread[t].serves)
    BY <2>1 DEF Unregister, Register, Free
  <2>2. ASSUME NEW h \in Handles, ~Working(h), SendBegin(t, h)
        PROVE  /\ \A x \in Callers \ {t} : call'[x] = call[x]
               /\ thread[t].st = "incall" /\ call'[t].pc = "send"
               /\ slot[h].flag /\ call'[t].h = h
    BY <1>0, <2>2, BeginMoves DEF SendBegin, Free
  <2>3. CASE SendOut(t) /\ Goto(t, "count")
    <3>1. /\ call[t] # Idle /\ CallbackOk(t)
      BY <2>3, IdleFields DEF SendOut, At, OwnInv
    <3>2. /\ call'[t].pc = "count" /\ call'[t].h = call[t].h
          /\ \A x \in Callers \ {t} : call'[x] = call[x]
      BY <1>0, <2>3, GotoMoves
    <3>3. call[t].h \in Handles
      BY <1>0, HandleType
    <3> QED
      BY <3>1, <3>2, <3>3 DEF CallbackOk
  <2>4. CASE Return(t)
    BY <1>0, <2>4, ReturnRests
  <2> QED
    BY <2>1, <2>2, <2>3, <2>4 DEF OrderlyCallback, SendOut, SendCount
<1>4. (\A u \in Threads : ThreadOk(u)') /\ \A g \in Handles : LockOk(g)'
  BY <1>0, <1>1, <1>2, ThreadsKeep DEF OwnInv
<1>5. Idle' = Idle
  BY DEF Idle, Call
<1>6. ASSUME NEW u \in Threads PROVE CallbackOk(u)'
  <2>1. CASE u = t
    BY <1>1, <1>2, <1>3, <1>5, <2>1 DEF CallbackOk, At
  <2>2. CASE u # t
    <3>1. call'[u] = call[u] /\ CallbackOk(u)
      BY <1>3, <2>2 DEF Callers, OwnInv
    <3>2. call[u] # Idle => slot[call[u].h].flag /\ call[u].h \in Handles
      BY CallbackFlags
    <3> QED
      BY <1>1, <1>2, <1>5, <3>1, <3>2 DEF CallbackOk, At
  <2> QED
    BY <2>1, <2>2
<1>7. ASSUME NEW a \in Apps PROVE CallOk(a)'
  <2> DEFINE h == call[a].h
  <2>1. call'[a] = call[a] /\ CallOk(a) /\ h \in Handles
    BY <1>0, <1>3, HandleType DEF Callers, OwnInv
  <2>2. \A g \in Handles : Attached(g)' <=> Attached(g)
    BY <1>1, AttachedKept
  <2>3. CASE At(a, "leave") \/ At(a, "clear flag")
    <3>1. Working(h)
      BY <2>3 DEF Working
    <3>2. \A u \in Threads : call[u] # Idle => call[u].h # h
      BY <2>1, <2>3 DEF CallOk
    <3>3. ASSUME NEW u \in Threads, call'[u] # Idle PROVE call'[u].h # h
      <4>1. CASE u = t
        BY <1>3, <3>1, <3>2, <3>3, <4>1
      <4>2. CASE u # t
        BY <1>3, <3>2, <3>3, <4>2 DEF Callers
      <4> QED
        BY <4>1, <4>2
    <3>4. ~Attached(h)' /\ (call[a].sweep => \A g \in Handles : ~Attached(g)')
      BY <2>1, <2>2, <2>3 DEF CallOk
    <3> QED
      BY <1>5, <2>1, <2>3, <3>3, <3>4 DEF CallOk, At
  <2>4. CASE ~(At(a, "leave") \/ At(a, "clear flag"))
    BY <1>1, <1>2, <2>1, <2>2, <2>4 DEF CallOk, At
  <2> QED
    BY <2>3, <2>4
<1>8. OneCall'
  <2>1. \A a \in Apps : call'[a] = call[a]
    BY <1>0, <1>3 DEF Callers
  <2> QED
    BY <1>5, <2>1 DEF OwnInv, OneCall
<1> QED
  BY <1>1, <1>4, <1>6, <1>7, <1>8 DEF OwnInv

\* Every step of a call in progress.
LEMMA OwnCallStep ==
    ASSUME NEW c \in Apps, OwnInv(c), SessInv(c)', NEW x \in Callers, CallStep(x)
    PROVE  OwnInv(c)'
<1>1. CASE x \in Apps
  <2>1. CASE \/ InitSlot(x) \/ CreateSession(x) \/ CreateFails(x)
             \/ CreateJoinGroup(x) \/ CreateUndo(x) \/ CreatePublish(x)
             \/ Leave(x) \/ DestoryClearFlag(x) \/ DeinitSlot(x)
    <3>1. call[x].pc \in ControlLabels
      BY <2>1 DEF InitSlot, CreateSession, CreateFails, CreateJoinGroup,
                  CreateUndo, CreatePublish, Leave, DestoryClearFlag, DeinitSlot,
                  At, ControlLabels
    <3>2. x = c
      BY <3>1 DEF OwnInv, SessInv
    <3> QED
      BY <2>1, <3>2, OwnInitSlot, OwnCreate, OwnLeave, OwnClearFlag, OwnDeinitSlot
  <2>2. CASE \/ \E t \in Threads : OpenSpawn(x, t)
             \/ OpenFails(x) \/ CloseJoined(x) \/ CloseCancel(x)
             \/ CloseUnregister(x) \/ SendOut(x) \/ SendCount(x)
    BY <1>1, <2>2, OwnSpawn, OwnJoined, OwnQuiet
  <2> QED
    BY <2>1, <2>2 DEF CallStep
<1>2. CASE x \in Threads
  <2>1. call[x].pc \in {"idle", "send", "count"}
    BY <1>2, IdleFields DEF OwnInv, CallbackOk, At
  <2>2. SendOut(x) \/ SendCount(x)
    BY <2>1 DEF CallStep, InitSlot, CreateSession, CreateFails, CreateJoinGroup,
                CreateUndo, CreatePublish, Leave, DestoryClearFlag, DeinitSlot,
                OpenSpawn, OpenFails, CloseJoined, CloseCancel, CloseUnregister, At
  <2> QED
    BY <1>2, <2>2, OwnCallback
<1> QED
  BY <1>1, <1>2 DEF Callers

-----------------------------------------------------------------------------
(* The orderly client: the receiver threads and the poll threads. *)

\* The lock or the packets of one session are written.
LEMMA SetOwner ==
    ASSUME TypeOK, NEW h \in Handles, NEW o,
           session' = [session EXCEPT ![h].owner = o]
    PROVE  /\ session'[h].owner = o
           /\ \A g \in Handles \ {h} : session'[g].owner = session[g].owner
<1>1. session' = [session EXCEPT ![h] = [session[h] EXCEPT !.owner = o]]
  OBVIOUS
<1>2. [session[h] EXCEPT !.owner = o].owner = o
  BY DEF TypeOK, Session
<1> QED
  BY <1>1, <1>2, SetSession

LEMMA SetData ==
    ASSUME TypeOK, NEW h \in Handles, NEW d,
           session' = [session EXCEPT ![h] = [session[h] EXCEPT !.data = d]]
    PROVE  \A g \in Handles : session'[g].owner = session[g].owner
<1>1. [session[h] EXCEPT !.data = d].owner = session[h].owner
  BY DEF TypeOK, Session
<1> QED
  BY <1>1, SetSession

\* A thread moves to another state of its loop, at a source or other.
LEMMA StateMoves ==
    ASSUME TypeOK, NEW t \in Threads, NEW s,
           \/ thread' = [thread EXCEPT ![t].st = s]
           \/ \E k : thread' = [thread EXCEPT ![t].st = s, ![t].at = k]
    PROVE  /\ thread'[t].st = s
           /\ thread'[t].madeFor = thread[t].madeFor
           /\ thread'[t].serves = thread[t].serves
           /\ thread'[t].cancel = thread[t].cancel
           /\ \A u \in Threads \ {t} : thread'[u] = thread[u]
<1>0. thread \in [Threads -> Thread] /\ thread[t] \in Thread
  BY DEF TypeOK
<1>1. CASE thread' = [thread EXCEPT ![t].st = s]
  BY <1>0, <1>1 DEF Thread
<1>2. ASSUME NEW k, thread' = [thread EXCEPT ![t].st = s, ![t].at = k]
      PROVE  /\ thread'[t].st = s
             /\ thread'[t].madeFor = thread[t].madeFor
             /\ thread'[t].serves = thread[t].serves
             /\ thread'[t].cancel = thread[t].cancel
             /\ \A u \in Threads \ {t} : thread'[u] = thread[u]
  BY <1>0, <1>2 DEF Thread
<1> QED
  BY <1>1, <1>2

\* Where each step of the loop takes its thread.
LEMMA LoopMoves ==
    ASSUME TypeOK, NEW t \in Threads, RecvStep(t), ~RecvStart(t), ~RecvCancelled(t)
    PROVE  /\ thread[t].st \in Serving
           /\ thread'[t].st \in Serving \cup {"ended"}
           /\ RecvTest(t) => /\ thread[t].st = "test"
                             /\ thread'[t].st \in {"begin", "ended"}
           /\ RecvBegin(t) =>
                 /\ thread[t].st = "begin"
                 /\ session[thread[t].serves].created => thread'[t].st = "access"
           /\ RecvAccess(t) => thread[t].st = "access" /\ thread'[t].st = "take"
           /\ RecvTake(t) => thread[t].st = "take" /\ thread'[t].st = "call"
           /\ RecvCall(t) => /\ thread[t].st = "call"
                             /\ thread'[t].st \in {"call", "incall"}
           /\ RecvReturn(t) => /\ thread[t].st = "incall" /\ call[t] = Idle
                               /\ thread'[t].st = "take"
           /\ RecvEnd(t) => thread[t].st = "take" /\ thread'[t].st = "test"
           /\ thread'[t].madeFor = thread[t].madeFor
           /\ thread'[t].serves = thread[t].serves
           /\ thread'[t].cancel = thread[t].cancel
           /\ \A u \in Threads \ {t} : thread'[u] = thread[u]
<1>1. \/ thread' = thread
      \/ \E s : \/ thread' = [thread EXCEPT ![t].st = s]
              \/ \E k : thread' = [thread EXCEPT ![t].st = s, ![t].at = k]
  BY DEF RecvStep, RecvTest, RecvBegin, RecvAccess, RecvTake, RecvCall,
         RecvReturn, RecvEnd
<1>2. /\ thread'[t].madeFor = thread[t].madeFor
      /\ thread'[t].serves = thread[t].serves
      /\ thread'[t].cancel = thread[t].cancel
      /\ \A u \in Threads \ {t} : thread'[u] = thread[u]
  <2>1. CASE thread' = thread
    BY <2>1
  <2>2. CASE thread' # thread
    <3>1. PICK s : \/ thread' = [thread EXCEPT ![t].st = s]
                   \/ \E k : thread' = [thread EXCEPT ![t].st = s, ![t].at = k]
      BY <1>1, <2>2
    <3> QED
      BY <3>1, StateMoves
  <2> QED
    BY <2>1, <2>2
<1>3. RecvTest(t) => thread[t].st = "test" /\ thread'[t].st \in {"begin", "ended"}
  BY StateMoves DEF RecvTest
<1>4. RecvBegin(t) => /\ thread[t].st = "begin"
                      /\ thread'[t].st \in {"access", "take"}
                      /\ session[thread[t].serves].created => thread'[t].st = "access"
  <2> SUFFICES ASSUME RecvBegin(t)
               PROVE  /\ thread[t].st = "begin"
                      /\ thread'[t].st \in {"access", "take"}
                      /\ session[thread[t].serves].created => thread'[t].st = "access"
    OBVIOUS
  <2> DEFINE s == IF session[thread[t].serves].created THEN "access" ELSE "take"
  <2>1. thread[t].st = "begin" /\ thread' = [thread EXCEPT ![t].st = s, ![t].at = 1]
    BY DEF RecvBegin
  <2>2. s \in {"access", "take"} /\ (session[thread[t].serves].created => s = "access")
    OBVIOUS
  <2> HIDE DEF s
  <2>3. thread'[t].st = s
    BY <2>1, StateMoves
  <2> QED
    BY <2>1, <2>2, <2>3
<1>5. RecvAccess(t) => thread[t].st = "access" /\ thread'[t].st = "take"
  BY StateMoves DEF RecvAccess
<1>6. RecvTake(t) => thread[t].st = "take" /\ thread'[t].st = "call"
  <2> SUFFICES ASSUME RecvTake(t)
               PROVE  thread[t].st = "take" /\ thread'[t].st = "call"
    OBVIOUS
  <2>1. PICK k : thread' = [thread EXCEPT ![t].st = "call", ![t].at = k]
    BY DEF RecvTake
  <2> QED
    BY <2>1, StateMoves DEF RecvTake
<1>7. RecvCall(t) => thread[t].st = "call" /\ thread'[t].st \in {"call", "incall"}
  BY StateMoves DEF RecvCall
<1>8. RecvReturn(t) => /\ thread[t].st = "incall" /\ call[t] = Idle
                       /\ thread'[t].st = "take"
  BY StateMoves DEF RecvReturn
<1>9. RecvEnd(t) => thread[t].st = "take" /\ thread'[t].st = "test"
  BY StateMoves DEF RecvEnd
<1> QED
  BY <1>2, <1>3, <1>4, <1>5, <1>6, <1>7, <1>8, <1>9 DEF RecvStep, Serving, Reading

\* A thread that starts takes the handle the static names.
LEMMA StartMoves ==
    ASSUME TypeOK, NEW t \in Threads, RecvStart(t)
    PROVE  /\ thread[t].st = "starting" /\ thread'[t].st \in {"test", "ended"}
           /\ thread'[t].madeFor = thread[t].madeFor
           /\ thread'[t].serves = params
           /\ thread'[t].cancel = thread[t].cancel
           /\ \A u \in Threads \ {t} : thread'[u] = thread[u]
<1>0. thread \in [Threads -> Thread] /\ thread[t] \in Thread
  BY DEF TypeOK
<1> QED
  BY <1>0 DEF RecvStart, Thread

\* What every step of a receiver thread of an orderly client leaves as it is: no
\* cancel meets it.
LEMMA RecvKeeps ==
    ASSUME NEW c \in Apps, OwnInv(c), NEW t \in Threads, RecvStep(t)
    PROVE  /\ call' = call /\ params' = params /\ slot' = slot /\ lost' = lost
           /\ thread[t].st # "unused" /\ ~RecvCancelled(t)
           /\ fault' \in {"none", "null call"}
           /\ thread'[t].st \notin {"unused", "starting"}
           /\ thread'[t].madeFor = thread[t].madeFor
           /\ ~thread'[t].cancel
           /\ thread[t].st = "incall" => thread'[t].st = "incall" \/ call[t] = Idle
           /\ \A u \in Threads \ {t} : thread'[u] = thread[u]
<1>1. TypeOK /\ ~thread[t].cancel /\ fault \in {"none", "null call"}
  BY DEF OwnInv, SessInv, ThreadOk
<1>2. ~RecvCancelled(t)
  BY <1>1 DEF RecvCancelled
<1>3. /\ call' = call /\ params' = params /\ slot' = slot /\ lost' = lost
      /\ fault' \in {"none", "null call"}
  BY <1>1, <1>2 DEF RecvStep, RecvStart, RecvTest, RecvBegin, RecvAccess,
                    RecvTake, RecvCall, RecvReturn, RecvEnd
<1>4. CASE RecvStart(t)
  BY <1>1, <1>2, <1>3, <1>4, StartMoves
<1>5. CASE ~RecvStart(t)
  <2>1. thread[t].st = "incall" => RecvReturn(t)
    BY <1>1, <1>2, <1>5, LoopMoves DEF RecvStep
  <2> QED
    BY <1>1, <1>2, <1>3, <1>5, <2>1, LoopMoves DEF Serving, Reading
<1> QED
  BY <1>4, <1>5

\* The thread reads its handle while the static still names it.
LEMMA OwnServes ==
    ASSUME NEW c \in Apps, OwnInv(c), NEW t \in Threads, RecvStep(t)
    PROVE  thread'[t].st \in Serving => thread'[t].serves = thread[t].madeFor
<1>0. TypeOK /\ ThreadOk(t) /\ ~RecvCancelled(t)
  BY RecvKeeps DEF OwnInv, SessInv
<1>1. CASE RecvStart(t)
  BY <1>0, <1>1, StartMoves DEF ThreadOk
<1>2. CASE ~RecvStart(t)
  BY <1>0, <1>2, LoopMoves DEF ThreadOk
<1> QED
  BY <1>1, <1>2

\* The session it reads is created for as long, so that BeginDataAccess takes the
\* lock and EndDataAccess gives it back: it is the owner while it reads.
LEMMA OwnLock ==
    ASSUME NEW c \in Apps, OwnInv(c), NEW t \in Threads, RecvStep(t)
    PROVE  LET h == thread[t].madeFor IN
           /\ thread'[t].st \in Reading => session'[h].owner = t
           /\ thread'[t].st \notin Reading => session'[h].owner # t
           /\ session'[h].owner \in {session[h].owner, t, Nil}
           /\ session[h].owner \notin {t, Nil} => session'[h].owner = session[h].owner
           /\ \A g \in Handles \ {h} : session'[g].owner = session[g].owner
<1> DEFINE h == thread[t].madeFor
<1>0. /\ TypeOK /\ thread[t] \in Thread /\ ThreadOk(t) /\ h \in Handles /\ LockOk(h)
      /\ ~RecvCancelled(t) /\ thread[t].st # "unused" /\ t # Nil
  BY RecvKeeps, ConstantsAssumption DEF OwnInv, SessInv, TypeOK, Thread
<1>1. session[h].created
  <2>1. Attached(h)
    BY <1>0 DEF Attached
  <2> QED
    BY <1>0, <2>1, AttachedCreated
<1>2. thread[t].st \in Serving => thread[t].serves = h
  BY <1>0 DEF ThreadOk
<1>3. session[h].owner = t => thread[t].st \in Reading
  BY <1>0 DEF LockOk
<1>4. thread[t].st \in Reading => session[h].owner = t
  BY <1>0 DEF ThreadOk
<1>5. CASE RecvStart(t) \/ RecvTest(t)
  <2>1. /\ thread'[t].st \in {"test", "begin", "ended"}
        /\ thread[t].st \in {"starting", "test"}
    BY <1>0, <1>5, StartMoves, LoopMoves DEF RecvStart
  <2>2. session' = session
    BY <1>5 DEF RecvStart, RecvTest
  <2> QED
    BY <1>3, <2>1, <2>2 DEF Reading
<1>6. CASE RecvBegin(t)
  <2>0. ~RecvStart(t) /\ session' = session
    BY <1>6 DEF RecvBegin, RecvStart
  <2>1. thread[t].st = "begin" /\ thread'[t].st = "access"
    BY <1>0, <1>1, <1>2, <1>6, <2>0, LoopMoves DEF Serving
  <2> QED
    BY <1>3, <2>0, <2>1 DEF Reading
<1>7. CASE RecvAccess(t)
  <2>1. ~RecvStart(t) /\ thread[t].serves = h /\ session[h].owner = Nil
    BY <1>2, <1>7 DEF RecvAccess, RecvStart, Serving
  <2>2. session' = [session EXCEPT ![h].owner = t]
    BY <1>7, <2>1 DEF RecvAccess
  <2>3. thread'[t].st = "take"
    BY <1>0, <1>7, <2>1, LoopMoves
  <2> QED
    BY <1>0, <2>1, <2>2, <2>3, SetOwner DEF Reading
<1>8. CASE RecvTake(t)
  <2>1. ~RecvStart(t) /\ thread[t].st = "take" /\ thread[t].serves = h
    BY <1>2, <1>8 DEF RecvTake, RecvStart, Serving, Reading
  <2>2. PICK d : session' = [session EXCEPT ![h] = [session[h] EXCEPT !.data = d]]
    BY <1>8, <2>1 DEF RecvTake
  <2>3. \A g \in Handles : session'[g].owner = session[g].owner
    BY <1>0, <2>2, SetData
  <2>4. thread'[t].st = "call"
    BY <1>0, <1>8, <2>1, LoopMoves
  <2> QED
    BY <1>0, <1>4, <2>1, <2>3, <2>4 DEF Reading
<1>9. CASE RecvCall(t) \/ RecvReturn(t)
  <2>1. ~RecvStart(t) /\ session' = session
    BY <1>9 DEF RecvCall, RecvReturn, RecvStart
  <2>2. thread'[t].st \in Reading /\ thread[t].st \in Reading
    BY <1>0, <1>9, <2>1, LoopMoves DEF Reading
  <2> QED
    BY <1>4, <2>1, <2>2
<1>10. CASE RecvEnd(t)
  <2>1. ~RecvStart(t) /\ thread[t].st = "take" /\ thread[t].serves = h
    BY <1>2, <1>10 DEF RecvEnd, RecvStart, Serving, Reading
  <2>2. session' = [session EXCEPT ![h].owner = Nil]
    BY <1>1, <1>10, <2>1 DEF RecvEnd
  <2>3. thread'[t].st = "test"
    BY <1>0, <1>10, <2>1, LoopMoves
  <2> QED
    BY ZenonT(60), <1>0, <1>4, <2>1, <2>2, <2>3, SetOwner DEF Reading
<1> QED
  BY <1>0, <1>5, <1>6, <1>7, <1>8, <1>9, <1>10 DEF RecvStep

LEMMA OwnRecv ==
    ASSUME NEW c \in Apps, OwnInv(c), SessInv(c)', NEW t \in Threads, RecvStep(t)
    PROVE  OwnInv(c)'
<1> DEFINE h == thread[t].madeFor
<1>0. TypeOK /\ h \in Handles /\ thread[t] \in Thread /\ ThreadOk(t)
  BY DEF OwnInv, SessInv, TypeOK, Thread
<1>1. /\ call' = call /\ params' = params /\ slot' = slot /\ lost' = lost
      /\ thread[t].st # "unused" /\ fault' \in {"none", "null call"}
      /\ thread'[t].st \notin {"unused", "starting"}
      /\ thread'[t].madeFor = h /\ ~thread'[t].cancel
      /\ thread[t].st = "incall" => thread'[t].st = "incall" \/ call[t] = Idle
      /\ \A u \in Threads \ {t} : thread'[u] = thread[u]
  BY RecvKeeps
<1>2. /\ thread'[t].st \in Reading => session'[h].owner = t
      /\ thread'[t].st \notin Reading => session'[h].owner # t
      /\ session'[h].owner \in {session[h].owner, t, Nil}
      /\ session[h].owner \notin {t, Nil} => session'[h].owner = session[h].owner
      /\ \A g \in Handles \ {h} : session'[g].owner = session[g].owner
  BY OwnLock
<1>3. ThreadOk(t)'
  <2>1. slot[h].flag /\ slot[h].recvThread = t
    BY <1>0, <1>1 DEF ThreadOk
  <2>2. thread'[t].st \in Serving => thread'[t].serves = h
    BY OwnServes
  <2> QED
    BY <1>1, <1>2, <2>1, <2>2 DEF ThreadOk
<1>4. ASSUME NEW u \in Threads \ {t} PROVE ThreadOk(u)'
  <2> DEFINE g == thread[u].madeFor
  <2>1. ThreadOk(u) /\ thread'[u] = thread[u] /\ g \in Handles /\ u # Nil
    BY <1>0, <1>1, ConstantsAssumption DEF OwnInv, TypeOK, Thread
  <2>2. thread[u].st \in Reading => session'[g].owner = u
    BY <1>2, <2>1 DEF ThreadOk
  <2> QED
    BY <1>1, <2>1, <2>2 DEF ThreadOk
<1>5. ASSUME NEW u \in Threads PROVE CallbackOk(u)'
  <2>1. CallbackOk(u)
    BY DEF OwnInv
  <2>2. call[u] # Idle => thread'[u].st = "incall"
    BY <1>1, <2>1 DEF CallbackOk
  <2>3. Idle' = Idle
    BY DEF Idle, Call
  <2> QED
    BY <1>1, <2>1, <2>2, <2>3 DEF CallbackOk, At
<1>6. ASSUME NEW g \in Handles PROVE LockOk(g)'
  <2>1. LockOk(g) /\ LockOk(h)
    BY <1>0 DEF OwnInv
  <2>2. ASSUME NEW u \in Threads, session'[g].owner = u
        PROVE  thread'[u].st \in Reading /\ thread'[u].madeFor = g
    <3>0. u # Nil
      BY ConstantsAssumption
    <3>1. CASE u = t
      <4>1. g = h
        <5>1. CASE g # h
          <6>1. session[g].owner = t
            BY <1>2, <2>2, <3>1, <5>1
          <6> QED
            BY <2>1, <5>1, <6>1 DEF LockOk
        <5> QED
          BY <5>1
      <4> QED
        BY <1>1, <1>2, <2>2, <3>1, <4>1
    <3>2. CASE u # t
      <4>1. session[g].owner = u
        BY <1>2, <2>2, <3>0, <3>2
      <4> QED
        BY <1>1, <2>1, <3>2, <4>1 DEF LockOk
    <3> QED
      BY <3>1, <3>2
  <2> QED
    BY <2>2 DEF LockOk
<1>7. /\ \A g \in Handles : Attached(g)' <=> Attached(g)
      /\ \A u \in Threads : /\ thread'[u].st = "unused" <=> thread[u].st = "unused"
                            /\ thread'[u].madeFor = thread[u].madeFor
                            /\ thread[u].st # "starting" => thread'[u].st # "starting"
  BY <1>1 DEF Attached
<1>8. ASSUME NEW a \in Apps PROVE CallOk(a)'
  <2>1. call[a].h \in Handles /\ CallOk(a) /\ Idle' = Idle
    BY <1>0, HandleType DEF OwnInv, Callers, Idle, Call
  <2> QED
    BY <1>1, <1>7, <2>1 DEF CallOk, At
<1>9. OneCall'
  BY <1>1 DEF OwnInv, OneCall, Idle, Call
<1>10. \A u \in Threads : ThreadOk(u)'
  BY <1>3, <1>4
<1> QED
  BY <1>1, <1>5, <1>6, <1>8, <1>9, <1>10 DEF OwnInv

\* Nothing that a step of no one else's changes.
LEMMA OwnPoll ==
    ASSUME NEW c \in Apps, OwnInv(c), SessInv(c)',
           call' = call, params' = params, slot' = slot, lost' = lost,
           thread' = thread, fault' = fault,
           \A h \in Handles : session'[h].owner = session[h].owner
    PROVE  OwnInv(c)'
<1>0. TypeOK /\ Idle' = Idle
  BY DEF OwnInv, SessInv, Idle, Call
<1>1. (\A t \in Threads : ThreadOk(t)') /\ \A h \in Handles : LockOk(h)'
  BY <1>0, ThreadsKeep DEF OwnInv
<1>2. \A t \in Threads : CallbackOk(t)'
  BY <1>0 DEF OwnInv, CallbackOk, At
<1>3. ASSUME NEW a \in Apps PROVE CallOk(a)'
  <2>1. CallOk(a)
    BY DEF OwnInv
  <2>2. \A g \in Handles : Attached(g)' <=> Attached(g)
    BY AttachedKept
  <2>3. call[a].h \in Handles
    BY <1>0, HandleType DEF Callers
  <2> QED
    BY <1>0, <2>1, <2>2, <2>3 DEF CallOk, At
<1>4. OneCall'
  BY <1>0 DEF OwnInv, OneCall
<1> QED
  BY <1>1, <1>2, <1>3, <1>4 DEF OwnInv

LEMMA OwnNext ==
    ASSUME NEW c \in Apps, Controls = {c}, OwnInv(c), [OrderlyNext]_vars
    PROVE  OwnInv(c)'
<1>0. TypeOK /\ SessInv(c)'
  BY SessNext, OrderlyIsNext DEF OwnInv, SessInv
<1>1. CASE UNCHANGED vars
  BY <1>0, <1>1, OwnPoll DEF vars
<1>2. ASSUME NEW h \in Handles, PollStep(h)
      PROVE  OwnInv(c)'
  <2>1. PICK d : session' = [session EXCEPT ![h] = [session[h] EXCEPT !.data = d]]
    BY <1>2 DEF PollStep, Arrive, SourceGone
  <2>2. \A g \in Handles : session'[g].owner = session[g].owner
    BY <1>0, <2>1, SetData
  <2> QED
    BY <1>0, <1>2, <2>2, OwnPoll DEF PollStep, Arrive, SourceGone
<1>3. ASSUME NEW a \in Controls, OrderlyControl(a)
      PROVE  OwnInv(c)'
  BY <1>0, <1>3, OwnControl
<1>4. CASE Step
  BY <1>0, <1>2, <1>4, OwnCallStep, OwnRecv DEF Step
<1> QED
  BY <1>0, <1>1, <1>3, <1>4, OwnCall, OwnCallback DEF OrderlyNext, Halted

LEMMA OwnGives ==
    ASSUME NEW c \in Apps, OwnInv(c)
    PROVE  ReceiversOwnTheirHandle /\ StopIsEnough
<1>0. TypeOK
  BY DEF OwnInv, SessInv
<1>1. ASSUME NEW t \in Threads, thread[t].st \in Serving
      PROVE  LET h == thread[t].serves IN
             /\ h = thread[t].madeFor
             /\ slot[h].recvThread = t
             /\ slot[h].flag /\ session[h].created
             /\ thread[t].st \in Reading => session[h].owner = t
  <2> DEFINE h == thread[t].serves
  <2>1. thread[t].st # "unused" /\ h = thread[t].madeFor /\ h \in Handles
    BY <1>0, <1>1 DEF OwnInv, ThreadOk, Serving, Reading, TypeOK, Thread
  <2>2. slot[h].flag /\ session[h].created
    BY <2>1, AttachedCreated DEF Attached
  <2> QED
    BY <2>1, <2>2 DEF OwnInv, ThreadOk
<1>2. ReceiversOwnTheirHandle
  BY <1>1 DEF ReceiversOwnTheirHandle
<1>3. ASSUME NEW h \in Handles, session[h].owner # Nil
      PROVE  thread[session[h].owner].st \in Reading
  <2>1. session[h].owner \in Threads
    BY <1>0, <1>3 DEF TypeOK, Session
  <2>2. LockOk(h)
    BY DEF OwnInv
  <2> QED
    BY <2>1, <2>2 DEF LockOk
<1>4. StopIsEnough
  BY <1>3 DEF OwnInv, StopIsEnough
<1> QED
  BY <1>2, <1>4

\* For an orderly client a receiver thread serves the handle it was opened for,
\* whose session stays created, and reads it under that session's lock, whatever
\* its callbacks and those of the other handles do.
THEOREM OwnHandle ==
    ASSUME OneControl
    PROVE  OrderlySpec => []ReceiversOwnTheirHandle
<1>1. PICK c \in Apps : Controls = {c}
  BY DEF OneControl
<1>2. Init => OwnInv(c)
  BY OwnInit
<1>3. OwnInv(c) /\ [OrderlyNext]_vars => OwnInv(c)'
  BY <1>1, OwnNext
<1>4. OwnInv(c) => ReceiversOwnTheirHandle
  BY OwnGives
<1> QED
  BY <1>2, <1>3, <1>4, PTL DEF OrderlySpec

\* And unregister, close, destory end a receiver for good, for any number of
\* handles, threads, sources and packets: no session is torn down under the
\* receiver that serves it, no thread is joined twice, and no lock outlives its
\* reader.  Of sends it says nothing that the client does not see to: OrderlySpec
\* begins no destory while a call about the handle is in progress, and no send
\* about a handle that is being made or left.
THEOREM StopSafety ==
    ASSUME OneControl
    PROVE  OrderlySpec => []StopIsEnough
<1>1. PICK c \in Apps : Controls = {c}
  BY DEF OneControl
<1>2. Init => OwnInv(c)
  BY OwnInit
<1>3. OwnInv(c) /\ [OrderlyNext]_vars => OwnInv(c)'
  BY <1>1, OwnNext
<1>4. OwnInv(c) => StopIsEnough
  BY OwnGives
<1> QED
  BY <1>2, <1>3, <1>4, PTL DEF OrderlySpec
==============================================================================
