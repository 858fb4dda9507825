------------------------------ MODULE UdpClient -----------------------------
(***************************************************************************)
(* An orderly client of the UDP API: the order of calls of the sample      *)
(* programs (init, create, register, open), the stop sequence the code     *)
(* needs (unregister, then close, then destory), and one call at a time.   *)
(* Only which calls begin is restricted; what they do is UdpHandles.       *)
(***************************************************************************)
EXTENDS UdpHandles

\* A thread opened for h has not been joined yet.
Attached(h) ==
    \E t \in Threads : thread[t].st # "unused" /\ thread[t].madeFor = h

Serial(a) == \A b \in Apps \ {a} : app[b] = Idle

OrderlyControl(a) ==
    /\ Serial(a)
    /\ \/ /\ \A h \in Handles : ~slot[h].flag /\ ~Attached(h)
          /\ InitBegin(a)
       \/ /\ \A h \in Handles : ~Attached(h)
          /\ DeinitBegin(a)
       \/ \E k \in Kinds, h \in Handles : CreateBegin(a, k, h)
       \/ \E h \in Handles : ~Attached(h) /\ DestoryBegin(a, h)

\* Opens wait until the thread of the open before has read its handle.
OrderlyCall(a, h) ==
    /\ Serial(a)
    /\ \/ \E f \in Callbacks : Register(a, h, f)
       \/ Unregister(a, h)
       \/ /\ slot[h].kind = "RECEIVE"
          /\ ~Attached(h)
          /\ \A t \in Threads : thread[t].st # "starting"
          /\ OpenBegin(a, h)
       \/ /\ Attached(h)
          /\ slot[h].func = Nil
          /\ CloseBegin(a, h)
       \/ /\ slot[h].kind = "SEND"
          /\ \E n \in 1 .. MaxChunks : SendBegin(a, h, n)

OrderlyNext ==
    \/ /\ ~crashed
       /\ \/ \E a \in Controls : OrderlyControl(a)
          \/ \E a \in Apps, h \in Handles : OrderlyCall(a, h)
          \/ \E a \in Apps : AppStep(a)
          \/ \E t \in Threads : RecvStep(t)
          \/ \E t \in Threads : RecvData(t)
    \/ Halted

OrderlySpec == Init /\ [][OrderlyNext]_vars

FairOrderlySpec == OrderlySpec /\ Fairness

-----------------------------------------------------------------------------
\* A receiver thread in its loop serves the handle it was opened for, is the
\* thread the table names for it, and waits on that handle's socket; the handle
\* is in use for as long.  No stop, destory, failed create or reuse of a slot,
\* a descriptor or a thread id sends it to another handle's socket or callback.
ReceiversOwnTheirHandle ==
    \A t \in Threads :
        thread[t].st \in Serving =>
            LET h == thread[t].serves IN
            /\ h = thread[t].madeFor
            /\ slot[h].recvThread = t
            /\ Owns(h)
            /\ thread[t].st \in {"enter", "blocked"} => thread[t].fd = slot[h].fd

\* Every datagram of a send leaves through the open socket of its handle for the
\* address create was given: no receiver has overwritten it.
SendsGoToTheirDestination ==
    [][\A a \in Apps :
          SendChunk(a) => /\ Open(slot[app[a].h].fd)
                          /\ slot[app[a].h].addr = "given"]_vars
=============================================================================
