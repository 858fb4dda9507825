-------------------------- MODULE RtpHandlesClient --------------------------
(***************************************************************************)
(* An orderly client of the RTP API: the order of calls of the sample      *)
(* programs (init, create, register, open), the stop sequence the code     *)
(* needs (unregister, then close, then destory), and one call at a time    *)
(* from the application's threads.  Its callbacks may unregister           *)
(* themselves and may pass packets on, but only to handles above their     *)
(* own: a callback has the source lock of its handle, and a send wants     *)
(* that of the other.  A destory and a callback's send about one handle    *)
(* keep out of each other's way: the destory begins when no call about the *)
(* handle is in progress, the send when the handle is not being made or    *)
(* left.  Nothing in the code sees to that.  Only which calls begin is     *)
(* restricted.                                                             *)
(***************************************************************************)
EXTENDS RtpHandles

\* A thread opened for h has not been joined yet.
Attached(h) == \E t \in Threads : thread[t].st # "unused" /\ thread[t].madeFor = h

\* A call about h is in progress.
Busy(h) == \E x \in Callers : call[x] # Idle /\ call[x].h = h

Serial(a) == \A b \in Apps \ {a} : call[b] = Idle

OrderlyControl(a) ==
    /\ Serial(a)
    /\ \/ /\ \A h \in Handles : ~slot[h].flag /\ ~Attached(h)
          /\ InitBegin(a)
       \/ /\ \A h \in Handles : ~Attached(h)
          /\ DeinitBegin(a)
       \/ \E h \in Handles : CreateBegin(a, h)
       \/ \E h \in Handles : ~Attached(h) /\ ~Busy(h) /\ DestoryBegin(a, h)

\* Opens wait until the thread of the open before has read its handle.
OrderlyCall(a, h) ==
    /\ Serial(a)
    /\ \/ \E f \in Callbacks : Register(a, h, f)
       \/ Unregister(a, h)
       \/ /\ ~Attached(h)
          /\ \A t \in Threads : thread[t].st # "starting"
          /\ OpenBegin(a, h)
       \/ /\ Attached(h)
          /\ slot[h].func = Nil
          /\ CloseBegin(a, h)
       \/ SendBegin(a, h)

OrderlyCallback(t) ==
    \/ Unregister(t, thread[t].serves)
    \/ \E h \in Handles :
          /\ h > thread[t].serves
          /\ ~Working(h)
          /\ SendBegin(t, h)

OrderlyNext ==
    \/ /\ fault = "none"
       /\ \/ \E a \in Controls : OrderlyControl(a)
          \/ \E a \in Apps, h \in Handles : OrderlyCall(a, h)
          \/ \E t \in Threads : OrderlyCallback(t)
          \/ Step
    \/ Halted

OrderlySpec == Init /\ [][OrderlyNext]_vars

-----------------------------------------------------------------------------
\* A receiver thread in its loop serves the handle it was opened for and is the
\* thread the table names for it; the handle is in use with its session created
\* for as long; and while it reads it has that session's lock.
ReceiversOwnTheirHandle ==
    \A t \in Threads :
        thread[t].st \in Serving =>
            LET h == thread[t].serves IN
            /\ h = thread[t].madeFor
            /\ slot[h].recvThread = t
            /\ slot[h].flag /\ session[h].created
            /\ thread[t].st \in Reading => session[h].owner = t

\* Unregister, close, destory end a receiver for good, wherever in its loop or its
\* callback they find it: no session is torn down under the receiver that serves
\* it, no thread is joined twice, and no lock outlives its reader.  It does not
\* show that a send is safe from a destory: that is the client's doing.
StopIsEnough ==
    /\ fault \notin {"torn session", "bad join"}
    /\ \A h \in Handles :
          LET t == session[h].owner IN t # Nil => thread[t].st \in Reading

\* rtp_unicast_api.cpp:277: the receiver loop tests the function pointer for
\* NULL so as not to call it then.
NullIsNotCalled == fault # "null call"

-----------------------------------------------------------------------------
(***************************************************************************)
(* Every thread that can run runs, a callback returns after finitely many  *)
(* calls, and a lock that is free again and again is got: receiver loops   *)
(* take and free it without a pause.  No call is assumed to begin and no   *)
(* packet to arrive.                                                       *)
(***************************************************************************)
Fairness ==
    /\ \A x \in Callers : SF_vars(fault = "none" /\ CallStep(x))
    /\ \A t \in Threads : SF_vars(fault = "none" /\ RecvStep(t))

FairOrderlySpec == OrderlySpec /\ Fairness

\* The packets a source has waiting are all handed to the callback (or dropped
\* with their source) while a receiver serves the handle: another source, read
\* before it in every round, and packets that keep coming to either, do not keep
\* them waiting for ever.
PacketsAreDelivered ==
    \A h \in Handles, s \in Sources :
        /\ session[h].data[s] > 0
        /\ \E t \in Threads : thread[t].st \in Serving /\ thread[t].serves = h
        ~> \/ session[h].data[s] = 0
           \/ slot[h].func = Nil
           \/ fault # "none"

\* A send returns, from an application's thread or from a callback, although the
\* receiver of its handle has the lock it wants for as long as a callback takes.
SendsReturn == \A x \in Callers : At(x, "count") ~> call[x] = Idle \/ fault # "none"

\* rtp_*_close_recvmsg after an unregister returns: its join does not wait for
\* ever, whatever the callback is doing.
CloseReturns == \A a \in Apps : At(a, "join") ~> call[a] = Idle \/ fault # "none"
=============================================================================
