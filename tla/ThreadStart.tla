----------------------------- MODULE ThreadStart -----------------------------
(***************************************************************************)
(* JThread on pthreads (jthread.cpp): how Start and the thread it creates   *)
(* pass each other through continuemutex and continuemutex2, Kill, and a    *)
(* thread that ends by itself.  The sections under runningmutex are one     *)
(* step each.  The object has one owner, as in this repository; its thread  *)
(* function calls ThreadStarted first, as those of the repository do.       *)
(***************************************************************************)
EXTENDS FiniteSets

CONSTANTS
    Threads,        \* bound: the threads pthread_create may return
    Nobody

ASSUME ThreadAssumption == Nobody \notin Threads /\ IsFiniteSet(Threads)

VARIABLES
    owner,          \* where the owner is, and in which thread's Start
    running,
    continuemutex,  \* who holds it: the owner, a thread or nobody
    continuemutex2,
    at,             \* where each thread is
    cancelled,      \* the threads pthread_cancel was called for
    retval,         \* whose return value GetReturnValue gives
    outlived        \* history: a thread reached its end although it was cancelled

threadVars == <<owner, running, continuemutex, continuemutex2, at, cancelled, retval, outlived>>

\* no: not created; at the lock of continuemutex2, at runningmutex, at the gate
\* of continuemutex, in Thread before and after ThreadStarted, behind it, gone.
ThreadPlaces == {"no", "lock2", "set", "gate", "body", "told", "end", "gone"}

ThreadInit ==
    /\ owner = [pc |-> "idle", thread |-> Nobody]
    /\ running = FALSE
    /\ continuemutex = Nobody /\ continuemutex2 = Nobody
    /\ at = [t \in Threads |-> "no"]
    /\ cancelled = {}
    /\ retval = Nobody
    /\ outlived = FALSE

OwnerGoes(pc, t) == owner' = [pc |-> pc, thread |-> t]
-----------------------------------------------------------------------------
(* Start, Kill: the owner *)

StartRefused ==
    /\ owner.pc = "idle" /\ running
    /\ UNCHANGED threadVars

\* Not running: continuemutex is locked for the new thread to wait on.
StartBegins ==
    /\ owner.pc = "idle" /\ ~running
    /\ continuemutex = Nobody
    /\ continuemutex' = "owner"
    /\ OwnerGoes("create", Nobody)
    /\ UNCHANGED <<running, continuemutex2, at, cancelled, retval, outlived>>

StartCreates ==
    /\ owner.pc = "create"
    /\ \E t \in Threads :
         /\ at[t] = "no"
         /\ at' = [at EXCEPT ![t] = "lock2"]
         /\ OwnerGoes("poll", t)
    /\ UNCHANGED <<running, continuemutex, continuemutex2, cancelled, retval, outlived>>

\* pthread_create fails.
StartFails ==
    /\ owner.pc = "create"
    /\ continuemutex' = Nobody
    /\ OwnerGoes("idle", Nobody)
    /\ UNCHANGED <<running, continuemutex2, at, cancelled, retval, outlived>>

StartSeesRunning ==
    /\ owner.pc = "poll" /\ running
    /\ continuemutex' = Nobody
    /\ OwnerGoes("wait2", owner.thread)
    /\ UNCHANGED <<running, continuemutex2, at, cancelled, retval, outlived>>

\* A mutant: Start does not wait for continuemutex2.
StartLocks2AtOnce ==
    /\ owner.pc = "wait2"
    /\ OwnerGoes("return", owner.thread)
    /\ UNCHANGED <<running, continuemutex, continuemutex2, at, cancelled, retval, outlived>>

StartLocks2 ==
    /\ owner.pc = "wait2" /\ continuemutex2 = Nobody
    /\ continuemutex2' = "owner"
    /\ OwnerGoes("return", owner.thread)
    /\ UNCHANGED <<running, continuemutex, at, cancelled, retval, outlived>>

StartReturns ==
    /\ owner.pc = "return"
    /\ continuemutex2' = Nobody
    /\ OwnerGoes("idle", owner.thread)
    /\ UNCHANGED <<running, continuemutex, at, cancelled, retval, outlived>>

\* The thread is cancelled, and dies at a cancellation point if it comes to one.
Kill ==
    /\ owner.pc = "idle" /\ running
    /\ cancelled' = cancelled \cup {owner.thread}
    /\ running' = FALSE
    /\ UNCHANGED <<owner, continuemutex, continuemutex2, at, retval, outlived>>
-----------------------------------------------------------------------------
(* TheThread: the thread itself *)

ThreadLocks2(t) ==
    /\ at[t] = "lock2" /\ continuemutex2 = Nobody
    /\ continuemutex2' = t
    /\ at' = [at EXCEPT ![t] = "set"]
    /\ UNCHANGED <<owner, running, continuemutex, cancelled, retval, outlived>>

ThreadSetsRunning(t) ==
    /\ at[t] = "set"
    /\ running' = TRUE
    /\ at' = [at EXCEPT ![t] = "gate"]
    /\ UNCHANGED <<owner, continuemutex, continuemutex2, cancelled, retval, outlived>>

\* Lock and Unlock of continuemutex.
ThreadPassesGate(t) ==
    /\ at[t] = "gate" /\ continuemutex = Nobody
    /\ at' = [at EXCEPT ![t] = "body"]
    /\ UNCHANGED <<owner, running, continuemutex, continuemutex2, cancelled, retval, outlived>>

\* A mutant: the thread does not tell.
ThreadStartedQuietly(t) ==
    /\ at[t] = "body"
    /\ at' = [at EXCEPT ![t] = "told"]
    /\ UNCHANGED <<owner, running, continuemutex, continuemutex2, cancelled, retval, outlived>>

ThreadStarted(t) ==
    /\ at[t] = "body"
    /\ continuemutex2' = Nobody
    /\ at' = [at EXCEPT ![t] = "told"]
    /\ UNCHANGED <<owner, running, continuemutex, cancelled, retval, outlived>>

ThreadDies(t) ==
    /\ at[t] = "told" /\ t \in cancelled
    /\ at' = [at EXCEPT ![t] = "gone"]
    /\ UNCHANGED <<owner, running, continuemutex, continuemutex2, cancelled, retval, outlived>>

ThreadReturns(t) ==
    /\ at[t] = "told"
    /\ at' = [at EXCEPT ![t] = "end"]
    /\ UNCHANGED <<owner, running, continuemutex, continuemutex2, cancelled, retval, outlived>>

ThreadEnds(t) ==
    /\ at[t] = "end"
    /\ running' = FALSE
    /\ retval' = t
    /\ at' = [at EXCEPT ![t] = "gone"]
    /\ outlived' = (outlived \/ t \in cancelled)
    /\ UNCHANGED <<owner, continuemutex, continuemutex2, cancelled>>

OwnerInStart ==
    \/ StartCreates \/ StartFails
    \/ StartSeesRunning \/ StartLocks2 \/ StartReturns

ThreadNext ==
    \/ StartRefused \/ StartBegins \/ OwnerInStart \/ Kill
    \/ \E t \in Threads :
         \/ ThreadLocks2(t) \/ ThreadSetsRunning(t) \/ ThreadPassesGate(t)
         \/ ThreadStarted(t) \/ ThreadDies(t) \/ ThreadReturns(t) \/ ThreadEnds(t)

\* Start runs on, and so does a new thread up to and through ThreadStarted.
ThreadFairness ==
    /\ WF_threadVars(OwnerInStart)
    /\ \A t \in Threads :
         WF_threadVars(ThreadLocks2(t) \/ ThreadSetsRunning(t) \/ ThreadPassesGate(t) \/ ThreadStarted(t))
-----------------------------------------------------------------------------
ThreadTypeOK ==
    /\ owner \in [pc : {"idle", "create", "poll", "wait2", "return"}, thread : Threads \cup {Nobody}]
    /\ running \in BOOLEAN
    /\ {continuemutex, continuemutex2} \subseteq Threads \cup {Nobody, "owner"}
    /\ at \in [Threads -> ThreadPlaces]
    /\ cancelled \subseteq Threads
    /\ retval \in Threads \cup {Nobody}
    /\ outlived \in BOOLEAN

Alive(t) == at[t] \in {"gate", "body", "told", "end"}

(* Start returns only once its thread has called ThreadStarted; and a        *)
(* running object has a thread of which it is true, except for what a        *)
(* cancelled thread that came to its end has undone.                         *)
StartedIsStarted ==
    /\ owner.pc = "return" => at[owner.thread] \in {"told", "end", "gone"}
    /\ ~outlived => (running <=> \E t \in Threads \ cancelled : Alive(t))

(* Start always returns, also of a thread that ends at once and also when    *)
(* the one before was killed, unless that one outlives its Kill: its end     *)
(* then says that the new thread is not running.                              *)
StartComesBack == (owner.pc # "idle") ~> (owner.pc = "idle" \/ outlived)
=============================================================================
