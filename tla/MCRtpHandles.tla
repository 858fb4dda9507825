---------------------------- MODULE MCRtpHandles ----------------------------
(***************************************************************************)
(* The orderly client, with few handles and many packets or the other way  *)
(* round: view says which, and both at once would only multiply states.    *)
(***************************************************************************)
EXTENDS RtpHandlesClient, TLC

VARIABLE view

mcVars == <<vars, view>>

\* View "threads": a session hears one packet of one source.  View "packets":
\* the first handle is the only one that is ever created, with packets of all
\* sources.  What is kept out begins with an Arrive or a CreateBegin, of which no
\* fairness is asked.
Bounded ==
    IF view = "threads"
    THEN \A h \in Handles, s \in Sources : session[h].data[s] <= (IF s = 1 THEN 1 ELSE 0)
    ELSE \A x \in Callers : At(x, "create") => call[x].h = 0

MCInit == Init /\ view \in {"threads", "packets"}

MCNext == OrderlyNext /\ UNCHANGED view /\ Bounded'

MCSpec == MCInit /\ [][MCNext]_mcVars

MCFairSpec == MCSpec /\ Fairness

\* Thread ids and callbacks are interchangeable; handles are not, a create takes
\* the lowest, nor are sources, which are read in their order.
Symmetry == Permutations(Threads) \cup Permutations(Callbacks)
=============================================================================
