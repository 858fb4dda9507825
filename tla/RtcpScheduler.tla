---------------------------- MODULE RtcpScheduler ----------------------------
(***************************************************************************)
(* When RTCP packets go out (RTCPScheduler): the interval grows with the   *)
(* members, is checked again when it is over (reconsideration), shrinks    *)
(* when members leave (reverse reconsideration), and a BYE has one of its  *)
(* own.  Times are ticks relative to now: next is how long until           *)
(* nextrtcptime (0 once it is reached), since how long since prevrtcptime. *)
(* Doubles are integers here, rounded down, and fractions are percentages.  *)
(***************************************************************************)
EXTENDS Integers, FiniteSetsExt

CONSTANTS
    FirstAverage,       \* 1000, the average packet size of Reset
    Overhead,           \* headeroverhead
    Sizes,              \* the sizes of RTCP packets
    Bandwidth,          \* RTCP bandwidth, bytes per tick
    SenderPercent,      \* senderfraction
    MinInterval,        \* mininterval
    HalfAtStartup,      \* usehalfatstartup
    ImmediateBYE,       \* immediatebye
    Multipliers,        \* mul / 1.21828 for the random numbers drawn, in percent
    FewMembers,         \* 50
    MaxActive,          \* bound: active members
    MaxIncoming,        \* bound: incoming packets analysed
    MaxSince            \* bound: the poll thread looks no later than this

ASSUME SchedulerAssumption ==
    /\ {FirstAverage, Bandwidth, MinInterval, FewMembers, MaxActive, MaxSince} \subseteq Nat \ {0}
    /\ Overhead \in Nat /\ MaxIncoming \in Nat
    /\ Sizes \subseteq Nat /\ Sizes # {}
    /\ SenderPercent \in 1 .. 99
    /\ HalfAtStartup \in BOOLEAN /\ ImmediateBYE \in BOOLEAN
    /\ Multipliers \subseteq Nat /\ IsFiniteSet(Multipliers) /\ Multipliers # {}

VARIABLES
    sched,      \* the RTCPScheduler
    members,    \* of RTPSources: active members and senders, and whether we send
    incoming,   \* bound: packets analysed
    due,        \* IsTime just returned TRUE
    real        \* history: since a packet last went out, up to MaxSince

schedVars == <<sched, members, incoming, due, real>>

NewScheduler ==
    [firstcall |-> TRUE, hassentrtcp |-> FALSE, avg |-> FirstAverage,
     byescheduled |-> FALSE, sendbyenow |-> FALSE, byemembers |-> 0, byeavg |-> 0,
     next |-> 0, since |-> 0, pmembers |-> 0]

\* A session starts with itself as only member.
SchedulerInit ==
    /\ sched = NewScheduler
    /\ members = [active |-> 1, senders |-> 0, sender |-> FALSE]
    /\ incoming = 0 /\ due = FALSE /\ real = 0

Larger(a, b) == IF a > b THEN a ELSE b
Smoothed(average, size) == (size + 15 * average) \div 16
-----------------------------------------------------------------------------
(* The intervals *)

CalculateDeterministicInterval(s, sender) ==
    LET total == IF members.active = 0 THEN 1 ELSE members.active
        few == 100 * members.senders <= SenderPercent * total
        share == IF ~few THEN 100 ELSE IF sender THEN SenderPercent ELSE 100 - SenderPercent
        n == IF ~few THEN total ELSE IF sender THEN members.senders ELSE total - members.senders
        min == IF ~s.hassentrtcp /\ HalfAtStartup THEN MinInterval \div 2 ELSE MinInterval
    IN  Larger(min, (100 * n * s.avg) \div (share * Bandwidth))

CalculateTransmissionInterval(s) ==
    {(CalculateDeterministicInterval(s, members.sender) * m) \div 100 : m \in Multipliers}

CalculateBYETransmissionInterval(s) ==
    LET min == IF HalfAtStartup THEN MinInterval \div 2 ELSE MinInterval
        Td == Larger(min, (100 * s.byemembers * s.byeavg) \div ((100 - SenderPercent) * Bandwidth))
    IN  IF ~s.byescheduled \/ s.sendbyenow THEN {0} ELSE {(Td * m) \div 100 : m \in Multipliers}
-----------------------------------------------------------------------------
(* The calls *)

\* The first call of IsTime or of GetTransmissionDelay starts the timer.
FirstCall(s) ==
    {[s EXCEPT !.firstcall = FALSE, !.since = 0, !.pmembers = members.active, !.next = t] :
        t \in CalculateTransmissionInterval(s)}

Sent(s) ==
    {[s EXCEPT !.byescheduled = FALSE, !.since = 0, !.pmembers = members.active, !.next = t] :
        t \in CalculateTransmissionInterval(s)}

\* With the interval drawn again: over, or a new timer.
Checked(s, check) ==
    IF check <= s.since THEN Sent(s)
    ELSE {[s EXCEPT !.next = check - s.since, !.pmembers = members.active]}

AnalyseOutgoing(s, isbye, size) ==
    [s EXCEPT !.avg = IF isbye THEN @ ELSE Smoothed(@, Overhead + size), !.hassentrtcp = TRUE]

\* The poll asks IsTime, and sends and analyses the packet when it is.
IsTimeStarts ==
    /\ sched.firstcall
    /\ sched' \in FirstCall(sched)
    /\ due' = FALSE /\ UNCHANGED <<members, incoming, real>>

\* A mutant: the time is checked anew, but counted from now on.
IsTimeWaitsAnew ==
    /\ ~sched.firstcall /\ sched.next = 0
    /\ \E check \in IF sched.byescheduled THEN CalculateBYETransmissionInterval(sched)
                     ELSE CalculateTransmissionInterval(sched) :
         check > sched.since /\ \E s \in Checked(sched, check) : sched' = [s EXCEPT !.since = 0]
    /\ due' = FALSE /\ UNCHANGED <<members, incoming, real>>

IsTimeWaits ==
    /\ ~sched.firstcall /\ sched.next = 0
    /\ \E check \in IF sched.byescheduled THEN CalculateBYETransmissionInterval(sched)
                     ELSE CalculateTransmissionInterval(sched) :
         check > sched.since /\ sched' \in Checked(sched, check)
    /\ due' = FALSE /\ UNCHANGED <<members, incoming, real>>

IsTimeSends(size) ==
    /\ ~sched.firstcall /\ sched.next = 0
    /\ \E check \in IF sched.byescheduled THEN CalculateBYETransmissionInterval(sched)
                     ELSE CalculateTransmissionInterval(sched) :
         /\ check <= sched.since
         /\ \E s \in Checked(sched, check) :
              sched' = AnalyseOutgoing(s, sched.byescheduled, size)
    /\ due' = TRUE /\ real' = 0 /\ UNCHANGED <<members, incoming>>

IsTime == IsTimeStarts \/ IsTimeWaits \/ \E size \in Sizes : IsTimeSends(size)

GetTransmissionDelay ==
    /\ sched.firstcall
    /\ sched' \in FirstCall(sched)
    /\ UNCHANGED <<members, incoming, due, real>>

AnalyseIncoming(isbye, size) ==
    /\ incoming < MaxIncoming
    /\ incoming' = incoming + 1
    /\ sched' = IF ~isbye THEN [sched EXCEPT !.avg = Smoothed(@, Overhead + size)]
                ELSE IF sched.byescheduled
                     THEN [sched EXCEPT !.byeavg = Smoothed(@, Overhead + size), !.byemembers = @ + 1]
                     ELSE sched
    /\ UNCHANGED <<members, due, real>>

ScheduleBYEPacket(size) ==
    /\ ~sched.byescheduled
    /\ \E s \in {[sched EXCEPT
                    !.pmembers = IF sched.firstcall THEN members.active ELSE @,
                    !.firstcall = FALSE, !.byescheduled = TRUE,
                    !.byeavg = size + Overhead, !.byemembers = 1,
                    !.sendbyenow = ImmediateBYE /\ members.active < FewMembers,
                    !.since = 0]} :
         sched' \in {[s EXCEPT !.next = t] : t \in CalculateBYETransmissionInterval(s)}
    /\ due' = FALSE /\ UNCHANGED <<members, incoming, real>>

\* A mutant: the share is the wrong way round.
PerformReconsiderationInverted(s, active) ==
    LET after == IF active = 0 THEN 1 ELSE active
    IN  IF s.firstcall THEN s
        ELSE [s EXCEPT !.next = (s.pmembers * @) \div after, !.since = (s.pmembers * @) \div after,
                       !.pmembers = active]

\* Both times move towards now, by the share of the members that are left.
PerformReverseReconsideration(s, active) ==
    LET before == IF s.pmembers = 0 THEN 1 ELSE s.pmembers
    IN  IF s.firstcall THEN s
        ELSE [s EXCEPT !.next = (active * @) \div before, !.since = (active * @) \div before,
                       !.pmembers = active]

ActiveMemberDecrease(active) ==
    sched' = IF active < sched.pmembers THEN PerformReverseReconsideration(sched, active) ELSE sched

Reset ==
    sched' = [sched EXCEPT !.hassentrtcp = FALSE, !.firstcall = TRUE, !.avg = FirstAverage,
                           !.byescheduled = FALSE, !.sendbyenow = FALSE]

\* BYEDestroy and Destroy end with it; the next session starts as the first did.
SessionEnds ==
    /\ Reset
    /\ members' = [active |-> 1, senders |-> 0, sender |-> FALSE]
    /\ incoming' = 0 /\ due' = FALSE /\ real' = 0
-----------------------------------------------------------------------------
(* Its surroundings: RTPSources, and time *)

Joins ==
    /\ members.active < MaxActive
    /\ members' = [members EXCEPT !.active = @ + 1]
    /\ UNCHANGED <<sched, incoming, due, real>>

\* A member that leaves, in OnBYEPacket or OnTimeout, was counted out before;
\* we are a member ourselves until our own SSRC is deleted.
Leaves ==
    /\ members.active > 0
    /\ LET senders == IF members.senders = members.active THEN members.senders - 1 ELSE members.senders
       IN  members' = [active |-> members.active - 1, senders |-> senders,
                       sender |-> members.sender /\ senders > 0]
    /\ ActiveMemberDecrease(members.active - 1)
    /\ UNCHANGED <<incoming, due, real>>

\* A member sends RTP, or has not for two intervals.
SendersChange ==
    /\ \E own \in BOOLEAN, n \in 0 .. members.active :
         /\ own => n > 0
         /\ members' = [members EXCEPT !.senders = n, !.sender = own]
    /\ UNCHANGED <<sched, incoming, due, real>>

Tick ==
    /\ ~sched.firstcall /\ sched.since < MaxSince
    /\ sched' = [sched EXCEPT !.next = Larger(@ - 1, 0), !.since = @ + 1]
    /\ real' = IF real < MaxSince THEN real + 1 ELSE real
    /\ due' = FALSE /\ UNCHANGED <<members, incoming>>

SchedulerNext ==
    \/ IsTime \/ GetTransmissionDelay \/ Tick
    \/ \E size \in Sizes : \E isbye \in BOOLEAN : AnalyseIncoming(isbye, size)
    \/ \E size \in Sizes : ScheduleBYEPacket(size)
    \/ SessionEnds \/ Joins \/ Leaves \/ SendersChange
-----------------------------------------------------------------------------
SchedulerTypeOK ==
    /\ sched \in
         [firstcall : BOOLEAN, hassentrtcp : BOOLEAN, avg : Nat, byescheduled : BOOLEAN,
          sendbyenow : BOOLEAN, byemembers : 0 .. MaxIncoming + 1, byeavg : Nat,
          next : Nat, since : 0 .. MaxSince, pmembers : 0 .. MaxActive]
    /\ members \in [active : 0 .. MaxActive, senders : 0 .. MaxActive, sender : BOOLEAN]
    /\ real \in 0 .. MaxSince

(* Members that leave pull the timer in and never let a packet go out too    *)
(* early: the time since prevrtcptime, which each interval is checked with,  *)
(* is never more than the time since a packet really went out.               *)
NeverTooEarly == ~sched.firstcall => sched.since <= real

(* As long as the session lasts, a packet goes out again and again, whoever  *)
(* joins and sends, unless members keep leaving: each that leaves shortens    *)
(* the time that is counted as waited.                                        *)
TimerFires ==
  []<>(due \/ sched.firstcall) \/ []<><<Leaves>>_schedVars
=============================================================================
