------------------------------- MODULE UdpSend ------------------------------
(***************************************************************************)
(* udp_*_sendmsg cuts a message into datagrams: one for a short message,   *)
(* otherwise the full ones in a loop and one for the rest.  UdpHandles has *)
(* the loop as a count of datagrams; here is what each of them carries.    *)
(***************************************************************************)
EXTENDS Integers, Sequences

CONSTANTS
    Limit,          \* UDP_*_PACKET_LEN
    MaxLength,      \* bound: the longest message
    Multicast       \* the multicast API tests with <=, the unicast API with <

ASSUME SendAssumption ==
    /\ Limit \in Nat \ {0}
    /\ MaxLength \in Nat
    /\ Multicast \in BOOLEAN

VARIABLES
    length,         \* of the message
    index,          \* of the loop
    out,            \* the datagrams handed to sendto: first byte and size
    done            \* the call has returned

vars == <<length, index, out, done>>

Datagram == [from : Nat, size : Nat]

TypeOK ==
    /\ length \in 0 .. MaxLength
    /\ index \in Nat
    /\ out \in Seq(Datagram)
    /\ done \in BOOLEAN

Init ==
    /\ length \in 0 .. MaxLength
    /\ index = 0
    /\ out = <<>>
    /\ done = FALSE

Short == IF Multicast THEN length <= Limit ELSE length < Limit
Count == length \div Limit

Rest == length % Limit

\* sendto is called for size bytes of the message; its answer is not looked at.
SendTo(from, size) == out' = Append(out, [from |-> from, size |-> size])

SendShort ==
    /\ ~done /\ Short
    /\ SendTo(0, length)
    /\ done' = TRUE
    /\ UNCHANGED <<length, index>>

SendFull ==
    /\ ~done /\ ~Short
    /\ index < Count
    /\ SendTo(index * Limit, Limit)
    /\ index' = index + 1
    /\ UNCHANGED <<length, done>>

\* A mutant: a rest of no bytes is sent too.
SendRestAlways ==
    /\ ~done /\ ~Short
    /\ index = Count
    /\ SendTo(Count * Limit, Rest)
    /\ done' = TRUE
    /\ UNCHANGED <<length, index>>

SendRest ==
    /\ ~done /\ ~Short
    /\ index = Count
    /\ IF Rest # 0 THEN SendTo(Count * Limit, Rest) ELSE UNCHANGED out
    /\ done' = TRUE
    /\ UNCHANGED <<length, index>>

\* The next call, with a message of any length.
Again ==
    /\ done
    /\ length' \in 0 .. MaxLength
    /\ index' = 0
    /\ out' = <<>>
    /\ done' = FALSE

Next == SendShort \/ SendFull \/ SendRest \/ Again

Spec == Init /\ [][Next]_vars

-----------------------------------------------------------------------------
End(d) == d.from + d.size

\* How many bytes have been handed over, if the datagrams follow each other.
Handed == IF out = <<>> THEN 0 ELSE End(out[Len(out)])

\* Each datagram starts where the one before ends, the first at the start of the
\* message, and none is larger than the limit: no byte is sent twice, none is
\* passed over, and none beyond the message is read.
InOrder ==
    /\ \A i \in 1 .. Len(out) :
          /\ out[i].from = IF i = 1 THEN 0 ELSE End(out[i - 1])
          /\ out[i].size <= Limit
    /\ Handed <= length

\* When the call returns the whole message has been handed over, and only an
\* empty message made an empty datagram.
AllHanded ==
    done => /\ Handed = length
            /\ length > 0 => \A i \in 1 .. Len(out) : out[i].size > 0

\* sendmsg hands every byte of the message to sendto once and in order, at the
\* limit, its multiples and at 0 too.
EveryByteHanded == InOrder /\ AllHanded
=============================================================================
