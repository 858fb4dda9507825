# Verification of the media distribution library

This directory holds TLA+ models of the delivery library in `src/`, the TLC
configurations that check them and the proofs TLAPS checks.  The library is a
C API over C++ with four variants of one idea: a *handle table*.  An
application creates a SEND or a RECEIVE handle, registers a callback, opens a
receiver thread for it, sends on it and destroys it.

## The system

| Part | Source | State | Operations | Hard behaviour |
| --- | --- | --- | --- | --- |
| UDP unicast API | `udp/unicast/src` | per handle: in-use flag, descriptor, peer address, thread id, callback; one static `int` shared by opens | `init deinit create destory sendmsg register unregister open close`, receiver loop | no lock at all: application threads and receiver threads share the table; descriptors and thread ids are reused |
| UDP multicast API | `udp/multicast/src` | the same and a group membership | the same and `addroute` | the same; two more ways for `create` to fail half way |
| RTP unicast API | `rtp/unicast/src` | per handle: flag, an `RTPSession`, its parameters, callback, thread id | the same operations on a session | the same, and the session's own locks and threads |
| RTP multicast API | `rtp/multicast/src` | the same | the same | the same; cleanup of a half made session |
| RTP session | `common/jrtplib-3.9.1/src/rtpsession.*` | `created`, `usingpollthread`, transmitter, packet builders, source table, scheduler, collision list, BYE queue, three mutexes | `Create Destroy BYEDestroy SendPacket BeginDataAccess EndDataAccess ...` | a poll thread and application threads; flags read outside the locks they guard |
| Poll thread | `rtppollthread.*`, `jthread-1.3.1` | running, stop, transmitter, sources, scheduler | `Start Stop Thread Kill` | start hand-shake, stop with a 5 s limit, `pthread_cancel` of a thread that may hold locks |
| Source table | `rtpsources.*`, `rtpsourcedata.*`, `rtpinternalsourcedata.*` | one entry per SSRC, counters of senders, active and total, current source | process RTP, SR, RR, SDES, BYE packets, timeouts, iteration | counters kept incrementally over many events; probation and sequence numbers |
| RTCP scheduler | `rtcpscheduler.*` | next and previous report time, members, BYE state | schedule, reconsider, BYE reconsideration | numeric edges, reverse reconsideration |
| Packet builders | `rtppacketbuilder.*`, `rtcppacketbuilder.*`, `rtcpcompoundpacketbuilder.*`, `rtcpsdesinfo.*` | sequence number, timestamp, counters, the items due, the bytes counted so far | build a packet, a report, a BYE | 16 and 32 bit wrap-around; bytes counted before they are laid out; sources that do not fit |
| Transmitters | `rtpudpv4transmitter.*`, `rtpudpv6transmitter.*`, `rtpexternaltransmitter.*`, `extratransmitters` | descriptors, destinations, groups, accept and ignore lists, received packets, two mutexes | `Create Destroy AddDestination JoinMulticastGroup SetReceiveMode Poll WaitForIncomingData AbortWait SendRTPData` ... | wait and abort through a pipe; a destroy while somebody waits |
| Packet parsers | `rtppacket.*`, `rtcpcompoundpacket.*`, `rtcp*packet.*` | the bytes of one packet | parse, iterate | lengths a sender chose |
| Containers | `rtphashtable.h`, `rtpkeyhashtable.h`, `rtpcollisionlist.*` | buckets and a list with a cursor | add, delete, iterate | deletion during iteration |

How they interact: an API call reads and writes the static arrays of its file and
calls the kernel (UDP) or one `RTPSession` (RTP).  `RTPSession::Create` makes a
transmitter and starts the poll thread; that thread waits in the transmitter,
stores the packets it received, puts them into the source table, asks the
scheduler whether RTCP is due and sends what the RTCP builder made.  The receiver
thread of the API reads packets from the source table under its lock and calls
the application's callback, which may call the API.  Everything is shared memory;
there is nothing to restart, so a crash of the process is the end of a behaviour.
The network loses, repeats and reorders packets (`SourceStats`).

What makes each part correct:

| Part | Correctness |
| --- | --- |
| Handle tables | two handles never share a socket or session, nothing leaks, a receiver serves the handle it was opened for and stops when told, a datagram goes where `create` said |
| Cutting of a message | every byte goes out once, in order |
| RTP session | the source table has one user at a time, nothing is used after `Destroy`, a lock is never left held, each leave returns, BYEs go out in order and for SSRCs that were used |
| Poll thread | it stops within a bounded time, and gives back its locks on every error path |
| Start of a thread | `Start` returns when its thread has told, and not before |
| Packet size | its four copies agree, and what was built within it is not refused |
| Source table | its counters equal what a count of its entries gives (that of the active members only after the next walk, see `sources_active`); addresses are taken over from one host only; sequence numbers are extended, and packets queued, as they were sent |
| Scheduler | no report goes out before its interval is over, and reports go out again and again |
| Builders and parsers | a packet is as long as was counted and reads back as it was asked for; nobody waits for his report for ever; reading stays inside the packet |
| Transmitters | the lists select what the calls on them add up to, kernel and tables agree, `Destroy` waits until nobody looks at the transmitter, and returns |
| Containers | an iteration that deletes visits every element once |

The hazards, each with its line and the properties that watch it, are listed
under `hazards` in `PROJECT.json`.

## Modules

| Module | Content |
| --- | --- |
| `UdpHandles` | the two UDP APIs, any client |
| `UdpClient` | the orderly client of them and what it is promised |
| `UdpSend` | the cutting of a message |
| `RtpHandles` | the two RTP APIs, any client, sessions seen from outside |
| `RtpHandlesClient` | the orderly client of them and what it is promised |
| `RtpSession` | one session from inside: `Create` to `Destroy`, senders, readers, poll thread |
| `RtpClient` | what a session promises to any client and to an orderly one |
| `SessionLimits` | the packet size of a session while it is being set |
| `UdpTransmitter` | the UDP/IPv4 transmitter |
| `UdpTransmitter6`, `ExternalTransmitter`, `FakeTransmitter` | the other three, each `EXTENDS` it |
| `SourceTable` | the entries of the other participants, the counters, the cursor, collisions, timeouts |
| `SourceStats` | one source: probation, sequence numbers, loss, queue |
| `HashTable`, `KeyHashTable` | the two hash tables with their chains and cursor |
| `OrderedTable` | what both promise: keys in order of arrival and a cursor |
| `RtcpScheduler` | when RTCP packets go out |
| `ThreadStart` | how a `JThread` and its owner pass each other |
| `RtpPacket` | RTP packets, built and parsed |
| `CompoundPacket` | RTCP compound packets, built and parsed |
| `RtcpReports` | which sources and items go into them |
| `SdesInfo` | the items of one participant and an iteration over them |
| `MCTransmitters`, `MCPackets`, `MCSources` | compose the modules above for one run each |
| `MCUdpHandles`, `MCRtpSession` | symmetry sets for the runs |
| `MCRtpHandles` | the bounds of its runs, in two views |
| `UdpHandles_proof`, `RtpHandles_proof` | theorems about the handle tables, for any and for the orderly client |
| `RtpSession_proof` | about a session from inside |
| `Transmitters_proof` | about the four transmitters |
| `CompoundPacket_proof` | about `CompoundPacket` |
| `MCPackets_proof` | about `UdpSend`, `RtpPacket`, `SessionLimits`, `SdesInfo` and `RtcpReports`, and the theorems of the `packets` run |
| `SourceTable_proof` | about the table of sources |
| `MCSources_proof` | about the hash table, `SourceStats`, `RtcpScheduler`, `ThreadStart`, and the theorems of the `sources` run |

A `...Client` module restricts only which calls *begin*; the steps of a call, of a
receiver and of a poll thread are those of the module it extends, so
`OrderlySpec` has a subset of the behaviours of `Spec`.

## The handle table of the UDP API

`UdpHandles.tla` is both UDP APIs; the constant `Multicast` chooses between
them.  `slot` holds the static arrays, `params` the static `int` of
`open_recvmsg`, `sock` the kernel's descriptors, `thread` the receiver threads
and `app` the application threads with the call each is in.  A call is one
action when nothing can come between its reads and writes (`Register`), and
otherwise one action for every access of the table another thread can come
between, with `app[a].pc` naming the place.  `lost` remembers descriptors a
second `init` wiped; `crashed` becomes TRUE when the process calls NULL or joins
a thread id that never was one.

The map from code to actions:

| Code | Actions |
| --- | --- |
| `udp_*_init`, `udp_*_deinit` | `InitBegin`, `InitSlot` for each index; `DeinitBegin`, `DeinitSlot`, then the steps of `destory` |
| `udp_*_create` | `CreateBegin` (the search), `CreateSocket` or `CreateNoSocket`, `CreateBind`, `CreateJoinGroup`, `CreateUndo` on a failure, `CreatePublish` |
| `udp_*_destory` | `DestoryBegin`, `DestoryClose`, `DestoryClearFd`, `DestoryClearFlag` |
| `udp_*_open_recvmsg` | `OpenBegin` (writes the static), `OpenSpawn` or `OpenFails` |
| `udp_*_close_recvmsg` | `CloseBegin`, `CloseJoined`, `CloseCancel`, `CloseUnregister`; `CloseNoJoin` when the join refuses, `CloseCrash` when the id is no thread |
| `udp_*_sendmsg` | `SendBegin`, one `SendChunk` per datagram |
| `udp_*_recvmsg` | `RecvStart`, `RecvTest`, `RecvLoad`, `RecvEnter`, `RecvData` or `RecvTimeout`, `RecvCall`, `RecvReturn`, `RecvCancelled` |

`UdpSend.tla` is the loop of `sendmsg` once more with the bytes in it, which
`UdpHandles` abstracts to a number of datagrams.

## The handle table of the RTP API

`RtpHandles.tla` is both RTP APIs.  A session is what a caller sees of it:
`created`, the receiver that has its source lock (`owner`) and the packets each
source has waiting (`data`).  `call` has an entry for the application threads
and one for each receiver thread, since a callback may call the API; a receiver
thread begins calls only in state `incall`.

The steps of `init`, `create`, `destory`, `deinit`, `open` and `close` are named as
in `UdpHandles`.  New are the session and the lock:

| Code | Actions |
| --- | --- |
| `RTPSession::Create` in `create` | `CreateSession`, `CreateFails`, then in the multicast API `CreateJoinGroup` or `CreateUndo` |
| `Destroy` and `BYEDestroy` in `destory` | `Leave`: the second call finds no session and does nothing (see Findings) |
| `SendPacket` in `sendmsg` | `SendOut`, then `SendCount` under the source lock |
| the receiver loop | `RecvTest`, `RecvBegin` (tests `created`), `RecvAccess` (gets the lock), `RecvTake` for each packet, `RecvCall`, `RecvReturn`, `RecvEnd` (tests `created` again and unlocks) |
| poll thread | `Arrive`, `SourceGone`, each one step under the lock |

`fault` names what the process died of: `"null call"`, `"bad join"`, and `"torn
session"` for a `Destroy` under a thread that is inside the session.  What a torn
session does is the subject of `RtpSession`; here the behaviour ends.

A callback's send on another handle and a `destory` of that handle meet in the code
without a lock: the send has tested the flag of the handle and goes on in its session.
The orderly client keeps them apart (`~Busy` and `~Working` in `RtpHandlesClient`), so
`StopIsEnough` is about receivers only: it does not show that unregister, close and
`destory` are safe from somebody else's sends.

## The RTP session

`RtpSession.tla` looks inside one session.  `created` is read and written without
a lock, as in the code.  `owner` has `sourcesmutex` and `schedmutex`, which are
taken in both orders and held over other steps; a section under `buildermutex`,
`packsentmutex` or `stopmutex` takes no other lock and is one step.  An SSRC is
a number that counts how many the session had before, `used` remembers the SSRCs
under which something really went out, and `sentpackets` is what the code
believes of it.  Between `ProcessRenew` and `ProcessForget` a sender can come in: what
it sends under the new SSRC and marks is then forgotten with the rest.

| Code | Actions |
| --- | --- |
| `Create`, `InternalCreate` | `CreateBegin`, `CreateFails`, `CreateStart` (the thread runs), `CreateDone` (`created` is set) |
| `Destroy`, `BYEDestroy`, `rtp_*_destory` | `LeaveBegin`, `LeaveStopped` or `LeaveKill`, `LeaveBye`, `LeaveFlush`, `LeaveDelete`, `LeaveClear`, `DestoryBye` |
| `SendPacket` | `SendBegin`, `SendBuild` or `SendFails`, `SendCount`, `SendMark` |
| `BeginDataAccess`, `EndDataAccess` | `AccessBegin`, `AccessLock`, `AccessEnd` |
| `RTPPollThread::Thread` | `PollTest`, `PollLockSched`, `PollDelay`, `PollWait`, `PollFails`, `PollCancelled` |
| `ProcessPolledData` | `PollLockProcess`, `ProcessPacket`, `ProcessCollision`, `ProcessRenew` (the new SSRC), `ProcessForget` (`sentpackets`, the own entry), `ProcessNotDue`, `ProcessReport`, `ProcessBye` |

A mutex does not check who unlocks it, a cancelled thread dies at its next
cancellation point with its locks in hand, and a thread that uses a deleted
object takes the step `Crash`.

## Transmitters

A method of a transmitter takes `mainmutex`, tests `created`, works and gives the
mutex back, so it is one action that waits for the mutex; an early return changes
nothing and is no action.  Two methods are cut: `WaitForIncomingData` gives up
`mainmutex` before its `select` and takes it back after, holding `waitmutex` all the
time, and `Destroy` gives it up to wait for `waitmutex`.

| Code | Actions |
| --- | --- |
| `Create`, `CreateSockets` | `CreateFails` at any of its descriptors, `CreateDone` with the local addresses of `GetLocalIPList` |
| `WaitForIncomingData` | `WaitBegin`, `WaitLock`, then `SelectReady`, `SelectTimeout` or `SelectFails`, `WaitEnds` or `WaitFailed`, `WaitUnlock`; `WaitKilled` when the poll thread is cancelled in it |
| `AbortWait`, `Destroy` | `AbortWait`, `Destroy`, `DestroyEnds`; `AbortWaitInternal` is the byte each writes, and place `"writing"` a thread whose byte does not fit |
| `Poll`, `PollSocket`, `ShouldAcceptData` | `Poll` |
| `JoinMulticastGroup` | `JoinMulticastGroup`, `JoinFails` |
| the accept and ignore lists | `AddEntry`, `DeleteEntry`, `ClearIgnoreList` ... on entries that are some ports or every port with exceptions |

The file of the IPv6 transmitter is a copy of the IPv4 one; `UdpTransmitter6`
names for each of its methods the action it is.  The fake transmitter is not
thread safe and has no sockets; the external one gets its packets by `Inject...`
from the application, and each call writes one byte into the abort pipe.  A write to
a full pipe blocks, whoever makes it (`AbortWait`, `Destroy`, `Inject...`), and does
so with `mainmutex` in hand, which the thread that reads the pipe needs first: from
then on no call on that transmitter comes back (see Findings).

`kind` and `view` of `MCTransmitters` say which transmitter runs and which of its
methods are called besides `Init`, `Create` and `Destroy`.  Methods of different
views share nothing but `mainmutex` and `created`.

For the lists two history variables, which no action reads for the code, say what the
calls add up to: `asked` is the set of addresses one gets when each call does what
the headers say of it, and `again` the addresses that were added by name to an entry
for every port of their host while the entry left them out.  The code loses these
(see Findings) until every port of the host is added again;
`FilterAgrees` says that it loses no other and selects nothing that was not asked for.

## Packets

Packets are sequences of bytes, since the arithmetic of their lengths is what can go
wrong; texts and timestamps are filler.  `RtpPacket` has the builder, the layout
and `ParseRawPacket`; its `RtpNext` makes any calls with any arguments, of which the
run's `RtpCalls` chooses some.  `CompoundPacket` has the builder, which counts bytes with
every `Add...` and lays them out in `EndBuild`, and the parser.  A loop of the parser
is a recursive function of the offset it has come to: `ParseAll` from packet to
packet (`ParseData`), `EndOfItems` and `EndOfChunks` what the constructor of an SDES packet
walks over, `ReadItems` and `ChunkAt` what `GotoNextItem` and `GotoNextChunk` do
later without looking at the length again.  `RtcpReports` is a level above: which
sources have sent since the last packet, which of them were left over, which items
are due; it decides what fits by the sizes `CompoundPacket` counts with.  `BuilderNext` and
`ReporterNext` are any calls with any arguments, as `RtpNext` is; the run's `Assembles`,
`Arrives` and `ReportsNext` choose some of them.  `SdesInfo` is where the items come
from.  `SessionLimits` follows the maximum size: `SetMaximumPacketSize` sets it in
the transmitter, the two builders and the session in turn (`NewSize`,
`NewSizeBuilders`, `NewSizeRemembered`), and takes it back when a builder fails
(`NewSizeFails`, `NewSizeRestored`), while `SendPacket`, `SendRTCPAPPPacket` and the
poll thread build and send.  `part` of `MCPackets` says which of these moves.

## The other participants

`SourceTable` is a record, and each operation of `RTPSources` a function from
tables to tables; a compound packet is the fold of its items.  `RtpArrives` and
`RtcpArrives` are the part of `ProcessPolledData` that feeds the table, with the
collision tests in front (`rtpsession.cpp:1378-1462`); `RtcpFails` is a compound packet
with an SDES item of unknown type, at which the code returns an error with the items
before it already in the table.  A time is kept as what
a timeout asks of it, whether it is older, and `Ages` makes it so.
`TimeoutsDue` is the combined walk `MultipleTimeouts`, `OneTimeout` the separate
ones; `Goto` and `Step` are the application's cursor.  `SourceStats` is one
source whose sender, network and reader it adds.  `RtcpScheduler` counts in ticks
and rounds doubles down.  `HashTable` has the elements with their four pointers;
memory that was freed is `Wild`, and no caller follows such a cursor.

`ThreadStart` is the owner of a `JThread` (`StartBegins`, `StartCreates` or
`StartFails`, `StartSeesRunning`, `StartLocks2`, `StartReturns`, `Kill`) and its threads
(`ThreadLocks2` ... `ThreadEnds`).  `view` of `MCSources` says which of all these moves.

## Runs

| Run | Question |
| --- | --- |
| `udp_orderly` | Orderly client of the multicast API: do handles keep their own sockets also when a create fails half way, do receivers stay on their handle, do datagrams go to the address of `create` although `recvfrom` writes into the same record? |
| `udp_stop` | Any client: does a descriptor leak, does a receiver whose callback is unregistered end? |
| `rtp_receivers` | Orderly client of the multicast API with callbacks that send on the other handle: do table and sessions stay in step also when the group cannot be joined; ownership, a stop sequence that ends a receiver before its session goes, delivery although another source and more packets keep coming, sends and closes that return |
| `rtp_orderly` | Orderly use of a session: one user of the source table at a time, nothing deleted in use, nothing left behind, a queued BYE sent, the table granted |
| `rtp_any` | Any use of a session: does leaving it return? |
| `transmitters` | Do kernel and transmitter agree (`KernelMatches`); does nobody look at the transmitter after `Destroy` (`DestroyWaits`), and does that return (`DestroyReturns`); do the lists select what the calls add up to (`FilterAgrees`)? |
| `packets` | Does each byte of a message go out once (`EveryByteHanded`); is a packet read back as it was built (`RtpIsRead`, `BuildIsRead`), does the walk over a received one stay inside (`WalkStaysInside`); does every source and item get its turn (`ReportsReachAll`); does an iteration that is disturbed give each item once (`EachPrefixOnce`); do the four copies of the size agree (`LimitsAgree`)? |
| `sources` | Do the counters agree with a count (`CountsAgree`), do addresses come from one host (`HostsAgree`), are numbers and queue those of the sender (`ArrivalsAreExact`); is the timer never too early (`NeverTooEarly`) and does it fire (`TimerFires`); does the hash table implement an ordered one (`TableSpec`); does `Start` return, and not too early (`StartComesBack`, `StartedIsStarted`)? |
| `udp_open`, `rtp_unregister`, `rtp_bye`, `sources_active` | the disagreements below |

Bounds, and why they are enough:

- *Handles* (`MaxHandles`, 120 in the code): two where receivers run, since an error
  needs at most two that get mixed up; one in `udp_stop`, whose properties speak of
  one handle, and where stale numbers come back through its reuse.  Handles are not
  symmetric, because `create` takes the lowest free one.
- *Descriptors* at least as many as handles, so that the kernel hands a number out
  again.  *Thread ids*: two where two receivers run.
- *Datagrams of a send* (`MaxChunks`): two in `udp_orderly`, so that a receiver gets
  in between.  The part "message" cuts at 4 bytes instead of the real limit,
  with messages of up to `6 * 4 + 1` bytes: every remainder, six full datagrams.
- *Sources and packets* of an RTP handle (`view` of `MCRtpHandles`): one and one with two
  handles, where the questions are about threads and locks; two sources with two
  packets each and one handle, where a source waits behind another and has a
  packet behind its first.  Both have two threads, so that one receiver may be
  closed and another opened meanwhile.
- *SSRCs* (`MaxSsrc`): two changes, so that two BYEs wait behind each other.
  `rtp_any` has none: it asks about locks and objects.
- *Poll threads* (`Polls`): one where a thread is always joined before the next
  `Create`; two in `rtp_any`, where a cancelled one may outlive its session.
- *Transmitters*: two threads, the second of which waits while the first destroys;
  two hosts with two ports, so that an entry can have an exception and another
  host stay apart; `MaxQueue` 2, so that one datagram is behind another; a pipe
  of two bytes, so that two calls fill it and a third blocks.
- *RTP packets*: sequence numbers start two and timestamps two before their wrap;
  the first is the real 2^16, the second 2^30, which TLC's integers hold.  The numbers
  of packets and bytes for the sender report, 32 bits wide in the code, wrap at
  `CountWrap` 2, so that the third packet is behind a wrap.  Up to two
  CSRCs, with and without extension, and received packets whose length is one
  around each header's.
- *Compound packets*: `MaxCount` 2 instead of 31, so that three blocks or sources
  need a second header; a limit of 84 bytes refuses some of what is added; losses that
  are negative and that 24 bits do not hold.
  Received ones have up to four words of seven kinds and each count 0 to 2.
- *Reports*: three sources and 76 bytes, two blocks: always one is left over.  The
  sizes are scaled down from 600 bytes and items of 255 so that what `RoomAssumption`
  says of those stays true: one item, or one block, fits next to the own name.
- *Sizes of a session*: one below and one above what is allowed, two edges and one
  between; two application threads and two queued BYEs.
- *Source table*: three SSRCs, one of them our own, three addresses on two hosts,
  three packets: a source, a contributor or another source, and a collision need
  no more.  Probation takes two packets, which both the stored and the
  discarded case of the code need.
- *Numbers of one source*: sequence numbers modulo 8 and timestamps modulo 128 wrap
  inside ten packets; a gap of two and one place late are small against half
  the range, which is what the code asks of the real ones.
- *Hash table*: four keys in two buckets: chains of two, with a neighbour on
  either side in the list.
- *Timer*: two active members, intervals of three and more ticks, two random factors.
- *Threads of a `JThread`*: three, of which one may outlive its `Kill`.

Runs without a deadlock check (`CHECK_DEADLOCK FALSE`) are those in which the
system may stop: in `rtp_any` every poll thread is used up or dead; in
`transmitters` a killed waiter keeps `waitmutex`, or a write to the full pipe
keeps `mainmutex`; in
`packets` and `sources` a part comes to its bound (a packet is built, the numbers
are used up) and nobody has to call again.

## Fairness

- A call that has begun and a thread that can run go on: the operating system
  schedules every thread.  No call is assumed to begin, and no packet to arrive.
- A lock that is free again and again is got (strong fairness of the steps that
  take it).  POSIX mutexes do not promise it; the receiver loops take and free
  `sourcesmutex` without a pause, so the code depends on it.  `PacketsAreDelivered`,
  `SendsReturn`, `TableIsGranted` and `ByeGoesOut` need it.
- A callback returns after finitely many calls of its own.
- A receive timeout expires where the socket has one (`RecvTimeout`).
- RTCP falls due in the end: the scheduler's times are finite and each loop of
  the poll thread asks it.
- `Stop` gives up after 5 seconds, modelled as `LeaveKill`: it is possible only
  when the poll thread waits for a lock somebody has, since any other wait of it
  is shorter (at most one and a half RTCP intervals, the wait being aborted
  besides).  This step makes `LeaveReturns` true when a lock is never given back.
- `transmitters`: a thread that waits for a mutex again and again free gets it,
  `select` returns, and a thread that runs goes on; a killed one does not, and
  nothing is assumed of who calls `AbortWait`.
- `sources`: time passes, and the poll thread asks the scheduler again (`TimerFires`);
  the owner inside `Start` and a new thread up to `ThreadStarted` run
  (`StartComesBack`).  That a thread function returns is not assumed.

## What is proved

The proofs are for every number of handles, threads, descriptors, callbacks,
sources, addresses and packets, and every width of a number and length of a
message.  They assume only the `ASSUME` of the module they are about, and, about the
handle tables, `OneControl`: one thread calls `init`, `deinit`, `create` and
`destory`.  The code needs that: two concurrent creates would both find the same
free entry.  The inductive invariants were first checked by TLC, as invariants
of the runs; those stronger than a run's property stay in the proof modules.

Handle tables (`UdpHandles_proof`, `RtpHandles_proof`):

- `TypeCorrect` in both: `TypeOK` is inductive.
- `SocketSafety` (`SocketsOwned` and `NoLeak`) and `LeakSafety` (`NoLeak`).  Neither
  is inductive: a failed create leaves a stale descriptor number in the table,
  and the kernel may have handed out that number to somebody else.  `TableInv(c)`
  adds where the control thread is: the entry it is creating is not in use, the
  one it destroys is and drops out at the close, and a descriptor lost by a
  second `init` stays open, so that no socket call returns it.  Steps that
  leave flags, descriptors and control calls alone keep it (`QuietStep`); the
  rest is one lemma for each step of the control thread.
- `SessionSafety`: `SessionsInStep`, through `SessInv(c)`.  It adds that the entry
  under creation is free (or the undo would leave an entry without a session),
  that its session is made from the join of the group on, and that between `Leave`
  and the flag the session is gone.  Receivers and callbacks are quiet.
- `OwnHandle` (both), `SendsArrive` (UDP, an action property) and `StopSafety` (RTP):
  what an orderly client is promised.  `OwnInv(c)` adds to the above that one
  call is in progress at a time (`OneCall`), that a thread not yet joined is the
  one its handle names and no cancel ever meets one (`ThreadOk`), and what each call
  relies on from its guard to its last step (`CallOk`): an open has the static to
  itself until the thread has read it, a destory meets no thread of its handle.
  For UDP `AddrInv` says that `recvfrom` writes into RECEIVE entries only.  For RTP
  `LockOk` says that who has a session's lock is its reader, and `CallbackOk` that a
  receiver's own call is a send on a handle in use, from its callback.

A session (`RtpSession_proof`):

- `TypeCorrect` for any client.
- `TableSafety` (`TableGuarded`), `NoUseAfterDelete` (`NothingDeletedIsUsed`), `CleanLeave`
  (`NothingLeftBehind`) for an orderly one.  All three follow from `SessionInv`:
  who is in charge is alone (`AloneInv`); `created` and the transmitter are tied to
  the place in `Create` and `Destroy` (`LifeInv`); a call goes on only in the session
  it began in (`CallInv`); no poll thread but that of this session runs, and it
  has ended before anything is taken away (`PollInv`); who has a lock is at a
  place where it has it, and the other way round (`LockInv`).  `Destroy` clears
  the table without a lock: `TableGuarded` holds there because `PollInv` and
  `AloneInv` leave nobody who could be at it.

Transmitters (`Transmitters_proof`), for each of the four:

- `KernelAgrees`: `KernelMatches`: half a join that failed is undone on the other
  socket, `Create` starts anew, and `Destroy` closes the abort pipe as soon as its byte
  is in it.
- `DestroyIsSafe`: `DestroyWaits`, that nobody looks at the transmitter any more (its
  `waitmutex` may still have to be unlocked, see Findings), with `WaitInv`: who is in `WaitForIncomingData` has
  `mainmutex` before the wait and `waitmutex` from the wait on (also a thread killed in
  it), at most one thread is between the two, and `waitingfordata` says whether, so
  that a `Destroy` that does not wait meets nobody there.
- `FilterSafety`: `FilterAgrees`.  `FilterInv` adds the shape of the lists; one
  lemma for each call has what it selects and what it is taken to ask for.
- `TypesCorrect`: `TypeOK`.  That `pipe` stays a natural number says that no byte is
  read of the abort pipe that was not written (the read would block under
  `mainmutex`): `WaitTyped` has it that the thread that has left its `select` and saw
  the pipe finds a byte in it as long as the transmitter is there.  It needs
  `DestroyInv`: a `Create`, which starts with an empty pipe, meets no thread that has
  left its `select`, and no second thread could have read the byte.  The list that
  `PollSocket` builds is typed by the prefix at which it would not be.

What is sent (`MCPackets_proof`, `CompoundPacket_proof`):

- `EveryByteOnce`: `EveryByteHanded`, that is every byte once and in order, through
  `SendInv`, which says how many bytes are out for each value of the loop's index.
- `LimitsSafety`: `LimitsAgree`.  It is not inductive, since it says nothing of the
  sizes inside the call that sets them: `SizesInv` does, for each place of that
  call, and `Fits` says of every packet, and of every length one is being given,
  that it is within the transmitter's size or marked, and marked while a size is
  being set, so that taking a size back hurts no other.
- `SdesSafety`: `EachPrefixOnce`.  `SdesInv` says of an iteration at place `c` that what
  it has given is not at `c` or behind, and what it still owes is: a new item goes
  to the front, where the iterator never comes again, and a deleted one moves those
  behind it by one place, the iterator with them.

- `RtpSafety`: `RtpIsRead`, for any payload, extension, CSRCs and order of calls
  (`RtpSpec`).  `LaidOut` says where each part of a packet stands in its bytes, and
  `RoundTrip` that `ParseRawPacket`, which has only the counts in the headers to go by,
  finds it there.  `Inside` is about bytes nobody built: what the parser accepts fills the
  datagram.  `RtpInv` is inductive: `SenderKnows` ties the builder's counts, modulo
  `CountWrap`, to a fold over all that was sent, and its clock to the last packet at
  which it was read.  The first attempt failed at the counts: 2^32 packets after the
  first the builder finds its count at 0 and reads the clock again for a timestamp it
  has, so the property names that case.  `RtpTypes` adds that no contributor is listed
  twice, which needs that a deleted one makes room by moving the last into its place.
- `WalkSafety`: `WalkStaysInside`, for any bytes.  `ChunksWalked` goes along with the
  constructor: where `EndOfItems` and `EndOfChunks` come to, the readers come to as
  well, and have met only items that are as long as they say.
- `BuildSafety`: `BuildIsRead`, for any calls (`BuilderSpec`), any `MaxCount` up to 31 and
  any size the session allows.  `Laying` is the invariant: a finished packet is the
  layout of what was asked, and what was asked is `Fitting`: every APP and BYE packet is
  one of its type with a true length, every item has the length it states, and what
  the sources need is within the limit, but for the first one, which is added without
  its bytes being counted.  Each `Add...` has a lemma that it keeps
  `Fitting`, so that counting one more is counting it anew.  The layout is then taken
  apart: it is a sequence of packets (`LayoutIs`), one after the other found by
  `ParseAll` (`PacketsParsed`), and each is read as it was written (`BlocksRead`,
  `ChunksRead`, `AppIs`, `ByeIs`); what was cut into groups of `MaxCount` comes together
  again (`GroupsFlat`).
- `ReportsSafety`: `ReportsReachAll`, for any sources, items, intervals and sizes under
  `RoomAssumption` (`ReporterSpec`).  The invariant bounds the waiting by what is left:
  `Left` of a source is how many more packets it can be left out of: one for each
  other source whose turn comes before its own; all of them once more and one for
  each item if it had its turn already; and, while items are left over, one for
  each of these and for each other source.  `ReportsInv` says that the packets it waited
  through and `Left` together never exceed the bound.  Every packet takes at least one
  from `Left` of whoever it leaves out: a full one has a block, since one fits next to
  the own name, and so another source had its turn (`FullKeeps`); one that comes to the
  end of the list leaves out only who had his turn, and either the items fill it or he
  is in its second run (`LeftoverKeeps`, `SecondKeeps`); and one that begins with leftover
  items has one of them, since one fits (`ItemsKeep`).
- `PartsRun`: the specification of the run implements `Spec`, `RtpSpec`, `BuilderSpec`,
  `ReporterSpec`, `SdesSpec` and `LimitsSpec`, the general specifications of its parts,
  so that all theorems about these hold of it; `PacketsTypes` (`PacketsTypeOK`) is one
  consequence.  It is the only theorem about the constants of one instance
  (`PacketsAssumption`: the items the run sets).

The other participants (`SourceTable_proof`, `MCSources_proof`), all
as theorems of `MembersSpec`, the specification of the run:

- `CountsSafety` (`CountsAgree`) and `HostsSafety` (`HostsAgree`).  The state is one
  table and each event a chain of operators, up to a fold over the items of a
  compound packet.  `Sound(T)` is the invariant of a table, and each operator of
  `SourceTable` has a lemma that it makes a sound table of a sound one, forgetting
  no source (`Grows`) where it deletes none.  Folds are proved once (`Apply`): a fold
  of steps that each keep `Sound` keeps it, by the least place at which it would not
  (well-founded induction in first-order form, which needs no operator parameter).
  Counting needs that a source whose sender or active flag changes moves the counter
  by the same one (`One`).
- `ArrivalsSafety`: `ArrivalsAreExact`, through `StatsInv`: the queue is sorted and
  within its bound, and what the code keeps of a source is, up to the width of the
  numbers, what `history` says of the packets that came (`Probing`, `Extending16`).
  The half-range tests of the code decide rightly because gap and lateness together are
  below half the range; this is what `StatsAssumption` asks of the network.
- `TimerSafety`: `NeverTooEarly`, inductive with a few bounds (`SchedInv`): at most all
  members send, and a BYE that waits has counted at most the packets that came.
  The rest is arithmetic: shortening the wait by the share of the members that left
  shortens what was waited by as much.
- `StartSafety`: `StartedIsStarted`, through `ThreadInv`: whoever has not yet told is the
  thread of the `Start` that runs and holds `continuemutex2`, so that `Start` cannot
  take it; a cancelled thread had told; and `running` is about the owner's thread
  until a cancelled one comes to its end.
- `HashSafety`, `HashRefines` (about `HashSpec`, the table alone) and `TableRefines`:
  the hash table implements `OrderedTable`.  `HashInv` is the whole of its shape, two
  existentials: a sequence of all keys whose neighbours are `listprev` and
  `listnext`, and a numbering of the keys such that `hashnext` of a key is the
  next lower one in its bucket, `hashprev` the next higher and the head the highest.
  That a search finds a key and a walk gives the sequence is about recursive functions
  over the keys, by the least number at which it would fail.
- `MembersTypes`: `MembersTypeOK`, from the invariants above.

What the proofs changed in the models: `StatsAssumption` says what the run's
constants satisfied without being asked to (a first packet below the width and
within the run, timestamp steps that do not wrap inside a gap), and
`SitesAssumption`, `AddressesAssumption`, `SdesAssumption` the like; `ProcessItem` of
`SourceTable` had a `CASE` with two arms true at once, which TLC resolves by order
and the logic does not; the steps of folds got names; lists that lose an element do so
at a place (`RemoveAt`) and not by filtering, as in the code, which erases one;
what `PollSocket` accepts is appended datagram by datagram (`Accept`), as in its loop;
and the walks of `HashTable` are functions on the keys there are.  The parser of
`CompoundPacket` was made of RECURSIVE operators, of which the proof system says
nothing; its recursive functions have a lemma (`Recursion`) that each of them is the
function its definition says, by the least measure at which two would differ.  The
proof of `BuildIsRead` found that the property was true only of losses that 24 bits hold:
the code writes three bytes of the number without saturation, so what is read is the
rest modulo 2^24 with a sign (`Sent24`); that a BYE packet has its own limit of 31,
next to the builder's; and that the length in a header has 16 bits, so that a packet must be
shorter than 2^18 bytes, which the transmitters' `MaxPackSize` sees to.  The proof of `ReportsReachAll` needed what the real sizes satisfy and the
model had not said (`RoomAssumption`, names and items of at most `MaxItem` bytes).

Only model-checked:

- Liveness (`...Return`, `...Arrive`, `TimerFires`, `StartComesBack` and the like): fairness
  and ENABLED are beyond the proof system.  Every safety property of the passing runs
  is stated by a theorem.
- That the recursive functions of the parser say what its loops do is read off the
  code, as for every definition; the proofs are about those functions.

## Findings

- `udp_open`: two opens in a row share one static `int`; the thread of the first may
  read the handle of the second.  All four APIs do this.
- `rtp_unregister`: the receiver loop of the RTP APIs tests the callback once per
  round and calls it for every packet: an unregister in between ends in a call
  of NULL.
- `rtp_bye`: `SendPacket` marks *the session* as having sent, after the packet went
  out under an SSRC that the poll thread may have replaced meanwhile; the next
  collision queues a BYE for an SSRC nothing was sent under.  Sending a queued
  BYE does the same without a race (`rtpsession.cpp:1528`).
- `sources_active`: a source known before a list of contributors names it is validated by
  that list and not counted as active, until all timeouts are looked at next.
  `CountsAgree` names these sources (`missed`).

Disagreements without a run of their own.  Each is what the definition named with it
rules out; that definition stands after the properties of the module, and named in
place of the properties of `Transmitters.cfg` (`RtpOrderly.cfg` for the first) it is
violated.

- `DestoryFindsSession` (`RtpClient`): `rtp_*_destory` calls `Destroy` before `BYEDestroy`,
  which then finds no session, so no BYE ever goes out, against "Sends a BYE packet and
  leaves the session" (`rtpsession.h:115`).
- `WaitReturns` (`MCTransmitters`): a write to the full abort pipe is made with `mainmutex`
  held, and the thread that reads the pipe wants that mutex first: `WaitForIncomingData`
  does not come back after its delay, and neither does any other call, `Destroy`
  included, against "Waits at most a time `delay`" (`rtptransmitter.h:147`).  Injections
  alone fill the pipe of the external transmitter (`rtpexternaltransmitter.cpp:804`).
- `WaitHasEnded` (`MCTransmitters`): `Destroy` takes `waitmutex` "to make sure that the
  WaitForIncomingData function ended" (`rtpudpv4transmitter.cpp:380`), but not when
  `waitingfordata` is cleared already, which that function does before it unlocks
  (lines 654 and 687): it may still have a mutex of the object to unlock when `Destroy` has
  returned.
- `AddsAddr` (`MCTransmitters`): a port that was deleted from an entry for every port of a
  host and is added again stays out of the list, and the call answers with success
  (`rtpudpv4transmitter.cpp:1345`), against "Adds `addr` to the list" (`rtptransmitter.h:189`
  and `199`).  `FilterAgrees` names these addresses (`again`).
- `PollStores` (`MCTransmitters`): `Poll` stores nothing from a socket that has an empty
  datagram at its head, and leaves it there (`rtpudpv4transmitter.cpp:1279`): the socket is
  shut until `Destroy`, against "Checks for incoming data and stores it"
  (`rtptransmitter.h:143`).

Not disagreements, but worth knowing, since the runs show them:

- A packet or a queued BYE that was built before a smaller maximum size was set is
  refused by the transmitter after, and that error ends the poll thread
  (`LimitsAgree` has the case as `changed`).
- A thread that outlives its `Kill` sets `running` to false when it ends, also when the
  object has a new thread by then; `Start` of that one may then wait for ever
  (`outlived` in `StartComesBack`).
- Each member that leaves shortens the time counted as waited: members that keep leaving can keep a
  packet from going out (`TimerFires` excepts them).
- A report is started when the space left is at least its size, and the space left is
  an unsigned difference: with more in the packet than its maximum the test
  passes (`CanStart`).  That can happen only by the first source, which is added without its
  bytes being counted (`SDESNeedsWithSource`), and no packet of a session begins so:
  `RTCPPacketBuilder` starts the report first.
- `SendRTCPAPPPacket` reads the SSRC and the size of the session in two steps without
  holding a lock over both.

## Not modelled

- The payload and the address of a packet of an API (only where an address came
  from), the pauses of `sendmsg` with `m_timetotl`, logging, and `addroute`, which runs
  a system command.
- `AddDestination` in `rtp_*_create`: it cannot fail for a new session.
- Of a session: the setters that hand one value on under one mutex (timeouts, default
  payload type, time stamp unit, bandwidth), the wrappers of one transmitter method,
  `CreateCNAME`, and `Poll`, `WaitForIncomingData`, `AbortWait`, `GetRTCPDelay` for
  sessions without a poll thread, which the APIs never make.
- Of a transmitter: `ComesFromThisTransmitter` and the getters, which change nothing (what
  the first answers is an input of `SourceTable`: `Local` among the senders);
  `Dump`; the branches for Windows and for systems without `poll` or `getifaddrs`,
  and what the macro `DVB_SERVER`, which no build file of the repository defines, leaves out
  (binding and polling the RTP socket in `rtpudpv4transmitter.cpp`, lines 248, 264 and
  602; the collision of two addresses in `rtpsources.cpp:1417`).
- Memory: what `RTPDelete` frees, and what a failing path forgets to (an entry's port
  list when the receive mode changes), except where a freed object is used.
- RTCP packets of unknown type, which the configuration does not compile in; jitter
  and round trip times, which are averages over real clocks nothing depends on.
- Windows and debug builds, system wrappers, sample programs.

## Plan

1. Done: the handle tables, the cut, the session and its sizes, the four
   transmitters, packets, source table, scheduler, containers and the start of a
   thread; the refinement of the hash tables.
2. Done: every safety invariant of the handle tables, the session, the transmitters,
   RTP packets and sizes, the source table, the timer and the thread start, and the
   hash tables' refinement.
3. Done: the builder and the parser of RTCP compound packets, the reports over
   time, and all parts of what is sent together.
4. Left: the liveness properties, which stay with TLC, and an abstract session that is
   created, used under a lock and left, implemented by `RtpSession` under
   `OrderlySpec`; what it would promise is checked and proved as `TableGuarded`,
   `NothingDeletedIsUsed` and `NothingLeftBehind`.
