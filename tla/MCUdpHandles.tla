---------------------------- MODULE MCUdpHandles ----------------------------
EXTENDS UdpClient, TLC

\* Thread ids, descriptors and callbacks are interchangeable; handles are not,
\* a create takes the lowest.
Symmetry == Permutations(Threads) \cup Permutations(Fds) \cup Permutations(Callbacks)
=============================================================================
